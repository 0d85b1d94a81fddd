------------------------------- MODULE BuildProofs -------------------------------
(***************************************************************************)
(* What ram_proc build and preprocessor build produce is consistent, for   *)
(* every size, format, cpu.yaml and memory configuration.  Each command is *)
(* a loop, and each proof is about what its loop has done so far.          *)
(***************************************************************************)
EXTENDS Build, SequenceTheorems, WellFoundedInduction, TLAPS

(* Products of naturals are monotone.                                      *)
LEMMA MulMono ==
  ASSUME NEW a \in Nat, NEW b \in Nat, a <= b, NEW c \in Nat
  PROVE  a * c <= b * c /\ a * c \in Nat /\ b * c \in Nat
BY Z3

(* Quotient and remainder of q * b + r.                                    *)
LEMMA DivOf ==
  ASSUME NEW q \in Nat, NEW b \in Nat \ {0}, NEW r \in 0..(b - 1)
  PROVE  (q * b + r) \div b = q /\ (q * b + r) % b = r
BY Z3

(* A natural is its quotient times the divisor plus its remainder.         *)
LEMMA DivIs ==
  ASSUME NEW n \in Nat, NEW b \in Nat \ {0}
  PROVE  /\ n \div b \in Nat /\ n % b \in 0..(b - 1)
         /\ n = (n \div b) * b + (n % b)
<1>1. n % b \in 0..(b - 1) BY Z3
<1>2. n \div b \in Int BY Z3
<1>3. n = b * (n \div b) + (n % b) BY Z3
<1>4. n \div b >= 0 BY <1>1, <1>2, <1>3, Z3
<1>5. b * (n \div b) = (n \div b) * b BY <1>2
<1>6. n = (n \div b) * b + (n % b) BY <1>3, <1>5
<1> QED BY <1>1, <1>2, <1>4, <1>6

-----------------------------------------------------------------------------
(* BuildConfig: the dispatch tables                                        *)

(* Entries of the result of _resolve_instructions.                         *)
Resolved == [label : Labels, address : Nat, count : Nat \ {0}, align : Nat \ {0}]
EndOf(value) == value.address + value.count * value.align

(* Types.                                                                  *)
ConfigType ==
  /\ instructions \in Seq(Instructions) /\ csrs \in Seq(Csrs)
  /\ resolved \in Seq(Resolved) /\ address \in Nat
  /\ at \in Nat \ {0} /\ name \in Nat \ {0}

(* The entries are resolved in the order of their addresses, and an entry  *)
(* that has been written to LABELS is still there.                         *)
InstructionsInv ==
  /\ \A n \in DOMAIN resolved : EndOf(resolved[n]) <= address
  /\ \A m, n \in DOMAIN resolved : m < n => EndOf(resolved[m]) <= resolved[n].address
  /\ stage \in {"defaults", "tables", "ready"} =>
       \A n \in DOMAIN resolved : n < at => \A slot \in Slots(resolved[n]) :
         slot \in DOMAIN LABELS /\ LABELS[slot] = resolved[n].label
  /\ stage = "ready" => at > Len(resolved)

(* Entry n of the CSRs has been resolved up to name k.                     *)
Done(n, k) == stage \notin {"instructions", "csrs"} \/ n < at \/ (n = at /\ k < name)

Valid(entry, csr) == csr \in CsrAddresses /\ (ReadOnly(csr) <=> entry.write = Absent)

(* A CSR is dispatched as the last entry resolved so far says that expands *)
(* to it.                                                                  *)
CsrsInv ==
  /\ stage = "instructions" => csrTable = <<>> /\ name = 1
  /\ \A csr \in DOMAIN csrTable :
       /\ csrTable[csr].read \in CsrAddresses /\ csrTable[csr].write \in CsrAddresses \union {Absent}
       /\ csrTable[csr].mask \in Nat
  /\ stage \in {"csrs", "defaults", "tables", "ready"} =>
       \A n \in DOMAIN csrs : \A k \in DOMAIN csrs[n].names :
         LET csr == csrs[n].names[k] IN
           Done(n, k) =>
             /\ Valid(csrs[n], csr)
             /\ (\A m \in DOMAIN csrs : m > n => \A j \in DOMAIN csrs[m].names : Done(m, j) => csrs[m].names[j] # csr)
                  => csr \in DOMAIN csrTable /\ csrTable[csr] = Named(csrs[n], csr)

(* A CSR that was resolved is one that an entry names, and the others keep *)
(* the default in CSR_LABELS.                                              *)
DefaultsInv ==
  /\ stage = "instructions" => csrTable = <<>>
  /\ \A csr \in DOMAIN csrTable : \E n \in DOMAIN csrs : \E k \in DOMAIN csrs[n].names : csrs[n].names[k] = csr
  /\ stage = "tables" => CSR_LABELS = [csr \in CsrNumbers |-> IllegalCsr]
  /\ stage = "ready" =>
       CSR_LABELS = [csr \in CsrNumbers |-> IF csr \in DOMAIN csrTable THEN Pack(csrTable[csr]) ELSE IllegalCsr]

(* What has been done with the two lists.                                  *)
ListsInv == ConfigType /\ InstructionsInv /\ CsrsInv

(* The invariant of the configuration.                                     *)
ConfigInv == ListsInv /\ DefaultsInv

(* The invariant holds at the start.                                       *)
LEMMA ConfigInitHolds == ConfigInit => ConfigInv
<1> SUFFICES ASSUME ConfigInit PROVE ConfigInv OBVIOUS
<1>1. instructions \in Seq(Instructions) /\ csrs \in Seq(Csrs) BY FilesAssumption DEF ConfigInit
<1>2. ConfigType BY <1>1 DEF ConfigType, ConfigInit
<1>3. InstructionsInv BY DEF InstructionsInv, ConfigInit
<1>4. CsrsInv BY DEF CsrsInv, ConfigInit
<1>5. DefaultsInv BY DEF DefaultsInv, ConfigInit
<1> QED BY <1>2, <1>3, <1>4, <1>5 DEF ConfigInv, ListsInv

(* Alignment never goes back.                                              *)
LEMMA RoundUpIs ==
  ASSUME NEW n \in Nat, NEW align \in Nat \ {0}
  PROVE  RoundUp(n, align) \in Nat /\ RoundUp(n, align) >= n
<1> DEFINE m == n + align - 1
<1>1. m \in Nat OBVIOUS
<1>2. m \div align \in Nat /\ m % align \in 0..(align - 1) /\ m = (m \div align) * align + (m % align)
  BY <1>1, DivIs
<1>3. (m \div align) * align \in Nat BY <1>2, MulMono
<1>4. RoundUp(n, align) = (m \div align) * align BY DEF RoundUp
<1> HIDE DEF m
<1>5. (m \div align) * align >= m - (align - 1) BY <1>1, <1>2, <1>3
<1> QED BY <1>3, <1>4, <1>5 DEF m

(* The slots of an entry are between its address and its end.              *)
LEMMA SlotsBelow ==
  ASSUME NEW value \in Resolved, NEW slot \in Slots(value)
  PROVE  slot \in Nat /\ value.address <= slot /\ slot < EndOf(value)
<1>1. value.address \in Nat /\ value.count \in Nat \ {0} /\ value.align \in Nat \ {0} BY DEF Resolved
<1>2. PICK n \in 0..(value.count - 1) : slot = value.address + n * value.align BY DEF Slots
<1>3. n \in Nat /\ n <= value.count - 1 /\ value.count - 1 \in Nat BY <1>1, <1>2
<1>4. n * value.align <= (value.count - 1) * value.align /\ n * value.align \in Nat
      /\ (value.count - 1) * value.align \in Nat
  BY <1>1, <1>3, MulMono
<1>5. (value.count - 1) * value.align = value.count * value.align - value.align BY <1>1
<1>6. value.count * value.align \in Nat BY <1>1, MulMono
<1> QED BY <1>1, <1>2, <1>4, <1>5, <1>6 DEF EndOf

(* An entry is placed behind all entries before it, or refused.            *)
LEMMA InstructionStep ==
  ASSUME ConfigInv, ResolveInstruction
  PROVE  ListsInv'
<1>1. /\ stage = "instructions" /\ at <= Len(instructions)
      /\ UNCHANGED <<instructions, csrs, csrTable, name, LABELS, CSR_LABELS>>
  BY DEF ResolveInstruction
<1>2. /\ instructions \in Seq(Instructions) /\ resolved \in Seq(Resolved) /\ address \in Nat /\ at \in Nat \ {0}
      /\ csrs \in Seq(Csrs) /\ name \in Nat \ {0}
  BY DEF ConfigInv, ListsInv, ConfigType
<1> DEFINE value == instructions[at]
<1>3. value \in Instructions BY <1>1, <1>2
<1>4. CASE Invalid(value)
  <2>1. stage' = "invalid" /\ UNCHANGED <<resolved, address, at>> BY <1>4 DEF ResolveInstruction
  <2>2. ConfigType' BY <1>1, <1>2, <2>1 DEF ConfigType
  <2>3. InstructionsInv' BY <1>1, <2>1 DEF ConfigInv, ListsInv, InstructionsInv
  <2>4. CsrsInv' BY <1>1, <2>1 DEF ConfigInv, ListsInv, CsrsInv
  <2> QED BY <2>2, <2>3, <2>4 DEF ListsInv
<1>5. CASE ~Invalid(value)
  <2> DEFINE new == [label |-> value.label, address |-> AddressOf(value),
                     count |-> CountOf(value), align |-> value.align]
  <2>1. /\ resolved' = Append(resolved, new) /\ address' = AddressOf(value) + CountOf(value) * value.align
        /\ at' = at + 1 /\ stage' = stage
    BY <1>5 DEF ResolveInstruction
  <2>2. /\ value.label \in Labels /\ value.count \in Nat \ {0} /\ value.align \in Nat \ {0}
        /\ value.address \in Nat \union {Absent} /\ value.upTo \in Nat \union {Absent}
    BY <1>3 DEF Instructions
  <2>3. AddressOf(value) \in Nat /\ AddressOf(value) >= address
    <3>1. CASE value.address = Absent BY <1>2, <2>2, <3>1, RoundUpIs DEF AddressOf
    <3>2. CASE value.address # Absent BY <1>2, <1>5, <2>2, <3>2 DEF AddressOf, Invalid
    <3> QED BY <3>1, <3>2
  <2>4. CountOf(value) \in Nat \ {0}
    <3>1. CASE value.upTo = Absent BY <2>2, <3>1 DEF CountOf
    <3>2. CASE value.upTo # Absent
      <4>1. value.upTo \in Nat /\ value.upTo >= AddressOf(value) BY <1>5, <2>2, <2>3, <3>2 DEF Invalid
      <4> QED BY <2>3, <3>2, <4>1 DEF CountOf
    <3> QED BY <3>1, <3>2
  <2>5. CountOf(value) * value.align \in Nat BY <2>2, <2>4, MulMono
  <2>6. new \in Resolved BY <2>2, <2>3, <2>4 DEF Resolved
  <2>7. EndOf(new) = address' /\ new.address >= address /\ address' \in Nat /\ address' >= address
    BY <1>2, <2>1, <2>3, <2>5 DEF EndOf
  <2> HIDE DEF new
  <2>8. /\ resolved' \in Seq(Resolved) /\ Len(resolved') = Len(resolved) + 1 /\ Len(resolved) \in Nat
        /\ DOMAIN resolved = 1..Len(resolved) /\ DOMAIN resolved' = 1..(Len(resolved) + 1)
        /\ \A n \in 1..(Len(resolved) + 1) : resolved'[n] = IF n = Len(resolved) + 1 THEN new ELSE resolved[n]
    BY <1>2, <2>1, <2>6
  <2>9. ConfigType' BY <1>1, <1>2, <2>1, <2>7, <2>8 DEF ConfigType
  <2>10. \A n \in DOMAIN resolved : EndOf(resolved[n]) <= address /\ EndOf(resolved[n]) \in Int
    <3>1. \A n \in DOMAIN resolved : resolved[n] \in Resolved BY <1>2
    <3>2. \A r \in Resolved : EndOf(r) \in Int
      <4> TAKE r \in Resolved
      <4>1. r.count \in Nat /\ r.align \in Nat /\ r.address \in Nat BY DEF Resolved
      <4>2. r.count * r.align \in Nat BY <4>1, MulMono
      <4> QED BY <4>1, <4>2 DEF EndOf
    <3> QED BY <3>1, <3>2 DEF ConfigInv, ListsInv, InstructionsInv
  <2>11. InstructionsInv'
    <3>1. ASSUME NEW n \in DOMAIN resolved' PROVE EndOf(resolved'[n]) <= address'
      <4>1. CASE n = Len(resolved) + 1 BY <2>7, <2>8, <4>1
      <4>2. CASE n # Len(resolved) + 1
        <5>1. n \in DOMAIN resolved /\ resolved'[n] = resolved[n] BY <2>8, <4>2
        <5> QED BY <1>2, <2>7, <2>10, <5>1
      <4> QED BY <4>1, <4>2
    <3>2. ASSUME NEW m \in DOMAIN resolved', NEW n \in DOMAIN resolved', m < n
          PROVE  EndOf(resolved'[m]) <= resolved'[n].address
      <4>0. m \in DOMAIN resolved /\ resolved'[m] = resolved[m] BY <2>8, <3>2
      <4>1. CASE n = Len(resolved) + 1
        <5>1. resolved'[n] = new BY <2>8, <4>1
        <5>2. new.address \in Int BY <2>6 DEF Resolved
        <5> QED BY <1>2, <2>7, <2>10, <4>0, <5>1, <5>2
      <4>2. CASE n # Len(resolved) + 1
        <5>1. n \in DOMAIN resolved /\ resolved'[n] = resolved[n] BY <2>8, <4>2
        <5> QED BY <3>2, <4>0, <5>1 DEF ConfigInv, ListsInv, InstructionsInv
      <4> QED BY <4>1, <4>2
    <3>3. stage' = "instructions" BY <1>1, <2>1
    <3> QED BY <3>1, <3>2, <3>3 DEF InstructionsInv
  <2>12. CsrsInv' BY <1>1, <2>1 DEF ConfigInv, ListsInv, CsrsInv
  <2> QED BY <2>9, <2>11, <2>12 DEF ListsInv
<1> QED BY <1>4, <1>5

(* Writing the slots of an entry leaves those of earlier entries alone.    *)
LEMMA LabelsStep ==
  ASSUME ConfigInv, FillLabels
  PROVE  ListsInv'
<1>1. /\ stage = "tables" /\ at <= Len(resolved) /\ at' = at + 1
      /\ UNCHANGED <<instructions, csrs, resolved, address, csrTable, name, CSR_LABELS, stage>>
      /\ LABELS' = [slot \in DOMAIN LABELS \union Slots(resolved[at]) |->
                      IF slot \in Slots(resolved[at]) THEN resolved[at].label ELSE LABELS[slot]]
  BY DEF FillLabels
<1>2. resolved \in Seq(Resolved) /\ at \in Nat \ {0} /\ Len(resolved) \in Nat /\ DOMAIN resolved = 1..Len(resolved)
  BY DEF ConfigInv, ListsInv, ConfigType
<1>3. ConfigType' BY <1>1, <1>2 DEF ConfigInv, ListsInv, ConfigType
<1>4. ASSUME NEW n \in DOMAIN resolved, n < at + 1, NEW slot \in Slots(resolved[n])
      PROVE  slot \in DOMAIN LABELS' /\ LABELS'[slot] = resolved[n].label
  <2>0. at \in DOMAIN resolved /\ n \in Nat BY <1>1, <1>2
  <2>1. CASE n = at BY <1>1, <1>4, <2>1
  <2>2. CASE n # at
    <3>1. n < at BY <1>2, <1>4, <2>0, <2>2
    <3>2. slot \in DOMAIN LABELS /\ LABELS[slot] = resolved[n].label
      BY <1>1, <1>4, <3>1 DEF ConfigInv, ListsInv, InstructionsInv
    <3>3. EndOf(resolved[n]) <= resolved[at].address BY <2>0, <3>1 DEF ConfigInv, ListsInv, InstructionsInv
    <3>4. resolved[n] \in Resolved /\ resolved[at] \in Resolved BY <1>2, <2>0
    <3>5. resolved[n].address \in Nat /\ resolved[n].count \in Nat /\ resolved[n].align \in Nat
          /\ resolved[at].address \in Nat
      BY <3>4 DEF Resolved
    <3>6. EndOf(resolved[n]) \in Nat
      <4>1. resolved[n].count * resolved[n].align \in Nat BY <3>5, MulMono
      <4> QED BY <3>5, <4>1 DEF EndOf
    <3>7. slot \notin Slots(resolved[at])
      <4> SUFFICES ASSUME slot \in Slots(resolved[at]) PROVE FALSE OBVIOUS
      <4>1. slot \in Nat /\ slot < EndOf(resolved[n]) BY <1>4, <3>4, SlotsBelow
      <4>2. resolved[at].address <= slot BY <3>4, SlotsBelow
      <4> QED BY <3>3, <3>5, <3>6, <4>1, <4>2
    <3> QED BY <1>1, <3>2, <3>7
  <2> QED BY <2>1, <2>2
<1>5. InstructionsInv' BY <1>1, <1>4 DEF ConfigInv, ListsInv, InstructionsInv
<1>6. CsrsInv' BY <1>1 DEF ConfigInv, ListsInv, CsrsInv, Done
<1> QED BY <1>3, <1>5, <1>6 DEF ListsInv

(* Handlers and mask of an entry whose own name is filled in.              *)
LEMMA NamedIs ==
  ASSUME NEW entry \in Csrs, NEW csr \in CsrAddresses
  PROVE  /\ Named(entry, csr).mask = entry.mask /\ entry.mask \in Nat
         /\ Named(entry, csr).read = (IF entry.read = OwnName THEN csr ELSE entry.read)
         /\ Named(entry, csr).write = (IF entry.write = OwnName THEN csr ELSE entry.write)
         /\ Named(entry, csr).read \in CsrAddresses
         /\ Named(entry, csr).write \in CsrAddresses \union {Absent}
BY DEF Named, Csrs

(* The entry that is resolved last wins.                                   *)
LEMMA CsrStep ==
  ASSUME ConfigInv, ResolveCsr
  PROVE  ListsInv'
<1>1. /\ stage = "csrs" /\ at <= Len(csrs) /\ name <= Len(csrs[at].names)
      /\ UNCHANGED <<instructions, csrs, resolved, address, at, LABELS, CSR_LABELS>>
  BY DEF ResolveCsr
<1>2. csrs \in Seq(Csrs) /\ at \in Nat \ {0} /\ name \in Nat \ {0} /\ at \in DOMAIN csrs
  BY <1>1 DEF ConfigInv, ListsInv, ConfigType
<1>3. csrs[at] \in Csrs /\ csrs[at].names \in Seq(Nat) /\ name \in DOMAIN csrs[at].names
  <2>1. csrs[at] \in Csrs BY <1>2
  <2>2. csrs[at].names \in Seq(Nat) BY <2>1 DEF Csrs
  <2>3. DOMAIN csrs[at].names = 1..Len(csrs[at].names) /\ Len(csrs[at].names) \in Nat BY <2>2
  <2> QED BY <1>1, <1>2, <2>1, <2>2, <2>3
<1> DEFINE csr0 == csrs[at].names[name]
<1>4. CASE InvalidCsr(csr0, csrs[at])
  <2>1. stage' = "invalid" /\ UNCHANGED <<csrTable, name>> BY <1>4 DEF ResolveCsr
  <2>2. ConfigType' BY <1>1, <2>1 DEF ConfigInv, ListsInv, ConfigType
  <2>3. InstructionsInv' BY <1>1, <2>1 DEF ConfigInv, ListsInv, InstructionsInv
  <2>4. CsrsInv' BY <1>1, <2>1 DEF ConfigInv, ListsInv, CsrsInv
  <2> QED BY <2>2, <2>3, <2>4 DEF ListsInv
<1>5. CASE ~InvalidCsr(csr0, csrs[at])
  <2>1. csrTable' = With(csrTable, csr0, Named(csrs[at], csr0)) /\ name' = name + 1 /\ stage' = stage
    BY <1>5 DEF ResolveCsr
  <2>2. Valid(csrs[at], csr0) BY <1>5 DEF InvalidCsr, Valid, ReadOnly
  <2>3. ConfigType' BY <1>1, <1>2, <2>1 DEF ConfigInv, ListsInv, ConfigType
  <2>4. InstructionsInv' BY <1>1, <2>1 DEF ConfigInv, ListsInv, InstructionsInv
  <2>5. DOMAIN csrTable' = DOMAIN csrTable \union {csr0}
        /\ \A c \in DOMAIN csrTable' : csrTable'[c] = IF c = csr0 THEN Named(csrs[at], csr0) ELSE csrTable[c]
    BY <2>1 DEF With
  <2>6. \A c \in DOMAIN csrTable' :
          /\ csrTable'[c].read \in CsrAddresses /\ csrTable'[c].write \in CsrAddresses \union {Absent}
          /\ csrTable'[c].mask \in Nat
    <3> TAKE c \in DOMAIN csrTable'
    <3>1. CASE c = csr0 BY <1>3, <2>2, <2>5, <3>1, NamedIs DEF Valid
    <3>2. CASE c # csr0 BY <2>5, <3>2 DEF ConfigInv, ListsInv, CsrsInv
    <3> QED BY <3>1, <3>2
  <2>7. \A n, k \in Nat : Done(n, k)' <=> Done(n, k) \/ (n = at /\ k = name)
    <3>1. \A k \in Nat : k < name + 1 <=> k < name \/ k = name BY <1>2
    <3> QED BY <1>1, <2>1, <3>1 DEF Done
  <2>70. \A n \in DOMAIN csrs : n \in Nat /\ DOMAIN csrs[n].names \subseteq Nat
    <3> TAKE n \in DOMAIN csrs
    <3>1. csrs[n] \in Csrs BY <1>2
    <3>2. csrs[n].names \in Seq(Nat) BY <3>1 DEF Csrs
    <3> QED BY <1>2, <3>2
  <2>8. ASSUME NEW n \in DOMAIN csrs, NEW k \in DOMAIN csrs[n].names, Done(n, k)'
        PROVE  LET csr == csrs[n].names[k] IN
                 /\ Valid(csrs[n], csr)
                 /\ (\A m \in DOMAIN csrs : m > n => \A j \in DOMAIN csrs[m].names : Done(m, j)' => csrs[m].names[j] # csr)
                      => csr \in DOMAIN csrTable' /\ csrTable'[csr] = Named(csrs[n], csr)
    <3> DEFINE csr == csrs[n].names[k]
    <3>0. n \in Nat /\ k \in Nat BY <2>70
    <3>1. Done(n, k) \/ (n = at /\ k = name) BY <2>7, <2>8, <3>0
    <3>2. CASE n = at /\ k = name BY <2>2, <2>5, <3>2
    <3>3. CASE Done(n, k)
      <4>1. /\ Valid(csrs[n], csr)
            /\ (\A m \in DOMAIN csrs : m > n => \A j \in DOMAIN csrs[m].names : Done(m, j) => csrs[m].names[j] # csr)
                 => csr \in DOMAIN csrTable /\ csrTable[csr] = Named(csrs[n], csr)
        BY <1>1, <3>3 DEF ConfigInv, ListsInv, CsrsInv
      <4>2. ASSUME \A m \in DOMAIN csrs : m > n =>
                     \A j \in DOMAIN csrs[m].names : Done(m, j)' => csrs[m].names[j] # csr
            PROVE  csr \in DOMAIN csrTable' /\ csrTable'[csr] = Named(csrs[n], csr)
        <5>1. csr \in DOMAIN csrTable /\ csrTable[csr] = Named(csrs[n], csr) BY <2>7, <2>70, <4>1, <4>2
        <5>2. CASE csr # csr0 BY <2>5, <5>1, <5>2
        <5>3. CASE csr = csr0
          <6>1. PICK m \in DOMAIN csrs, j \in DOMAIN csrs[at].names : m = at /\ j = name BY <1>2, <1>3
          <6>11. Done(m, j)' BY <2>7, <2>70, <6>1
          <6>2. ~(at > n) BY <4>2, <5>3, <6>1, <6>11
          <6>3. n <= at BY <1>1, <1>2, <3>0, <3>3 DEF Done
          <6>4. n = at BY <1>2, <3>0, <6>2, <6>3
          <6> QED BY <2>5, <5>3, <6>4
        <5> QED BY <5>2, <5>3
      <4> QED BY <4>1, <4>2
    <3> QED BY <3>1, <3>2, <3>3
  <2>9. CsrsInv'
    <3>1. stage' = "csrs" BY <1>1, <2>1
    <3>2. \A n \in DOMAIN csrs : \A k \in DOMAIN csrs[n].names :
            Done(n, k)' =>
              /\ Valid(csrs[n], csrs[n].names[k])
              /\ (\A m \in DOMAIN csrs : m > n =>
                    \A j \in DOMAIN csrs[m].names : Done(m, j)' => csrs[m].names[j] # csrs[n].names[k])
                   => csrs[n].names[k] \in DOMAIN csrTable'
                      /\ csrTable'[csrs[n].names[k]] = Named(csrs[n], csrs[n].names[k])
      BY <2>8
    <3>3. csrs' = csrs BY <1>1
    <3> QED BY <2>6, <3>1, <3>2, <3>3 DEF CsrsInv
  <2> QED BY <2>3, <2>4, <2>9 DEF ListsInv
<1> QED BY <1>4, <1>5

(* Every step keeps the invariant.                                         *)
LEMMA ListsNextKeep == ConfigInv /\ ConfigNext => ListsInv'
<1> SUFFICES ASSUME ConfigInv, ConfigNext PROVE ListsInv' OBVIOUS
<1>0. /\ csrs \in Seq(Csrs) /\ at \in Nat \ {0} /\ name \in Nat \ {0} /\ resolved \in Seq(Resolved)
      /\ \A n \in DOMAIN csrs : n \in 1..Len(csrs) /\ DOMAIN csrs[n].names = 1..Len(csrs[n].names)
                                /\ Len(csrs[n].names) \in Nat
  <2>1. csrs \in Seq(Csrs) /\ at \in Nat \ {0} /\ name \in Nat \ {0} /\ resolved \in Seq(Resolved)
    BY DEF ConfigInv, ListsInv, ConfigType
  <2>2. ASSUME NEW n \in DOMAIN csrs
        PROVE  DOMAIN csrs[n].names = 1..Len(csrs[n].names) /\ Len(csrs[n].names) \in Nat
    <3>1. csrs[n] \in Csrs BY <2>1
    <3>2. csrs[n].names \in Seq(Nat) BY <3>1 DEF Csrs
    <3> QED BY <3>2
  <2> QED BY <2>1, <2>2
<1>1. CASE ResolveInstruction BY <1>1, InstructionStep
<1>2. CASE InstructionsResolved
  <2>1. /\ stage = "instructions" /\ stage' = "csrs" /\ at' = 1
        /\ UNCHANGED <<instructions, csrs, resolved, address, csrTable, name, LABELS, CSR_LABELS>>
    BY <1>2 DEF InstructionsResolved
  <2>2. ConfigType' BY <2>1 DEF ConfigInv, ListsInv, ConfigType
  <2>3. InstructionsInv' BY <2>1 DEF ConfigInv, ListsInv, InstructionsInv
  <2>4. \A n \in DOMAIN csrs : \A k \in DOMAIN csrs[n].names : ~Done(n, k)'
    <3> TAKE n \in DOMAIN csrs
    <3> TAKE k \in DOMAIN csrs[n].names
    <3>1. name = 1 BY <2>1 DEF ConfigInv, ListsInv, CsrsInv
    <3>2. n \in Nat \ {0} /\ k \in Nat \ {0} BY <1>0
    <3> QED BY <2>1, <3>1, <3>2 DEF Done
  <2>5. CsrsInv' BY <2>1, <2>4 DEF ConfigInv, ListsInv, CsrsInv
  <2> QED BY <2>2, <2>3, <2>5 DEF ListsInv
<1>3. CASE ResolveCsr BY <1>3, CsrStep
<1>4. CASE NextCsrEntry
  <2>1. /\ stage = "csrs" /\ at <= Len(csrs) /\ name > Len(csrs[at].names) /\ at' = at + 1 /\ name' = 1
        /\ UNCHANGED <<instructions, csrs, resolved, address, csrTable, LABELS, CSR_LABELS, stage>>
    BY <1>4 DEF NextCsrEntry
  <2>2. ConfigType' BY <2>1 DEF ConfigInv, ListsInv, ConfigType
  <2>3. InstructionsInv' BY <2>1 DEF ConfigInv, ListsInv, InstructionsInv
  <2>4. \A n \in DOMAIN csrs : \A k \in DOMAIN csrs[n].names : Done(n, k)' <=> Done(n, k)
    <3> TAKE n \in DOMAIN csrs
    <3> TAKE k \in DOMAIN csrs[n].names
    <3>1. n \in Nat \ {0} /\ k \in Nat \ {0} /\ k <= Len(csrs[n].names) /\ Len(csrs[n].names) \in Nat BY <1>0
    <3>2. n = at => k < name BY <1>0, <2>1, <3>1
    <3>3. n < at + 1 <=> n < at \/ n = at BY <1>0, <3>1
    <3>4. ~(k < 1) BY <3>1
    <3> QED BY <2>1, <3>2, <3>3, <3>4 DEF Done
  <2>5. CsrsInv' BY <2>1, <2>4 DEF ConfigInv, ListsInv, CsrsInv
  <2> QED BY <2>2, <2>3, <2>5 DEF ListsInv
<1>5. CASE CsrsResolved
  <2>1. /\ stage = "csrs" /\ at > Len(csrs) /\ stage' = "defaults" /\ at' = 1
        /\ UNCHANGED <<instructions, csrs, resolved, address, csrTable, name, LABELS, CSR_LABELS>>
    BY <1>5 DEF CsrsResolved
  <2>2. ConfigType' BY <2>1 DEF ConfigInv, ListsInv, ConfigType
  <2>3. InstructionsInv'
    <3>1. \A n \in DOMAIN resolved : ~(n < 1) BY <1>0
    <3> QED BY <2>1, <3>1 DEF ConfigInv, ListsInv, InstructionsInv
  <2>4. \A n \in DOMAIN csrs : \A k \in DOMAIN csrs[n].names : Done(n, k) /\ Done(n, k)'
    <3> TAKE n \in DOMAIN csrs
    <3> TAKE k \in DOMAIN csrs[n].names
    <3>1. n < at BY <1>0, <2>1
    <3> QED BY <2>1, <3>1 DEF Done
  <2>5. CsrsInv' BY <2>1, <2>4 DEF ConfigInv, ListsInv, CsrsInv
  <2> QED BY <2>2, <2>3, <2>5 DEF ListsInv
<1>6. CASE FillLabels BY <1>6, LabelsStep
<1>9. CASE FillDefaults
  <2>1. /\ stage = "defaults" /\ stage' = "tables"
        /\ UNCHANGED <<instructions, csrs, resolved, address, csrTable, at, name, LABELS>>
    BY <1>9 DEF FillDefaults
  <2>2. ConfigType' BY <2>1 DEF ConfigInv, ListsInv, ConfigType
  <2>3. InstructionsInv' BY <2>1 DEF ConfigInv, ListsInv, InstructionsInv
  <2>4. \A n, k : Done(n, k) /\ Done(n, k)' BY <2>1 DEF Done
  <2>5. CsrsInv' BY <2>1, <2>4 DEF ConfigInv, ListsInv, CsrsInv
  <2> QED BY <2>2, <2>3, <2>5 DEF ListsInv
<1>7. CASE FillCsrLabels
  <2>1. /\ stage = "tables" /\ at > Len(resolved) /\ stage' = "ready"
        /\ UNCHANGED <<instructions, csrs, resolved, address, csrTable, at, name, LABELS>>
    BY <1>7 DEF FillCsrLabels
  <2>2. ConfigType' BY <2>1 DEF ConfigInv, ListsInv, ConfigType
  <2>3. InstructionsInv' BY <2>1 DEF ConfigInv, ListsInv, InstructionsInv
  <2>4. \A n, k : Done(n, k) /\ Done(n, k)' BY <2>1 DEF Done
  <2>5. CsrsInv' BY <2>1, <2>4 DEF ConfigInv, ListsInv, CsrsInv
  <2> QED BY <2>2, <2>3, <2>5 DEF ListsInv
<1>8. CASE ConfigEnded
  BY <1>8 DEF ConfigEnded, configVars, ConfigInv, ListsInv, ConfigType, InstructionsInv, CsrsInv, Done
<1> QED BY <1>1, <1>2, <1>3, <1>4, <1>5, <1>6, <1>7, <1>8, <1>9 DEF ConfigNext

(* Only FillDefaults and FillCsrLabels write the table of the CSRs.        *)
LEMMA DefaultsNextKeep == ConfigInv /\ ConfigNext => DefaultsInv'
<1> SUFFICES ASSUME ConfigInv, ConfigNext PROVE DefaultsInv' OBVIOUS
<1>0. DefaultsInv BY DEF ConfigInv
<1>1. CASE ResolveInstruction BY <1>0, <1>1 DEF ResolveInstruction, DefaultsInv
<1>2. CASE InstructionsResolved BY <1>0, <1>2 DEF InstructionsResolved, DefaultsInv
<1>3. CASE ResolveCsr
  <2> DEFINE csr0 == csrs[at].names[name]
  <2>1. /\ stage = "csrs" /\ at <= Len(csrs) /\ name <= Len(csrs[at].names) /\ UNCHANGED csrs
        /\ stage' \in {"csrs", "invalid"}
        /\ csrTable' = csrTable \/ csrTable' = With(csrTable, csr0, Named(csrs[at], csr0))
    BY <1>3 DEF ResolveCsr
  <2>2. DOMAIN csrTable' \subseteq DOMAIN csrTable \union {csr0} BY <2>1 DEF With
  <2>3. at \in DOMAIN csrs /\ name \in DOMAIN csrs[at].names
    <3>1. csrs \in Seq(Csrs) /\ at \in Nat \ {0} /\ name \in Nat \ {0}
      BY DEF ConfigInv, ListsInv, ConfigType
    <3>2. at \in DOMAIN csrs /\ csrs[at] \in Csrs BY <2>1, <3>1
    <3>3. csrs[at].names \in Seq(Nat) BY <3>2 DEF Csrs
    <3> QED BY <2>1, <3>1, <3>2, <3>3
  <2> QED BY <1>0, <2>1, <2>2, <2>3 DEF DefaultsInv
<1>4. CASE NextCsrEntry BY <1>0, <1>4 DEF NextCsrEntry, DefaultsInv
<1>5. CASE CsrsResolved BY <1>0, <1>5 DEF CsrsResolved, DefaultsInv
<1>6. CASE FillDefaults BY <1>0, <1>6 DEF FillDefaults, DefaultsInv
<1>7. CASE FillLabels BY <1>0, <1>7 DEF FillLabels, DefaultsInv
<1>8. CASE FillCsrLabels
  <2>1. CSR_LABELS = [csr \in CsrNumbers |-> IllegalCsr] BY <1>0, <1>8 DEF FillCsrLabels, DefaultsInv
  <2>2. CSR_LABELS' = [csr \in DOMAIN CSR_LABELS |->
                         IF csr \in DOMAIN csrTable THEN Pack(csrTable[csr]) ELSE CSR_LABELS[csr]]
        /\ stage' = "ready" /\ UNCHANGED <<csrs, csrTable>>
    BY <1>8 DEF FillCsrLabels
  <2>3. CSR_LABELS' = [csr \in CsrNumbers |-> IF csr \in DOMAIN csrTable THEN Pack(csrTable[csr]) ELSE IllegalCsr]
    BY <2>1, <2>2
  <2> QED BY <1>0, <2>2, <2>3 DEF DefaultsInv, Pack, WriteLabel, IllegalCsr
<1>9. CASE ConfigEnded BY <1>0, <1>9 DEF ConfigEnded, configVars, DefaultsInv, Pack, WriteLabel, IllegalCsr
<1> QED BY <1>1, <1>2, <1>3, <1>4, <1>5, <1>6, <1>7, <1>8, <1>9 DEF ConfigNext

(* Every step keeps the invariant.                                         *)
LEMMA ConfigNextKeeps == ConfigInv /\ ConfigNext => ConfigInv'
BY ListsNextKeep, DefaultsNextKeep DEF ConfigInv

(* modify_csr unpacks what the controller packs.                           *)
LEMMA UnpackIs ==
  ASSUME NEW mask \in Nat, NEW b \in Nat \ {0}, NEW write \in 0..(b - 1), NEW read \in 0..(b - 1)
  PROVE  /\ ((mask * b + write) * b + read) % b = read
         /\ (((mask * b + write) * b + read) \div b) % b = write
         /\ ((mask * b + write) * b + read) \div (b * b) = mask
<1> DEFINE q == mask * b + write
<1>1. q \in Nat /\ mask * b \in Nat BY MulMono
<1>2. q \div b = mask /\ q % b = write BY DivOf
<1> HIDE DEF q
<1>3. (q * b + read) \div b = q /\ (q * b + read) % b = read BY <1>1, DivOf
<1>4. (q * b + read) \div (b * b) = mask
  <2> DEFINE r == write * b + read
  <2>1. b * b \in Nat \ {0} BY Z3
  <2>2. write * b \in Nat /\ write * b <= (b - 1) * b /\ (b - 1) * b = b * b - b
    <3>1. write \in Nat /\ b - 1 \in Nat /\ write <= b - 1 OBVIOUS
    <3> QED BY <3>1, MulMono
  <2>3. r \in 0..(b * b - 1) BY <2>1, <2>2
  <2>4. q * b = mask * (b * b) + write * b
    <3>1. q * b = (mask * b) * b + write * b BY <1>1, Z3 DEF q
    <3>2. (mask * b) * b = mask * (b * b) BY Z3
    <3> QED BY <3>1, <3>2
  <2>5. mask * (b * b) \in Nat BY <2>1, MulMono
  <2>6. q * b + read = mask * (b * b) + r BY <2>2, <2>4, <2>5
  <2> DEFINE c == b * b
  <2>7. c \in Nat \ {0} /\ r \in 0..(c - 1) /\ q * b + read = mask * c + r BY <2>1, <2>3, <2>6
  <2>8. (q * b + read) \div c = mask
    <3> HIDE DEF r, c
    <3> QED BY <2>7, DivOf
  <2> QED BY <2>8
<1> QED BY <1>2, <1>3, <1>4 DEF q


(* And so does a step of another command.                                  *)
LEMMA ConfigStays == ConfigInv /\ UNCHANGED configVars => ConfigInv'
BY DEF configVars, ConfigInv, ListsInv, ConfigType, InstructionsInv, CsrsInv, DefaultsInv, Done, Pack, WriteLabel, IllegalCsr

(* The invariant of the configuration within a run of any command.         *)
BuildConfigInv == (command = "config" => ConfigInv) /\ (command # "config" => stage = "idle")

(* It holds throughout.                                                    *)
LEMMA BuildConfigHolds == BuildSpec => []BuildConfigInv
<1>1. BuildInit => BuildConfigInv BY ConfigInitHolds DEF BuildInit, BuildConfigInv, ConfigIdle
<1>2. BuildConfigInv /\ [BuildNext]_buildVars => BuildConfigInv'
  <2> SUFFICES ASSUME BuildConfigInv, [BuildNext]_buildVars PROVE BuildConfigInv' OBVIOUS
  <2>1. CASE command = "config" /\ ConfigNext /\ UNCHANGED <<command, ramVars, layoutVars>>
    BY <2>1, ConfigNextKeeps DEF BuildConfigInv
  <2>2. CASE UNCHANGED <<command, configVars>>
    <3>1. stage' = stage /\ command' = command BY <2>2 DEF configVars
    <3> QED BY <2>2, <3>1, ConfigStays DEF BuildConfigInv
  <2>3. CASE command # "config" /\ UNCHANGED command /\ UNCHANGED configVars
    BY <2>2, <2>3
  <2> QED BY <2>1, <2>2, <2>3 DEF BuildNext, buildVars
<1> QED BY <1>1, <1>2, PTL DEF BuildSpec

(* No instruction that the configuration accepts loses a slot of the       *)
(* dispatch table to another one, for every list of instructions           *)
(* (SlotsKept).                                                            *)
THEOREM SlotsAreKept == BuildSpec => []SlotsKept
<1>1. BuildConfigInv => SlotsKept
  <2> SUFFICES ASSUME BuildConfigInv, stage = "ready" PROVE SlotsKept BY DEF SlotsKept
  <2>1. ConfigInv BY DEF BuildConfigInv
  <2>2. \A n \in DOMAIN resolved : n < at
    <3>1. resolved \in Seq(Resolved) /\ at \in Nat /\ at > Len(resolved)
      BY <2>1 DEF ConfigInv, ListsInv, ConfigType, InstructionsInv
    <3> QED BY <3>1
  <2> QED BY <2>1, <2>2 DEF ConfigInv, ListsInv, InstructionsInv, SlotsKept
<1> QED BY <1>1, BuildConfigHolds, PTL

(* The worker unpacks the handlers and the mask that the last entry of a   *)
(* CSR gives, and ILLEGAL_OP for every number that no entry names, for     *)
(* every list of CSRs and every LabelBase (CsrDispatch).                   *)
THEOREM CsrsAreDispatched == BuildSpec => []CsrDispatch
<1>1. ASSUME BuildConfigInv, stage = "ready",
             NEW n \in DOMAIN csrs, NEW k \in DOMAIN csrs[n].names,
             \A m \in (n + 1)..Len(csrs) : \A j \in DOMAIN csrs[m].names :
               csrs[m].names[j] # csrs[n].names[k]
      PROVE  LET csr == csrs[n].names[k]
                 entry == csrs[n]
                 own(handler) == IF handler = OwnName THEN csr ELSE handler
             IN  /\ DispatchRead(csr) = ReadLabels[own(entry.read)]
                 /\ DispatchMask(csr) = entry.mask
                 /\ DispatchWrite(csr) = IF ReadOnly(csr) THEN IllegalOp ELSE WriteLabels[own(entry.write)]
  <2> DEFINE csr == csrs[n].names[k]
             entry == csrs[n]
             own(handler) == IF handler = OwnName THEN csr ELSE handler
             final == Named(entry, csr)
  <2>1. ConfigInv BY <1>1 DEF BuildConfigInv
  <2>2. csrs \in Seq(Csrs) /\ entry \in Csrs BY <2>1 DEF ConfigInv, ListsInv, ConfigType
  <2>3. \A m \in DOMAIN csrs : m > n => m \in (n + 1)..Len(csrs) BY <2>2
  <2>4. \A m, j : Done(m, j) BY <1>1 DEF Done
  <2>5. Valid(entry, csr) /\ csr \in DOMAIN csrTable /\ csrTable[csr] = final
    BY <1>1, <2>1, <2>3, <2>4 DEF ConfigInv, ListsInv, CsrsInv
  <2>6. csr \in CsrAddresses /\ (ReadOnly(csr) <=> entry.write = Absent) BY <2>5 DEF Valid
  <2>7. /\ final.mask = entry.mask /\ entry.mask \in Nat
        /\ final.read = own(entry.read) /\ final.write = own(entry.write)
        /\ final.read \in CsrAddresses /\ final.write \in CsrAddresses \union {Absent}
    BY <2>2, <2>6, NamedIs
  <2>8. CSR_LABELS[csr] = Pack(final)
    <3>1. csr \in CsrNumbers BY <2>6, LabelsAssumption
    <3> QED BY <1>1, <2>1, <2>5, <3>1 DEF ConfigInv, DefaultsInv
  <2>9. Absent # OwnName /\ Absent \notin CsrAddresses BY LabelsAssumption DEF Absent, OwnName
  <2>10. final.write = Absent <=> ReadOnly(csr) BY <2>6, <2>7, <2>9
  <2>11. WriteLabel(final) = IF ReadOnly(csr) THEN IllegalOp ELSE WriteLabels[own(entry.write)]
    BY <2>7, <2>10 DEF WriteLabel
  <2>12. ReadLabels[final.read] \in Labels /\ WriteLabel(final) \in Labels
    BY <2>7, LabelsAssumption DEF WriteLabel
  <2> HIDE DEF csr, entry, final, own
  <2> DEFINE packed == (final.mask * LabelBase + WriteLabel(final)) * LabelBase + ReadLabels[final.read]
  <2>13. /\ packed % LabelBase = ReadLabels[final.read]
         /\ (packed \div LabelBase) % LabelBase = WriteLabel(final)
         /\ packed \div (LabelBase * LabelBase) = final.mask
    <3>1. final.mask \in Nat BY <2>7
    <3>2. LabelBase \in Nat \ {0} BY LabelsAssumption
    <3>3. WriteLabel(final) \in 0..(LabelBase - 1) /\ ReadLabels[final.read] \in 0..(LabelBase - 1)
      BY <2>12 DEF Labels
    <3> QED BY <3>1, <3>2, <3>3, UnpackIs
  <2>14. CSR_LABELS[csr] = packed BY <2>8 DEF Pack
  <2> HIDE DEF packed
  <2>15. /\ DispatchRead(csr) = ReadLabels[own(entry.read)] /\ DispatchMask(csr) = entry.mask
         /\ DispatchWrite(csr) = IF ReadOnly(csr) THEN IllegalOp ELSE WriteLabels[own(entry.write)]
    BY <2>7, <2>11, <2>13, <2>14 DEF DispatchRead, DispatchMask, DispatchWrite
  <2> QED BY <2>15 DEF csr, entry, own
<1>2. ASSUME BuildConfigInv, stage = "ready", NEW csr \in CsrNumbers,
             \A n \in DOMAIN csrs : \A k \in DOMAIN csrs[n].names : csrs[n].names[k] # csr
      PROVE  DispatchRead(csr) = IllegalOp /\ DispatchWrite(csr) = IllegalOp
  <2>1. CSR_LABELS[csr] = IllegalOp * LabelBase + IllegalOp
    <3>1. DefaultsInv BY <1>2 DEF BuildConfigInv, ConfigInv
    <3> QED BY <1>2, <3>1 DEF DefaultsInv, IllegalCsr
  <2>2. /\ IllegalOp \in 0..(LabelBase - 1) /\ IllegalOp \in Nat /\ LabelBase \in Nat \ {0}
    BY LabelsAssumption DEF Labels
  <2>3. CSR_LABELS[csr] % LabelBase = IllegalOp /\ CSR_LABELS[csr] \div LabelBase = IllegalOp
    BY <2>1, <2>2, DivOf
  <2>4. IllegalOp % LabelBase = IllegalOp BY <2>2, Z3
  <2> QED BY <2>3, <2>4 DEF DispatchRead, DispatchWrite
<1>3. BuildConfigInv => CsrDispatch BY <1>1, <1>2 DEF CsrDispatch
<1> QED BY <1>3, BuildConfigHolds, PTL

-----------------------------------------------------------------------------
(* RamProc: lines of the RAM processor and lookup tables                   *)

(* Names of variables.                                                     *)
Names == {Variable(f, k) : f \in Formats, k \in Nat}

(* A line or table with the variables from number first on.                *)
Holds(part, f, first, size) ==
  /\ part \in Seq(Names) /\ Len(part) <= size
  /\ \A c \in 1..Len(part) : part[c] = Variable(f, first + c - 1)

(* The first n variables are in full chunks and a part of one.             *)
Split(chunks, part, f, n, size) ==
  /\ chunks \in Seq(Seq(Names))
  /\ \A l \in 1..Len(chunks) : Len(chunks[l]) = size /\ Holds(chunks[l], f, (l - 1) * size, size)
  /\ Holds(part, f, Len(chunks) * size, size)
  /\ Len(chunks) * size + Len(part) = n

(* The first n variables are where the division by size finds them.        *)
Covers(chunks, f, n, size) ==
  /\ chunks \in Seq(Seq(Names)) /\ Len(chunks) = Ceiling(n, size)
  /\ \A number \in 0..(n - 1) :
       /\ number \div size < Len(chunks) /\ number % size < Len(chunks[1 + (number \div size)])
       /\ chunks[1 + (number \div size)][1 + (number % size)] = Variable(f, number)

(* The loop of generate_code: lines and tables hold the names taken so     *)
(* far, although they fill up at different times.                          *)
RamInv ==
  /\ format \in Formats /\ ramSize \in Nat \ {0} /\ lookupWidth \in Nat \ {0} /\ taken \in Nat
  /\ generated \in {"running", "failed", "written"}
  /\ generated # "written" =>
       /\ taken < ramSize
       /\ Split(ramLines, ramLine, format, taken, LineSize) /\ Len(ramLine) < LineSize
       /\ Split(tables, table, format, taken, BlockIds) /\ Len(table) < BlockIds
  /\ generated = "failed" => ~HasVariable(format, taken)
  /\ generated = "written" =>
       /\ taken = ramSize
       /\ Covers(ramLines, format, ramSize, LineSize) /\ Covers(tables, format, ramSize, BlockIds)
       /\ \A number \in ramSize..(Len(ramLines) * LineSize - 1) :
            RamVariable(number) = Variable(format, ramSize - 1)

(* The loop invariant holds at the start.                                  *)
LEMMA RamInitHolds == RamInit => RamInv
<1> SUFFICES ASSUME RamInit PROVE RamInv OBVIOUS
<1>1. /\ format \in Formats /\ ramSize \in Nat \ {0} /\ lookupWidth \in Nat \ {0} /\ taken = 0
      /\ ramLine = <<>> /\ ramLines = <<>> /\ table = <<>> /\ tables = <<>> /\ generated = "running"
  BY SizesAssumption DEF RamInit
<1>2. ASSUME NEW size \in Nat \ {0} PROVE Split(<<>>, <<>>, format, 0, size)
  <2>1. Holds(<<>>, format, 0, size) BY DEF Holds
  <2> QED BY <2>1 DEF Split
<1>3. Split(<<>>, <<>>, format, 0, LineSize) /\ Split(<<>>, <<>>, format, 0, BlockIds)
  BY <1>2, SizesAssumption
<1> QED BY <1>1, <1>3, SizesAssumption DEF RamInv

(* One more name in a line or a table.                                     *)
LEMMA ExtendedHolds ==
  ASSUME NEW f \in Formats, NEW first \in Nat, NEW size \in Nat \ {0}, NEW part,
         Holds(part, f, first, size), Len(part) < size
  PROVE  LET new == Append(part, Variable(f, first + Len(part))) IN
           Holds(new, f, first, size) /\ Len(new) = Len(part) + 1 /\ Len(part) \in Nat /\ new \in Seq(Names)
<1> DEFINE v == Variable(f, first + Len(part))
           new == Append(part, v)
<1>1. part \in Seq(Names) /\ Len(part) \in Nat /\ \A c \in 1..Len(part) : part[c] = Variable(f, first + c - 1)
  BY DEF Holds
<1>2. v \in Names BY <1>1 DEF Names
<1>3. first + (Len(part) + 1) - 1 = first + Len(part) BY <1>1
<1>4. v = Variable(f, first + (Len(part) + 1) - 1) BY <1>3
<1> HIDE DEF v
<1>5. /\ new \in Seq(Names) /\ Len(new) = Len(part) + 1
      /\ \A c \in 1..(Len(part) + 1) : new[c] = IF c = Len(part) + 1 THEN v ELSE part[c]
  BY <1>1, <1>2
<1> HIDE DEF new
<1>6. ASSUME NEW c \in 1..Len(new) PROVE new[c] = Variable(f, first + c - 1)
  <2>1. CASE c = Len(part) + 1 BY <1>1, <1>4, <1>5, <2>1
  <2>2. CASE c # Len(part) + 1
    <3>1. c \in 1..Len(part) BY <1>1, <1>5, <1>6, <2>2
    <3> QED BY <1>1, <1>5, <1>6, <2>2, <3>1
  <2> QED BY <2>1, <2>2
<1>7. Holds(new, f, first, size) BY <1>1, <1>5, <1>6 DEF Holds
<1> QED BY <1>1, <1>5, <1>7 DEF new, v

(* A full line or table is written.                                        *)
LEMMA FullSplit ==
  ASSUME NEW f \in Formats, NEW n \in Nat, NEW size \in Nat \ {0}, NEW chunks, NEW part,
         Split(chunks, part, f, n, size), Len(part) = size
  PROVE  Split(Append(chunks, part), <<>>, f, n, size)
<1> DEFINE new == Append(chunks, part)
<1>1. /\ chunks \in Seq(Seq(Names)) /\ Len(chunks) \in Nat /\ part \in Seq(Names)
      /\ Len(chunks) * size + size = n
      /\ Holds(part, f, Len(chunks) * size, size)
      /\ \A l \in 1..Len(chunks) : Len(chunks[l]) = size /\ Holds(chunks[l], f, (l - 1) * size, size)
  BY DEF Split, Holds
<1>2. /\ new \in Seq(Seq(Names)) /\ Len(new) = Len(chunks) + 1
      /\ \A l \in 1..(Len(chunks) + 1) : new[l] = IF l = Len(chunks) + 1 THEN part ELSE chunks[l]
  BY <1>1
<1> HIDE DEF new
<1>3. ASSUME NEW l \in 1..Len(new)
      PROVE  Len(new[l]) = size /\ Holds(new[l], f, (l - 1) * size, size)
  <2>1. CASE l = Len(chunks) + 1
    <3>1. l - 1 = Len(chunks) /\ new[l] = part BY <1>1, <1>2, <2>1
    <3> QED BY <1>1, <3>1
  <2>2. CASE l # Len(chunks) + 1
    <3>1. l \in 1..Len(chunks) /\ new[l] = chunks[l] BY <1>1, <1>2, <1>3, <2>2
    <3> QED BY <1>1, <3>1
  <2> QED BY <2>1, <2>2
<1>4. Len(new) * size = n /\ Len(new) * size \in Nat
  <2>1. (Len(chunks) + 1) * size = Len(chunks) * size + size BY <1>1, Z3
  <2> QED BY <1>1, <1>2, <2>1
<1>5. Holds(<<>>, f, Len(new) * size, size) BY DEF Holds
<1>6. Len(new) * size + Len(<<>>) = n BY <1>4
<1> QED BY <1>2, <1>3, <1>5, <1>6 DEF Split, new

(* The last one is written, padded or not.                                 *)
LEMMA LastCovers ==
  ASSUME NEW f \in Formats, NEW n \in Nat, NEW size \in Nat \ {0}, NEW chunks, NEW part, NEW last \in Seq(Names),
         Split(chunks, part, f, n, size), Len(part) > 0,
         Len(last) >= Len(part), \A c \in 1..Len(part) : last[c] = part[c]
  PROVE  Covers(Append(chunks, last), f, n, size)
<1> DEFINE new == Append(chunks, last)
           L == Len(chunks)
<1>1. /\ chunks \in Seq(Seq(Names)) /\ L \in Nat /\ part \in Seq(Names) /\ Len(part) \in 1..size
      /\ L * size + Len(part) = n /\ L * size \in Nat /\ Len(last) \in Nat
  <2>1. chunks \in Seq(Seq(Names)) /\ L \in Nat /\ part \in Seq(Names) /\ Len(part) \in 1..size
        /\ L * size + Len(part) = n /\ Len(last) \in Nat
    BY DEF Split, Holds
  <2> QED BY <2>1, MulMono
<1>2. /\ \A c \in 1..Len(part) : part[c] = Variable(f, L * size + c - 1)
      /\ \A l \in 1..L : Len(chunks[l]) = size
      /\ \A l \in 1..L : \A c \in 1..size : chunks[l][c] = Variable(f, (l - 1) * size + c - 1)
  BY DEF Split, Holds
<1>3. /\ new \in Seq(Seq(Names)) /\ Len(new) = L + 1
      /\ \A l \in 1..(L + 1) : new[l] = IF l = L + 1 THEN last ELSE chunks[l]
  BY <1>1
<1> HIDE DEF new, L
<1>4. Len(new) = Ceiling(n, size)
  <2>1. n + size - 1 = (L + 1) * size + (Len(part) - 1)
    <3>1. (L + 1) * size = L * size + size BY <1>1, Z3
    <3> DEFINE p == L * size
               s == (L + 1) * size
    <3>2. s = p + size /\ p \in Nat /\ n = p + Len(part) BY <1>1, <3>1
    <3> HIDE DEF p, s
    <3>3. n + size - 1 = s + (Len(part) - 1) BY <1>1, <3>2
    <3> QED BY <3>3 DEF s
  <2>2. L + 1 \in Nat /\ Len(part) - 1 \in 0..(size - 1) BY <1>1
  <2>3. ((L + 1) * size + (Len(part) - 1)) \div size = L + 1 BY <2>2, DivOf
  <2> QED BY <1>3, <2>1, <2>3 DEF Ceiling
<1>5. ASSUME NEW number \in 0..(n - 1)
      PROVE  /\ number \div size < Len(new) /\ number % size < Len(new[1 + (number \div size)])
             /\ new[1 + (number \div size)][1 + (number % size)] = Variable(f, number)
  <2> DEFINE q == number \div size
             r == number % size
  <2>0. number \in Nat /\ number < n BY <1>1
  <2>1. q \in Nat /\ r \in 0..(size - 1) /\ number = q * size + r BY <2>0, DivIs
  <2> HIDE DEF q, r
  <2>2. q <= L
    <3> SUFFICES ASSUME q >= L + 1 PROVE FALSE BY <1>1, <2>1
    <3>1. (L + 1) * size <= q * size /\ q * size \in Nat /\ (L + 1) * size \in Nat BY <1>1, <2>1, MulMono
    <3>2. (L + 1) * size = L * size + size BY <1>1, Z3
    <3> DEFINE p == L * size
               s == (L + 1) * size
               t == q * size
    <3>3. /\ s = p + size /\ p \in Nat /\ n = p + Len(part) /\ s <= t /\ t \in Nat /\ number = t + r
      BY <1>1, <2>1, <3>1, <3>2
    <3> HIDE DEF p, s, t
    <3> QED BY <1>1, <2>0, <2>1, <3>3
  <2>3. q * size \in Nat BY <2>1, MulMono
  <2>4. CASE q = L
    <3>0. 1 + q = L + 1 /\ 1 + q \in 1..(L + 1) BY <1>1, <2>1, <2>4
    <3>1. new[1 + q] = last BY <1>3, <3>0
    <3>2. r < Len(part) BY <1>1, <2>0, <2>1, <2>4
    <3>3. 1 + r \in 1..Len(part) BY <1>1, <2>1, <3>2
    <3>4. last[1 + r] = Variable(f, L * size + (1 + r) - 1) BY <1>2, <3>3
    <3>5. L * size + (1 + r) - 1 = number BY <1>1, <2>1, <2>4
    <3>6. q < Len(new) /\ r < Len(last) BY <1>1, <1>3, <2>1, <2>4, <3>2
    <3> QED BY <3>1, <3>4, <3>5, <3>6 DEF q, r
  <2>5. CASE q # L
    <3>1. 1 + q \in 1..L /\ 1 + r \in 1..size BY <1>1, <2>1, <2>2, <2>5
    <3>2. new[1 + q] = chunks[1 + q] BY <1>1, <1>3, <2>1, <2>5, <3>1
    <3>3. chunks[1 + q][1 + r] = Variable(f, ((1 + q) - 1) * size + (1 + r) - 1) BY <1>2, <3>1
    <3>4. ((1 + q) - 1) * size + (1 + r) - 1 = number
      <4>1. (1 + q) - 1 = q BY <2>1
      <4> QED BY <2>1, <2>3, <4>1
    <3>5. q < Len(new) /\ r < Len(chunks[1 + q])
      <4>1. Len(chunks[1 + q]) = size BY <1>2, <3>1
      <4> QED BY <1>1, <1>3, <2>1, <3>1, <4>1
    <3> QED BY <3>2, <3>3, <3>4, <3>5 DEF q, r
  <2> QED BY <2>4, <2>5
<1> QED BY <1>3, <1>4, <1>5 DEF Covers, new

(* An iteration keeps the loop invariant, or ends with everything written. *)
LEMMA GenerateKeeps ==
  ASSUME RamInv, Generate
  PROVE  RamInv'
<1> DEFINE variable == Variable(format, taken)
           line == Append(ramLine, variable)
           entries == Append(table, variable)
<1>1. /\ generated = "running" /\ AddToLine(line) /\ AddToTable(entries, LastOnLine(line))
      /\ generated' = IF LastOnLine(line) THEN "written" ELSE "running"
      /\ taken' = taken + 1 /\ format' = format /\ ramSize' = ramSize /\ lookupWidth' = lookupWidth
  BY DEF Generate, options
<1>2. /\ format \in Formats /\ ramSize \in Nat \ {0} /\ lookupWidth \in Nat \ {0} /\ taken \in Nat
      /\ taken < ramSize /\ LineSize \in Nat \ {0} /\ BlockIds \in Nat \ {0}
      /\ Split(ramLines, ramLine, format, taken, LineSize) /\ Len(ramLine) < LineSize
      /\ Split(tables, table, format, taken, BlockIds) /\ Len(table) < BlockIds
  BY <1>1, SizesAssumption DEF RamInv
<1>3. ASSUME NEW chunks, NEW part, NEW size \in Nat \ {0},
             Split(chunks, part, format, taken, size), Len(part) < size
      PROVE  LET new == Append(part, variable) IN
               /\ Split(chunks, new, format, taken + 1, size)
               /\ new \in Seq(Names) /\ Len(new) \in 1..size
               /\ chunks \in Seq(Seq(Names)) /\ Len(chunks) \in Nat
               /\ Len(chunks) * size \in Nat /\ Len(chunks) * size + Len(new) = taken + 1
               /\ new[Len(new)] = variable
  <2> DEFINE first == Len(chunks) * size
  <2>1. chunks \in Seq(Seq(Names)) /\ Len(chunks) \in Nat BY <1>3 DEF Split
  <2>2. first \in Nat BY <2>1, MulMono
  <2>3. Holds(part, format, first, size) /\ first + Len(part) = taken
        /\ \A l \in 1..Len(chunks) : Len(chunks[l]) = size /\ Holds(chunks[l], format, (l - 1) * size, size)
    BY <1>3 DEF Split
  <2> HIDE DEF first
  <2> DEFINE new == Append(part, Variable(format, first + Len(part)))
  <2>4. Holds(new, format, first, size) /\ Len(new) = Len(part) + 1 /\ Len(part) \in Nat /\ new \in Seq(Names)
    BY <1>2, <1>3, <2>2, <2>3, ExtendedHolds
  <2>5. new = Append(part, variable) BY <2>3
  <2>6. new[Len(new)] = variable
    <3>1. part \in Seq(Names) BY <2>3 DEF Holds
    <3>2. variable \in Names BY <1>2 DEF Names
    <3> HIDE DEF variable
    <3>3. Append(part, variable)[Len(part) + 1] = variable BY <3>1, <3>2
    <3> QED BY <2>4, <2>5, <3>3
  <2> HIDE DEF new
  <2>7. first + Len(new) = taken + 1 /\ Len(new) \in 1..size BY <1>2, <1>3, <2>2, <2>3, <2>4
  <2>8. Split(chunks, new, format, taken + 1, size) BY <2>1, <2>3, <2>4, <2>7 DEF Split, first
  <2> QED BY <2>1, <2>2, <2>4, <2>5, <2>6, <2>7, <2>8 DEF first
<1>4. /\ Split(ramLines, line, format, taken + 1, LineSize)
      /\ line \in Seq(Names) /\ Len(line) \in 1..LineSize
      /\ ramLines \in Seq(Seq(Names)) /\ Len(ramLines) \in Nat
      /\ Len(ramLines) * LineSize \in Nat /\ Len(ramLines) * LineSize + Len(line) = taken + 1
      /\ line[Len(line)] = variable
  BY <1>2, <1>3
<1>5. /\ Split(tables, entries, format, taken + 1, BlockIds)
      /\ entries \in Seq(Names) /\ Len(entries) \in 1..BlockIds /\ tables \in Seq(Seq(Names))
  BY <1>2, <1>3
<1> HIDE DEF line, entries
<1>6. LastOnLine(line) <=> taken + 1 = ramSize
  <2> DEFINE p == Len(ramLines) * LineSize
  <2>1. p \in Nat /\ p + Len(line) = taken + 1 BY <1>4
  <2>2. LastOnLine(line) <=> ramSize - p = Len(line) BY DEF LastOnLine
  <2> HIDE DEF p
  <2> QED BY <1>2, <1>4, <2>1, <2>2
<1>7. CASE ~LastOnLine(line)
  <2>1. generated' = "running" /\ taken' < ramSize' /\ taken' \in Nat BY <1>1, <1>2, <1>6, <1>7
  <2>2. Split(ramLines', ramLine', format', taken', LineSize) /\ Len(ramLine') < LineSize
    <3>1. CASE Len(line) = LineSize
      <4>1. ramLines' = Append(ramLines, line) /\ ramLine' = <<>> BY <1>1, <1>7, <3>1 DEF AddToLine
      <4>2. Split(Append(ramLines, line), <<>>, format, taken + 1, LineSize)
        BY <1>2, <1>4, <3>1, FullSplit
      <4> QED BY <1>1, <1>2, <4>1, <4>2
    <3>2. CASE Len(line) # LineSize
      <4>1. ramLines' = ramLines /\ ramLine' = line BY <1>1, <1>7, <3>2 DEF AddToLine
      <4> QED BY <1>1, <1>2, <1>4, <3>2, <4>1
    <3> QED BY <3>1, <3>2
  <2>3. Split(tables', table', format', taken', BlockIds) /\ Len(table') < BlockIds
    <3>1. CASE Len(entries) = BlockIds
      <4>1. tables' = Append(tables, entries) /\ table' = <<>> BY <1>1, <1>7, <3>1 DEF AddToTable
      <4>2. Split(Append(tables, entries), <<>>, format, taken + 1, BlockIds)
        BY <1>2, <1>5, <3>1, FullSplit
      <4> QED BY <1>1, <1>2, <4>1, <4>2
    <3>2. CASE Len(entries) # BlockIds
      <4>1. tables' = tables /\ table' = entries BY <1>1, <1>7, <3>2 DEF AddToTable
      <4> QED BY <1>1, <1>2, <1>5, <3>2, <4>1
    <3> QED BY <3>1, <3>2
  <2> QED BY <1>1, <1>2, <2>1, <2>2, <2>3 DEF RamInv
<1>8. CASE LastOnLine(line)
  <2>1. generated' = "written" /\ taken' = ramSize' /\ taken + 1 = ramSize BY <1>1, <1>6, <1>8
  <2>2. ramLines' = Append(ramLines, Pad(line)) BY <1>1, <1>8 DEF AddToLine
  <2>3. tables' = Append(tables, entries) BY <1>1, <1>8 DEF AddToTable
  <2>4. /\ Pad(line) \in Seq(Names) /\ Len(Pad(line)) = LineSize
        /\ \A c \in 1..LineSize : Pad(line)[c] = IF c <= Len(line) THEN line[c] ELSE line[Len(line)]
    <3>1. \A c \in 1..Len(line) : line[c] \in Names BY <1>4
    <3>2. \A c \in 1..LineSize : (IF c <= Len(line) THEN line[c] ELSE line[Len(line)]) \in Names
      BY <1>4, <3>1
    <3>3. Pad(line) \in [1..LineSize -> Names] BY <3>2 DEF Pad
    <3>4. Pad(line) \in Seq(Names) BY <1>2, <3>3
    <3>5. DOMAIN Pad(line) = 1..LineSize BY <3>3
    <3>6. Len(Pad(line)) = LineSize BY <1>2, <3>4, <3>5
    <3> QED BY <3>4, <3>6 DEF Pad
  <2>5. Covers(Append(ramLines, Pad(line)), format, taken + 1, LineSize)
    <3> DEFINE padded == Pad(line)
    <3>1. padded \in Seq(Names) /\ Len(padded) >= Len(line) /\ \A c \in 1..Len(line) : padded[c] = line[c]
      BY <1>2, <1>4, <2>4
    <3>2. Len(line) > 0 /\ taken + 1 \in Nat BY <1>2, <1>4
    <3> HIDE DEF padded
    <3>3. Covers(Append(ramLines, padded), format, taken + 1, LineSize)
      BY <1>2, <1>4, <3>1, <3>2, LastCovers
    <3> QED BY <3>3 DEF padded
  <2>6. Covers(Append(tables, entries), format, taken + 1, BlockIds)
    <3>1. Len(entries) > 0 /\ taken + 1 \in Nat /\ Len(entries) >= Len(entries) BY <1>2, <1>5
    <3> QED BY <1>2, <1>5, <3>1, LastCovers
  <2>7. ASSUME NEW number \in ramSize..(Len(ramLines') * LineSize - 1)
        PROVE  ramLines'[1 + number \div LineSize][1 + (number % LineSize)] = Variable(format, ramSize - 1)
    <3> DEFINE L == Len(ramLines)
               r == number - L * LineSize
    <3>1. /\ Len(ramLines') = L + 1 /\ ramLines'[L + 1] = Pad(line) /\ L \in Nat BY <1>4, <2>2, <2>4
    <3>2. (L + 1) * LineSize = L * LineSize + LineSize BY <1>2, <3>1, Z3
    <3>3. r \in 0..(LineSize - 1) /\ r >= Len(line) /\ number = L * LineSize + r
      <4> DEFINE p == L * LineSize
                 s == (L + 1) * LineSize
      <4>1. /\ p \in Nat /\ p + Len(line) = ramSize /\ s = p + LineSize /\ number \in ramSize..(s - 1)
            /\ r = number - p
        BY <1>4, <2>1, <2>7, <3>1, <3>2
      <4>2. Len(line) \in 1..LineSize /\ LineSize \in Nat /\ ramSize \in Nat BY <1>2, <1>4
      <4> HIDE DEF p, s, r
      <4>3. r \in 0..(LineSize - 1) /\ r >= Len(line) /\ number = p + r BY <4>1, <4>2
      <4> QED BY <4>3 DEF p
    <3> HIDE DEF r
    <3>4. number \div LineSize = L /\ number % LineSize = r BY <1>2, <3>1, <3>3, DivOf
    <3>5. 1 + r \in 1..LineSize /\ ~(1 + r <= Len(line)) BY <1>2, <1>4, <3>3
    <3>6. Pad(line)[1 + r] = variable BY <1>4, <2>4, <3>5
    <3>7. 1 + L = L + 1 /\ ramSize - 1 = taken BY <1>2, <2>1, <3>1
    <3> QED BY <3>1, <3>4, <3>6, <3>7
  <2>8. \A number \in ramSize'..(Len(ramLines') * LineSize - 1) :
          RamVariable(number)' = Variable(format', ramSize' - 1)
    BY <1>1, <2>7 DEF RamVariable
  <2> QED BY <1>1, <1>2, <2>1, <2>2, <2>3, <2>5, <2>6, <2>8 DEF RamInv
<1> QED BY <1>7, <1>8

(* Every step keeps the invariant.                                         *)
LEMMA RamNextKeeps == RamInv /\ RamNext => RamInv'
<1> SUFFICES ASSUME RamInv, RamNext PROVE RamInv' OBVIOUS
<1>1. CASE Generate BY <1>1, GenerateKeeps
<1>2. CASE OutOfNames
  <2>1. /\ generated = "running" /\ generated' = "failed" /\ ~HasVariable(format, taken)
        /\ format' = format /\ ramSize' = ramSize /\ lookupWidth' = lookupWidth
        /\ UNCHANGED <<taken, ramLine, ramLines, table, tables>>
    BY <1>2 DEF OutOfNames, options
  <2> QED BY <2>1 DEF RamInv
<1>3. CASE RamEnded
  BY <1>3 DEF RamEnded, ramVars, options, RamInv, RamVariable
<1> QED BY <1>1, <1>2, <1>3 DEF RamNext

(* And so does a step of another command.                                  *)
LEMMA RamStays == RamInv /\ UNCHANGED ramVars => RamInv'
BY DEF ramVars, options, RamInv, RamVariable

(* The loop invariant within a run of any command.                         *)
BuildRamInv == (command = "ram_proc" => RamInv) /\ (command # "ram_proc" => generated = "idle")

(* It holds throughout.                                                    *)
LEMMA BuildRamHolds == BuildSpec => []BuildRamInv
<1>1. BuildInit => BuildRamInv BY RamInitHolds DEF BuildInit, BuildRamInv, RamIdle
<1>2. BuildRamInv /\ [BuildNext]_buildVars => BuildRamInv'
  <2> SUFFICES ASSUME BuildRamInv, [BuildNext]_buildVars PROVE BuildRamInv' OBVIOUS
  <2>1. CASE command = "ram_proc" /\ RamNext /\ UNCHANGED command
    BY <2>1, RamNextKeeps DEF BuildRamInv
  <2>2. CASE UNCHANGED <<command, ramVars>>
    <3>1. generated' = generated /\ command' = command BY <2>2 DEF ramVars
    <3> QED BY <2>2, <3>1, RamStays DEF BuildRamInv
  <2> QED BY <2>1, <2>2 DEF BuildNext, buildVars
<1> QED BY <1>1, <1>2, PTL DEF BuildSpec

(* When all is written, the lookups find every word.                       *)
LEMMA WordsFound ==
  ASSUME RamInv, generated = "written"
  PROVE  EveryWordFound
<1>1. /\ ramSize \in Nat \ {0} /\ Covers(ramLines, format, ramSize, LineSize)
      /\ Covers(tables, format, ramSize, BlockIds)
  BY DEF RamInv
<1> SUFFICES ASSUME NEW number \in 0..(ramSize - 1)
             PROVE  /\ number \div BlockIds < Len(tables)
                    /\ number % BlockIds < Len(tables[1 + number \div BlockIds])
                    /\ WorkerLookup(number) = Variable(format, number)
                    /\ RamVariable(number) = Variable(format, number)
                    /\ \A processor \in 0..1, byte \in 0..3 :
                         LET addr == 4 * (processor * ramSize + number) + byte
                         IN  LookupProcessor(addr) = processor /\ LookupVariable(addr) = RamVariable(number)
  BY DEF EveryWordFound
<1>2. /\ number \div BlockIds < Len(tables) /\ number % BlockIds < Len(tables[1 + number \div BlockIds])
      /\ WorkerLookup(number) = Variable(format, number)
  BY <1>1 DEF Covers, WorkerLookup
<1>3. RamVariable(number) = Variable(format, number) BY <1>1 DEF Covers, RamVariable
<1>4. ASSUME NEW processor \in 0..1, NEW byte \in 0..3
      PROVE  LET addr == 4 * (processor * ramSize + number) + byte
             IN  LookupProcessor(addr) = processor /\ LookupVariable(addr) = Variable(format, number)
  <2> DEFINE word == processor * ramSize + number
             addr == 4 * word + byte
  <2>0. processor \in Nat BY <1>4
  <2>1. processor * ramSize \in Nat BY <1>1, <2>0, MulMono
  <2>2. word \in Nat BY <1>1, <2>1
  <2>3. word \div ramSize = processor /\ word % ramSize = number BY <1>1, <2>0, DivOf
  <2> HIDE DEF word
  <2>4. addr \div 4 = word BY <2>2
  <2> HIDE DEF addr
  <2>5. LookupProcessor(addr) = processor /\ LookupVariable(addr) = Variable(format, number)
    BY <2>3, <2>4 DEF LookupProcessor, LookupVariable
  <2> QED BY <2>5 DEF addr, word
<1> QED BY <1>2, <1>3, <1>4

(* The code that ram_proc writes and all that look words up agree, for     *)
(* every size, format, line and table size (LookupAgrees).                 *)
THEOREM LookupsAgree == BuildSpec => []LookupAgrees
<1>1. BuildRamInv => LookupAgrees
  <2> SUFFICES ASSUME BuildRamInv PROVE LookupAgrees OBVIOUS
  <2>1. ASSUME generated = "written" PROVE EveryWordFound /\ NothingElse
    <3>1. RamInv BY <2>1 DEF BuildRamInv
    <3>2. EveryWordFound BY <2>1, <3>1, WordsFound
    <3>3. NothingElse BY <2>1, <3>1 DEF RamInv, Covers, NothingElse
    <3> QED BY <3>2, <3>3
  <2>2. ASSUME generated = "failed" PROVE ~HasVariable(format, ramSize - 1)
    <3>1. RamInv BY <2>2 DEF BuildRamInv
    <3>2. /\ format # "numbered" /\ ~(taken < CharCount(format) * CharCount(format))
          /\ taken < ramSize /\ taken \in Nat /\ ramSize \in Nat
      BY <2>2, <3>1 DEF RamInv, HasVariable
    <3>3. CharCount(format) \in Nat BY AlphabetAssumption DEF CharCount
    <3>4. CharCount(format) * CharCount(format) \in Nat BY <3>3, MulMono
    <3>5. ~(ramSize - 1 < CharCount(format) * CharCount(format)) BY <3>2, <3>4
    <3> QED BY <3>2, <3>5 DEF HasVariable
  <2> QED BY <2>1, <2>2 DEF LookupAgrees
<1> QED BY <1>1, BuildRamHolds, PTL

(* A quotient is below m when the dividend is below m times the divisor.   *)
LEMMA DivLess ==
  ASSUME NEW n \in Nat, NEW b \in Nat \ {0}, NEW m \in Nat
  PROVE  n \div b < m <=> n < m * b
<1> DEFINE q == n \div b
           r == n % b
<1>1. q \in Nat /\ r \in 0..(b - 1) /\ n = q * b + r BY DivIs
<1> HIDE DEF q, r
<1>2. m * b \in Nat /\ q * b \in Nat BY <1>1, MulMono
<1>3. CASE q < m
  <2>1. (q + 1) * b <= m * b BY <1>1, <1>3, MulMono
  <2>2. (q + 1) * b = q * b + b BY <1>1, Z3
  <2> DEFINE x == m * b
             y == q * b
             z == (q + 1) * b
  <2>3. z <= x /\ z = y + b /\ n = y + r /\ x \in Nat /\ y \in Nat BY <1>1, <1>2, <2>1, <2>2
  <2> HIDE DEF x, y, z
  <2>4. n < x BY <1>1, <2>3
  <2> QED BY <1>3, <2>4 DEF x, q
<1>4. CASE ~(q < m)
  <2>1. m * b <= q * b BY <1>1, <1>4, MulMono
  <2> DEFINE x == m * b
             y == q * b
  <2>2. x <= y /\ n = y + r /\ x \in Nat /\ y \in Nat BY <1>1, <1>2, <2>1
  <2> HIDE DEF x, y
  <2>3. ~(n < x) BY <1>1, <2>2
  <2> QED BY <1>4, <2>3 DEF x, q
<1> QED BY <1>3, <1>4

(* The first character of a name determines its page.                      *)
LEMMA PagesAgree ==
  ASSUME RamInv, generated = "written"
  PROVE  PageOffsetAgrees
<1> SUFFICES ASSUME format = "mlogv32", ramSize <= 4 * PageWords, NEW number \in 0..(ramSize - 1)
             PROVE  PageOffset(WorkerLookup(number)[1]) = number \div PageWords
  BY DEF PageOffsetAgrees
<1> DEFINE K == PageWords \div Short
           q == number \div Short
           g == number \div PageWords
<1>1. /\ PageWords \in Nat \ {0} /\ Short \in Nat \ {0} /\ Alphabet \in Seq(Nat) /\ Short <= Len(Alphabet)
      /\ Len(Alphabet) \in Nat /\ DOMAIN Alphabet = 1..Len(Alphabet)
      /\ \A c, d \in 1..Len(Alphabet) : c < d => Alphabet[c] < Alphabet[d]
      /\ \A c \in 1..Len(Alphabet) : Alphabet[c] >= 32 /\ Alphabet[c] \in Nat
  BY PagesAssumption, AlphabetAssumption
<1>2. number \in Nat /\ number < 4 * PageWords /\ ramSize \in Nat BY <1>1 DEF RamInv
<1>3. K \in Nat /\ PageWords = K * Short
  <2>1. K \in Nat /\ PageWords % Short \in 0..(Short - 1) /\ PageWords = K * Short + (PageWords % Short)
    BY <1>1, DivIs
  <2>2. K * Short \in Nat BY <1>1, <2>1, MulMono
  <2> QED BY <2>1, <2>2, PagesAssumption
<1>4. q \in Nat /\ g \in Nat BY <1>1, <1>2, DivIs
<1> HIDE DEF K, q, g
<1>5. K >= 1
  <2> SUFFICES ASSUME K = 0 PROVE FALSE BY <1>3
  <2> QED BY <1>1, <1>3
<1>6. 4 * K <= Short
  <2> SUFFICES ASSUME Short < 4 * K PROVE FALSE BY <1>1, <1>3
  <2>1. (Short + 1) * Short <= (4 * K) * Short BY <1>1, <1>3, MulMono
  <2>2. (4 * K) * Short = 4 * (K * Short) BY <1>1, <1>3, Z3
  <2>3. (Short + 1) * Short = Short * Short + Short BY <1>1, Z3
  <2>4. Short * Short \in Nat BY <1>1, MulMono
  <2> QED BY <1>1, <1>3, <2>1, <2>2, <2>3, <2>4, PagesAssumption
<1>7. \A p \in 0..4 : (q < p * K <=> g < p)
  <2> TAKE p \in 0..4
  <2>0. p \in Nat /\ p * K \in Nat BY <1>3, MulMono
  <2>1. q < p * K <=> number < (p * K) * Short BY <1>1, <1>2, <2>0, DivLess DEF q
  <2>2. g < p <=> number < p * PageWords BY <1>1, <1>2, <2>0, DivLess DEF g
  <2>3. (p * K) * Short = p * (K * Short) BY <1>1, <1>3, <2>0, Z3
  <2> QED BY <1>3, <2>1, <2>2, <2>3
<1>8. g < 4
  <2>1. 4 \in Nat OBVIOUS
  <2>2. g < 4 <=> number < 4 * PageWords BY <1>1, <1>2, <2>1, DivLess DEF g
  <2> QED BY <1>2, <2>2
<1>9. q < 4 * K BY <1>7, <1>8
<1>10. 1 + q \in 1..Len(Alphabet) /\ 1 + q <= Len(Alphabet) BY <1>1, <1>3, <1>4, <1>6, <1>9
<1> DEFINE char == Alphabet[1 + q]
<1>11. WorkerLookup(number)[1] = char
  <2>1. WorkerLookup(number) = Variable(format, number)
    BY WordsFound DEF EveryWordFound
  <2> QED BY <2>1 DEF Variable, CharCount, q
<1>12. \A p \in 0..3 : FirstOfPage(p) = <<Alphabet[1 + p * K], Alphabet[1]>>
  <2> TAKE p \in 0..3
  <2>0. p \in Nat /\ p * K \in Nat BY <1>3, MulMono
  <2>1. (p * K) * Short = p * (K * Short) BY <1>1, <1>3, <2>0, Z3
  <2>2. ((p * K) * Short + 0) \div Short = p * K /\ ((p * K) * Short + 0) % Short = 0
    <3>1. 0 \in 0..(Short - 1) BY <1>1
    <3> QED BY <1>1, <2>0, <3>1, DivOf
  <2>3. (p * K) * Short + 0 = p * PageWords
    <3>1. p * PageWords \in Nat BY <1>1, <2>0, MulMono
    <3> QED BY <1>3, <2>1, <3>1
  <2>4. (p * PageWords) \div Short = p * K /\ (p * PageWords) % Short = 0 BY <2>2, <2>3
  <2>5. FirstOfPage(p) = <<Alphabet[1 + (p * PageWords) \div Short], Alphabet[1 + ((p * PageWords) % Short)]>>
    BY DEF FirstOfPage, Variable, CharCount
  <2> QED BY <2>4, <2>5
<1>13. ASSUME NEW p \in 1..3 PROVE Less(<<char, FirstOfPage(0)[2]>>, FirstOfPage(p)) <=> g < p
  <2>0. p \in 0..3 /\ 0 \in 0..3 /\ p \in 0..4 OBVIOUS
  <2>1. FirstOfPage(0)[2] = Alphabet[1] /\ FirstOfPage(p) = <<Alphabet[1 + p * K], Alphabet[1]>> BY <1>12, <2>0
  <2>2. Less(<<char, FirstOfPage(0)[2]>>, FirstOfPage(p)) <=> char < Alphabet[1 + p * K]
    <3>1. Alphabet[1] \in Nat BY <1>1
    <3> HIDE DEF char
    <3> QED BY <2>1, <3>1 DEF Less
  <2>3. p * K \in Nat /\ 1 + p * K \in 1..Len(Alphabet)
    <3>1. p * K \in Nat /\ p * K <= 3 * K BY <1>3, MulMono
    <3> DEFINE x == p * K
    <3>2. x \in Nat /\ x <= 3 * K BY <3>1
    <3> HIDE DEF x
    <3>3. 1 + x \in 1..Len(Alphabet) BY <1>1, <1>3, <1>5, <1>6, <3>2
    <3> QED BY <3>2, <3>3 DEF x
  <2>4. char < Alphabet[1 + p * K] <=> q < p * K
    <3> DEFINE x == p * K
    <3>1. x \in Nat /\ 1 + x \in 1..Len(Alphabet) BY <2>3
    <3> HIDE DEF x
    <3>5. char < Alphabet[1 + x] <=> q < x
      <4>0. char \in Nat /\ Alphabet[1 + x] \in Nat BY <1>1, <1>10, <3>1
      <4>1. CASE q < x
        <5>1. 1 + q < 1 + x BY <1>4, <3>1, <4>1
        <5> QED BY <1>1, <1>10, <3>1, <4>1, <5>1
      <4>2. CASE q = x BY <1>4, <4>0, <4>2
      <4>3. CASE x < q
        <5>1. 1 + x < 1 + q BY <1>4, <3>1, <4>3
        <5>2. Alphabet[1 + x] < char BY <1>1, <1>10, <3>1, <5>1
        <5> HIDE DEF char
        <5> QED BY <1>4, <3>1, <4>0, <4>3, <5>2
      <4> QED BY <1>4, <3>1, <4>1, <4>2, <4>3
    <3> QED BY <3>5 DEF x
  <2> QED BY <1>7, <2>0, <2>2, <2>4
<1>14. ~(char < 32) BY <1>1, <1>10
<1> HIDE DEF char
<1>15. PageOffset(char) = IF g < 1 THEN 0 ELSE IF g < 2 THEN 1 ELSE IF g < 3 THEN 2 ELSE 3
  BY <1>13, <1>14 DEF PageOffset
<1>16. g \in {0, 1, 2, 3} BY <1>4, <1>8
<1> QED BY <1>11, <1>15, <1>16 DEF g

(* The two programs agree on pages and on the places of lookup tables      *)
(* (ToolsAgree).                                                           *)
THEOREM BuildToolsAgree == BuildSpec => []ToolsAgree
<1>1. BuildRamInv => ToolsAgree
  <2> SUFFICES ASSUME BuildRamInv, generated = "written" PROVE PageOffsetAgrees /\ TablesMatchLinks
    BY DEF ToolsAgree
  <2>1. RamInv BY DEF BuildRamInv
  <2>2. PageOffsetAgrees BY <2>1, PagesAgree
  <2>3. TablesMatchLinks
    <3> SUFFICES ASSUME lookupWidth = 4, Len(tables) \in 13..16, NEW n \in 0..(Len(tables) - 1)
                 PROVE  <<TablePlace(n)[1], TablePlace(n)[2] + 16>> = lookup_links[n + 1]
      BY DEF TablesMatchLinks
    <3>0. PICK size \in 13..16 : size = Len(tables) OBVIOUS
    <3>1. n \in 0..15 BY <3>0
    <3>2. n + 1 \in 1..16 /\ (n + 1) - 1 = n BY <3>1
    <3>3. lookup_links[n + 1] = <<n % 4, 16 + n \div 4>> BY <3>2 DEF lookup_links
    <3>4. TablePlace(n)[1] = n % 4 /\ TablePlace(n)[2] = n \div 4 BY DEF TablePlace
    <3>5. n \div 4 + 16 = 16 + n \div 4 BY <3>1
    <3> QED BY <3>3, <3>4, <3>5
  <2> QED BY <2>2, <2>3
<1> QED BY <1>1, BuildRamHolds, PTL

-----------------------------------------------------------------------------
(* Layout: the memory of the schematic                                     *)

(* The place of a block.                                                   *)
At(b, x, y) == b.x = x /\ b.y = y

(* Memory processor n is in the schematic, which has been moved by dx and  *)
(* dy, and a ROM has its part of the file.                                 *)
Placed(n, dx, dy) ==
  \E b \in tiles :
    /\ At(b, base_x + (n % config.width) + dx, base_y + n \div config.width + dy)
    /\ b.w = 1 /\ b.h = 1
    /\ IF n \div config.width < rom_height
       THEN b.kind = "rom" /\ (n * RomProcBytes < DataLength =>
              b.from = n * RomProcBytes /\ b.to = SmallerOf(n * RomProcBytes + RomProcBytes, DataLength))
       ELSE b.kind = "ram"

(* Blocks, and a bound of the place of a block.                            *)
Kinds ==
  {"display", "lookup", "label", "world_cell", "ram", "bank", "cell", "config", "message", "switch",
   "display_proc", "keyboard", "controller", "worker", "rom", "debugger"}
BlockType == [kind : Kinds, x : Int, y : Int, w : Nat, h : Nat, from : Nat, to : Nat]
Corner(b, lo) == b \in BlockType /\ lo <= b.x /\ lo <= b.y

(* Phases before the schematic is moved, and phases with all memory        *)
(* placed.                                                                 *)
Before == {"options", "peripherals", "cpu", "memory", "debugger", "write"}
Complete == {"debugger", "write", "written"}

(* All memory processors so far are placed, and the bytes placed so far    *)
(* are those of the ROM processors.                                        *)
LayoutInv ==
  /\ opts \in CommandLines /\ filled \in Nat /\ i \in Nat
  /\ phase \in Before \union {"refused", "empty", "written"}
  /\ phase \notin {"options", "refused"} /\ Include("memory") => config \in Configs
  /\ phase \in {"options", "peripherals", "cpu"} => filled = 0 /\ i = 0
  /\ phase \in {"options", "peripherals"} => tiles = {}
  /\ phase \in Before \ {"options", "peripherals"} => "config" \in DOMAIN meta /\ meta["config"] = {config_link}
  /\ phase \in Before => \E lo \in Int : \A b \in tiles : Corner(b, lo)
  /\ phase \in Before /\ Include("memory") => \A n \in 0..(filled - 1) : Placed(n, 0, 0)
  /\ phase = "memory" /\ Include("memory") /\ filled <= rom_height * config.width =>
       i = filled * RomProcBytes \/ (DataLength <= i /\ i <= filled * RomProcBytes)
  /\ phase \in Complete /\ Include("memory") => filled = config.width * memory_height
  /\ phase = "written" =>
       \E dx, dy \in Int :
         /\ meta["config"] = {<<config_link[1] + dx, config_link[2] + dy>>}
         /\ Include("memory") => \A n \in 0..(filled - 1) : Placed(n, dx, dy)

(* A set of integers with a lower bound has a least element.               *)
LEMMA LeastInt ==
  ASSUME NEW S, NEW lo \in Int, S # {}, \A x \in S : x \in Int /\ lo <= x
  PROVE  \E x \in S : \A y \in S : x <= y
<1> DEFINE T == {n \in Nat : lo + n \in S}
           R == OpToRel(<, Nat)
<1>1. \A x, y \in Nat : <<x, y>> \in R <=> x < y BY DEF OpToRel
<1>2. IsWellFoundedOn(R, Nat) BY NatLessThanWellFounded
<1>3. T \subseteq Nat /\ T # {}
  <2>1. PICK x \in S : TRUE OBVIOUS
  <2>2. x - lo \in Nat /\ lo + (x - lo) = x BY <2>1
  <2> QED BY <2>1, <2>2
<1> HIDE DEF R
<1>4. PICK n \in T : \A m \in T : ~(<<m, n>> \in R)
  <2> HIDE DEF T
  <2> QED BY <1>2, <1>3, WFMin
<1>5. lo + n \in S /\ n \in Nat BY <1>4
<1>6. ASSUME NEW y \in S PROVE lo + n <= y
  <2>1. y - lo \in Nat /\ lo + (y - lo) = y BY <1>6
  <2>2. y - lo \in T BY <1>6, <2>1
  <2>3. ~(y - lo < n) BY <1>1, <1>3, <1>4, <2>2
  <2> QED BY <1>5, <1>6, <2>1, <2>3
<1> QED BY <1>5, <1>6

(* get_dimensions finds the smallest coordinates.                          *)
LEMMA OffsetsAre ==
  ASSUME NEW lo \in Int, \A b \in tiles : Corner(b, lo), tiles # {}
  PROVE  XOffset \in Int /\ YOffset \in Int
         /\ \A b \in tiles : b.x + XOffset >= 0 /\ b.y + YOffset >= 0
<1> DEFINE X == {b.x : b \in tiles}
           Y == {b.y : b \in tiles}
<1>0. \A b \in tiles : b.x \in Int /\ b.y \in Int /\ lo <= b.x /\ lo <= b.y BY DEF Corner, BlockType, BlockType
<1>1. X # {} /\ Y # {} OBVIOUS
<1>2. (\A x \in X : x \in Int /\ lo <= x) /\ (\A y \in Y : y \in Int /\ lo <= y) BY <1>0
<1>3. \E x \in X : \A b \in tiles : x <= b.x
  <2>1. \E x \in X : \A y \in X : x <= y
    <3> HIDE DEF X
    <3> QED BY <1>1, <1>2, LeastInt
  <2> QED BY <2>1
<1>4. \E y \in Y : \A b \in tiles : y <= b.y
  <2>1. \E x \in Y : \A y \in Y : x <= y
    <3> HIDE DEF Y
    <3> QED BY <1>1, <1>2, LeastInt
  <2> QED BY <2>1
<1> DEFINE x0 == CHOOSE x \in X : \A b \in tiles : x <= b.x
           y0 == CHOOSE y \in Y : \A b \in tiles : y <= b.y
<1>5. x0 \in X /\ \A b \in tiles : x0 <= b.x
  <2> HIDE DEF X
  <2> QED BY <1>3
<1>6. y0 \in Y /\ \A b \in tiles : y0 <= b.y
  <2> HIDE DEF Y
  <2> QED BY <1>4
<1>7. XOffset = -x0 /\ YOffset = -y0 BY DEF XOffset, YOffset
<1> HIDE DEF x0, y0
<1>8. x0 \in Int /\ y0 \in Int BY <1>2, <1>5, <1>6
<1> QED BY <1>0, <1>5, <1>6, <1>7, <1>8

(* All blocks whose places are fixed have a lower bound.                   *)
LEMMA FixedCorners ==
  /\ \A b \in PeripheralBlocks : Corner(b, -18)
  /\ \A b \in {controller} \union workers : Corner(b, -18)
  /\ \A b \in DebuggerBlocks : Corner(b, -18)
<1>1. ASSUME NEW b \in PeripheralBlocks PROVE Corner(b, -18)
  <2>0. \/ b = Block("display", 0, 0, 16, 16)
        \/ b \in {One("lookup", x, y) : x \in 0..3, y \in 16..19}
        \/ b \in {One("label", 4, 19), One("world_cell", 4, 18), One("ram", 4, 17), One("label", 4, 16)}
        \/ b \in {Block("bank", uart_links[u][1], uart_links[u][2], 2, 2) : u \in 1..4}
        \/ b \in {One("cell", 9, 19), One("ram", 9, 18), One("ram", 9, 17), One("config", 9, 16)}
        \/ b \in {One("label", 10, y) : y \in 16..19}
        \/ b \in {One("message", 11, 19)} \union {One("switch", 11, y) : y \in 16..18}
        \/ b \in {One("ram", 13, 16), One("ram", 12, 17), One("ram", 13, 17)}
        \/ b \in {One("label", 12, 18), One("switch", 13, 18), One("display_proc", 12, 16)}
        \/ b = Block("keyboard", 14, 16, 5, 4)
    BY DEF PeripheralBlocks
  <2>1. CASE b = Block("display", 0, 0, 16, 16) BY <2>1 DEF Corner, Kinds, BlockType, Block
  <2>2. CASE b \in {One("lookup", x, y) : x \in 0..3, y \in 16..19} BY <2>2 DEF Corner, Kinds, BlockType, Block, One
  <2>3. CASE b \in {One("label", 4, 19), One("world_cell", 4, 18), One("ram", 4, 17), One("label", 4, 16)}
    BY <2>3 DEF Corner, Kinds, BlockType, Block, One
  <2>4. CASE b \in {Block("bank", uart_links[u][1], uart_links[u][2], 2, 2) : u \in 1..4}
    BY <2>4 DEF Corner, Kinds, BlockType, Block, uart_links
  <2>5. CASE b \in {One("cell", 9, 19), One("ram", 9, 18), One("ram", 9, 17), One("config", 9, 16)}
    BY <2>5 DEF Corner, Kinds, BlockType, Block, One
  <2>6. CASE b \in {One("label", 10, y) : y \in 16..19} BY <2>6 DEF Corner, Kinds, BlockType, Block, One
  <2>7. CASE b \in {One("message", 11, 19)} \union {One("switch", 11, y) : y \in 16..18}
    BY <2>7 DEF Corner, Kinds, BlockType, Block, One
  <2>8. CASE b \in {One("ram", 13, 16), One("ram", 12, 17), One("ram", 13, 17)} BY <2>8 DEF Corner, Kinds, BlockType, Block, One
  <2>9. CASE b \in {One("label", 12, 18), One("switch", 13, 18), One("display_proc", 12, 16)}
    BY <2>9 DEF Corner, Kinds, BlockType, Block, One
  <2>10. CASE b = Block("keyboard", 14, 16, 5, 4) BY <2>10 DEF Corner, Kinds, BlockType, Block
  <2> QED BY <2>0, <2>1, <2>2, <2>3, <2>4, <2>5, <2>6, <2>7, <2>8, <2>9, <2>10
<1>2. Corner(controller, -18) BY DEF controller, controller_link, Corner, Kinds, BlockType, One, Block
<1>3. \A b \in workers : Corner(b, -18) BY DEF workers, Corner, Kinds, BlockType, One, Block
<1>4. \A b \in DebuggerBlocks : Corner(b, -18) BY DEF DebuggerBlocks, Corner, Kinds, BlockType, One, Block
<1> QED BY <1>1, <1>2, <1>3, <1>4

(* Two sets of blocks with lower bounds have one together.                 *)
LEMMA MoreCorners ==
  ASSUME NEW S, NEW T, NEW a \in Int, NEW c \in Int,
         \A b \in S : Corner(b, a), \A b \in T : Corner(b, c)
  PROVE  \E lo \in Int : \A b \in S \union T : Corner(b, lo)
<1> DEFINE lo == IF a < c THEN a ELSE c
<1>1. lo \in Int /\ lo <= a /\ lo <= c OBVIOUS
<1> HIDE DEF lo
<1>2. \A b \in S \union T : Corner(b, lo) BY <1>1 DEF Corner, BlockType
<1> QED BY <1>1, <1>2

(* A memory processor stays placed when blocks are added.                  *)
LEMMA PlacedStays ==
  ASSUME tiles \subseteq tiles', config' = config, opts' = opts,
         NEW n, NEW dx, NEW dy, Placed(n, dx, dy)
  PROVE  Placed(n, dx, dy)'
<1>1. /\ base_x' = base_x /\ base_y' = base_y /\ rom_height' = rom_height /\ DataLength' = DataLength
  BY DEF base_x, base_y, rom_height, DataLength, config_link
<1>2. PICK b \in tiles :
    /\ At(b, base_x + (n % config.width) + dx, base_y + n \div config.width + dy)
    /\ b.w = 1 /\ b.h = 1
    /\ IF n \div config.width < rom_height
       THEN b.kind = "rom" /\ (n * RomProcBytes < DataLength =>
              b.from = n * RomProcBytes /\ b.to = SmallerOf(n * RomProcBytes + RomProcBytes, DataLength))
       ELSE b.kind = "ram"
  BY DEF Placed
<1>3. b \in tiles' OBVIOUS
<1> HIDE DEF base_x, base_y, rom_height, DataLength
<1> QED BY <1>1, <1>2, <1>3 DEF Placed

(* The invariant holds at the start.                                       *)
LEMMA LayoutInitHolds == LayoutInit => LayoutInv
<1> SUFFICES ASSUME LayoutInit PROVE LayoutInv OBVIOUS
<1>1. opts \in CommandLines /\ tiles = {} /\ filled = 0 /\ i = 0 /\ phase = "options" BY DEF LayoutInit
<1>2. \E lo \in Int : \A b \in tiles : Corner(b, lo) BY <1>1
<1>3. \A n \in 0..(filled - 1) : Placed(n, 0, 0) BY <1>1
<1> QED BY <1>1, <1>2, <1>3 DEF LayoutInv, Before, Complete

(* What adding blocks at fixed places leaves true.                         *)
LEMMA AddingKeeps ==
  ASSUME LayoutInv, NEW S, \A b \in S : Corner(b, -18), tiles' = tiles \union S,
         phase \in Before, phase' \in Before, UNCHANGED <<opts, config, filled, i>>
  PROVE  /\ opts' \in CommandLines /\ filled' \in Nat /\ i' \in Nat
         /\ \E lo \in Int : \A b \in tiles' : Corner(b, lo)
         /\ Include("memory")' <=> Include("memory")
         /\ Include("memory") => \A n \in 0..(filled - 1) : Placed(n, 0, 0)'
<1>1. opts' \in CommandLines /\ filled' \in Nat /\ i' \in Nat BY DEF LayoutInv
<1>2. PICK lo \in Int : \A b \in tiles : Corner(b, lo) BY DEF LayoutInv
<1>3. \E l \in Int : \A b \in tiles' : Corner(b, l)
  <2>1. -18 \in Int OBVIOUS
  <2> QED BY <1>2, <2>1, MoreCorners
<1>4. Include("memory")' <=> Include("memory") BY DEF Include
<1>5. ASSUME Include("memory"), NEW n \in 0..(filled - 1) PROVE Placed(n, 0, 0)'
  <2>1. Placed(n, 0, 0) BY <1>5 DEF LayoutInv
  <2>2. tiles \subseteq tiles' OBVIOUS
  <2> QED BY <2>1, <2>2, PlacedStays
<1> QED BY <1>1, <1>3, <1>4, <1>5

(* The options are checked.                                                *)
LEMMA OptionsKeeps == ASSUME LayoutInv, CheckOptions PROVE LayoutInv'
<1>1. /\ phase = "options" /\ config' = ConfigOf(opts) /\ phase' \in {"refused", "peripherals"}
      /\ UNCHANGED <<opts, tiles, links, meta, filled, i>>
      /\ phase' = "peripherals" /\ Include("memory") => ConfigOf(opts) # Refused
  BY DEF CheckOptions
<1>2. /\ opts \in CommandLines /\ filled = 0 /\ i = 0 /\ tiles = {} /\ \E lo \in Int : \A b \in tiles : Corner(b, lo)
  BY <1>1 DEF LayoutInv, Before
<1>3. Include("memory")' <=> Include("memory") BY <1>1 DEF Include
<1>4. ConfigOf(opts) \in Configs \union {Refused} BY <1>2, CommandLinesAssumption
<1>5. phase' = "peripherals" /\ Include("memory")' => config' \in Configs BY <1>1, <1>3, <1>4
<1>6. \A n \in 0..(filled' - 1) : Placed(n, 0, 0)' BY <1>1, <1>2
<1>7. \E lo \in Int : \A b \in tiles' : Corner(b, lo) BY <1>1, <1>2
<1> QED BY <1>1, <1>2, <1>5, <1>6, <1>7 DEF LayoutInv, Before, Complete

(* The peripherals are added.                                              *)
LEMMA PeripheralsKeeps == ASSUME LayoutInv, AddPeripherals PROVE LayoutInv'
<1> DEFINE S == IF Include("peripherals") THEN PeripheralBlocks ELSE {}
<1>1. /\ phase = "peripherals" /\ phase' = "cpu" /\ tiles' = tiles \union S /\ meta' = PeripheralMeta
      /\ UNCHANGED <<opts, config, filled, i>>
  BY DEF AddPeripherals, LayoutInv
<1>2. \A b \in S : Corner(b, -18) BY FixedCorners
<1> HIDE DEF S
<1>3. phase \in Before /\ phase' \in Before BY <1>1 DEF Before
<1>4. /\ opts' \in CommandLines /\ filled' \in Nat /\ i' \in Nat
      /\ \E lo \in Int : \A b \in tiles' : Corner(b, lo)
      /\ Include("memory")' <=> Include("memory")
      /\ Include("memory") => \A n \in 0..(filled - 1) : Placed(n, 0, 0)'
  BY <1>1, <1>2, <1>3, AddingKeeps
<1>5. "config" \in DOMAIN meta' /\ meta'["config"] = {config_link} BY <1>1 DEF PeripheralMeta
<1>6. filled = 0 /\ i = 0 /\ (Include("memory") => config \in Configs) BY <1>1 DEF LayoutInv
<1> QED BY <1>1, <1>3, <1>4, <1>5, <1>6 DEF LayoutInv, Complete

(* The CPU is added.                                                       *)
LEMMA CpuKeeps == ASSUME LayoutInv, AddCpu PROVE LayoutInv'
<1> DEFINE S == IF Include("cpu") THEN {controller} \union workers ELSE {}
<1>1. /\ phase = "cpu" /\ phase' = "memory" /\ tiles' = tiles \union S
      /\ meta' \in {meta, [meta EXCEPT !.cpu = {controller_link}]}
      /\ UNCHANGED <<opts, config, filled, i>>
  BY DEF AddCpu
<1>2. \A b \in S : Corner(b, -18) BY FixedCorners
<1> HIDE DEF S
<1>3. phase \in Before /\ phase' \in Before BY <1>1 DEF Before
<1>4. /\ opts' \in CommandLines /\ filled' \in Nat /\ i' \in Nat
      /\ \E lo \in Int : \A b \in tiles' : Corner(b, lo)
      /\ Include("memory")' <=> Include("memory")
      /\ Include("memory") => \A n \in 0..(filled - 1) : Placed(n, 0, 0)'
  BY <1>1, <1>2, <1>3, AddingKeeps
<1>5. "config" \in DOMAIN meta' /\ meta'["config"] = {config_link}
  BY <1>1 DEF LayoutInv, Before
<1>6. filled = 0 /\ i = 0 /\ (Include("memory") => config \in Configs) BY <1>1 DEF LayoutInv
<1>7. i' = filled' * RomProcBytes BY <1>1, <1>6, CommandLinesAssumption
<1> QED BY <1>1, <1>3, <1>4, <1>5, <1>6, <1>7 DEF LayoutInv, Complete

(* The debugger is added.                                                  *)
LEMMA DebuggerKeeps == ASSUME LayoutInv, AddDebugger PROVE LayoutInv'
<1> DEFINE S == IF Include("debugger") THEN DebuggerBlocks ELSE {}
<1>1. /\ phase = "debugger" /\ phase' = "write" /\ tiles' = tiles \union S
      /\ UNCHANGED <<opts, config, meta, filled, i>>
  BY DEF AddDebugger
<1>2. \A b \in S : Corner(b, -18) BY FixedCorners
<1> HIDE DEF S
<1>3. phase \in Before /\ phase' \in Before BY <1>1 DEF Before
<1>4. /\ opts' \in CommandLines /\ filled' \in Nat /\ i' \in Nat
      /\ \E lo \in Int : \A b \in tiles' : Corner(b, lo)
      /\ Include("memory")' <=> Include("memory")
      /\ Include("memory") => \A n \in 0..(filled - 1) : Placed(n, 0, 0)'
  BY <1>1, <1>2, <1>3, AddingKeeps
<1>5. "config" \in DOMAIN meta' /\ meta'["config"] = {config_link}
  BY <1>1 DEF LayoutInv, Before
<1>6. Include("memory") => config \in Configs /\ filled = config.width * memory_height
  BY <1>1 DEF LayoutInv, Complete
<1>7. memory_height' = memory_height BY <1>1 DEF memory_height, rom_height
<1> QED BY <1>1, <1>3, <1>4, <1>5, <1>6, <1>7 DEF LayoutInv

(* A memory processor is placed, with the next part of the file if it is a *)
(* ROM.                                                                    *)
LEMMA MemoryProcessorKeeps == ASSUME LayoutInv, AddMemoryProcessor PROVE LayoutInv'
<1> DEFINE p == MemoryPlace(filled)
           isRom == filled \div config.width < rom_height
           new == IF isRom THEN RomBlock(p[1], p[2]) ELSE One("ram", p[1], p[2])
           start == filled * RomProcBytes
<1>1. /\ phase = "memory" /\ Include("memory") /\ filled < config.width * memory_height
      /\ tiles' = tiles \union {new}
      /\ i' = (IF isRom /\ i < DataLength THEN i + RomProcBytes ELSE i)
      /\ filled' = filled + 1 /\ UNCHANGED <<opts, config, links, meta, phase>>
  BY DEF AddMemoryProcessor
<1>2. opts \in CommandLines /\ filled \in Nat /\ i \in Nat /\ config \in Configs
  BY <1>1 DEF LayoutInv
<1>3. /\ config.xOffset \in Int /\ config.yOffset \in Int /\ config.width \in Nat
      /\ rom_height \in Nat /\ memory_height \in Nat /\ rom_height <= memory_height
  BY <1>2 DEF Configs, rom_height, memory_height
<1>4. RomProcBytes \in Nat \ {0} /\ DataLength \in Nat
  <2>1. RomProcBytes \in Nat \ {0} /\ opts.bin \in Nat BY <1>2, CommandLinesAssumption
  <2>2. opts.bin % 4 \in Nat BY <2>1
  <2> QED BY <2>1, <2>2 DEF DataLength
<1>5. config.width # 0
  <2> SUFFICES ASSUME config.width = 0 PROVE FALSE OBVIOUS
  <2>1. config.width * memory_height = 0 BY <1>3
  <2> QED BY <1>1, <1>2, <2>1
<1>6. /\ filled \div config.width \in Nat /\ filled % config.width \in 0..(config.width - 1)
  BY <1>2, <1>3, <1>5, DivIs
<1>7. /\ p[1] = base_x + (filled % config.width) /\ p[2] = base_y + filled \div config.width
      /\ base_x \in Int /\ base_y \in Int /\ p[1] \in Int /\ p[2] \in Int
  BY <1>3, <1>6 DEF MemoryPlace, base_x, base_y, config_link
<1>8. At(new, p[1], p[2])
  BY DEF At, RomBlock, One, Block
<1>9. PICK lo \in Int : \A b \in tiles : Corner(b, lo) BY <1>1 DEF LayoutInv, Before
<1>10. \E l \in Int : \A b \in tiles' : Corner(b, l)
  <2> DEFINE c == IF p[1] < p[2] THEN p[1] ELSE p[2]
  <2>1. c \in Int /\ c <= p[1] /\ c <= p[2] BY <1>7
  <2> HIDE DEF c
  <2>2. \A b \in {new} : Corner(b, c)
    <3>1. new \in BlockType
      <4>1. RomBlock(p[1], p[2]) \in BlockType
        <5>1. i \in Nat /\ (IF i < DataLength THEN SmallerOf(i + RomProcBytes, DataLength) ELSE i) \in Nat
          BY <1>2, <1>4 DEF SmallerOf
        <5> HIDE DEF p
        <5> QED BY <1>7, <5>1 DEF RomBlock, One, Block, Kinds, BlockType
      <4>2. One("ram", p[1], p[2]) \in BlockType
        <5> HIDE DEF p
        <5> QED BY <1>7 DEF One, Block, Kinds, BlockType
      <4> QED BY <4>1, <4>2
    <3> QED BY <1>7, <1>8, <2>1, <3>1 DEF At, Corner
  <2> HIDE DEF new, p
  <2> DEFINE T == {new}
  <2>3. \A b \in T : Corner(b, c) BY <2>2
  <2>4. tiles' = tiles \union T BY <1>1
  <2> HIDE DEF T
  <2>5. \E l \in Int : \A b \in tiles \union T : Corner(b, l) BY <1>9, <2>1, <2>3, MoreCorners
  <2> QED BY <2>4, <2>5
<1>11. start \in Nat BY <1>2, <1>4, MulMono
<1>12. isRom <=> filled < rom_height * config.width BY <1>2, <1>3, <1>5, DivLess
<1>13. isRom => i = start \/ (DataLength <= i /\ i <= start)
  <2>1. rom_height * config.width \in Nat BY <1>3, MulMono
  <2>2. isRom => filled <= rom_height * config.width BY <1>2, <1>12, <2>1
  <2> QED BY <1>1, <2>2 DEF LayoutInv
<1>14. isRom /\ start < DataLength =>
         new.from = start /\ new.to = SmallerOf(start + RomProcBytes, DataLength) /\ new.kind = "rom"
  <2> SUFFICES ASSUME isRom, start < DataLength
               PROVE new.from = start /\ new.to = SmallerOf(start + RomProcBytes, DataLength) /\ new.kind = "rom"
    OBVIOUS
  <2>1. i = start BY <1>2, <1>4, <1>11, <1>13
  <2>2. new = RomBlock(p[1], p[2]) OBVIOUS
  <2> HIDE DEF new, p, start
  <2> QED BY <2>1, <2>2 DEF RomBlock, One, Block
<1>15. isRom => new.kind = "rom" BY DEF RomBlock, One, Block
<1>16. (~isRom => new.kind = "ram") /\ new.w = 1 /\ new.h = 1 BY DEF RomBlock, One, Block
<1>17. \A n : n = filled => Placed(n, 0, 0)'
  <2> SUFFICES ASSUME NEW n, n = filled PROVE Placed(n, 0, 0)' OBVIOUS
  <2>1. /\ base_x' = base_x /\ base_y' = base_y /\ rom_height' = rom_height /\ DataLength' = DataLength
    BY <1>1 DEF base_x, base_y, rom_height, DataLength, config_link
  <2>2. At(new, base_x + (n % config.width) + 0, base_y + n \div config.width + 0)
    BY <1>6, <1>7, <1>8
  <2>3. new \in tiles' BY <1>1
  <2>4. /\ new.w = 1 /\ new.h = 1
        /\ IF n \div config.width < rom_height
           THEN new.kind = "rom" /\ (n * RomProcBytes < DataLength =>
                  new.from = n * RomProcBytes /\ new.to = SmallerOf(n * RomProcBytes + RomProcBytes, DataLength))
           ELSE new.kind = "ram"
    BY <1>14, <1>15, <1>16
  <2>5. config' = config BY <1>1
  <2> HIDE DEF new, p, start, isRom
  <2> QED BY <2>1, <2>2, <2>3, <2>4, <2>5 DEF Placed
<1> HIDE DEF new, p
<1>18. ASSUME NEW n \in 0..(filled' - 1) PROVE Placed(n, 0, 0)'
  <2>1. CASE n = filled BY <1>17, <2>1
  <2>2. CASE n # filled
    <3>1. n \in 0..(filled - 1) BY <1>1, <1>2, <2>2
    <3>2. Placed(n, 0, 0) BY <1>1, <3>1 DEF LayoutInv, Before
    <3>3. tiles \subseteq tiles' /\ config' = config /\ opts' = opts BY <1>1
    <3> QED BY <3>2, <3>3, PlacedStays
  <2> QED BY <2>1, <2>2
<1>19. rom_height' = rom_height /\ DataLength' = DataLength BY <1>1 DEF rom_height, DataLength
<1>20. filled' <= rom_height * config.width =>
         i' = filled' * RomProcBytes \/ (DataLength <= i' /\ i' <= filled' * RomProcBytes)
  <2> SUFFICES ASSUME filled' <= rom_height * config.width
               PROVE  i' = filled' * RomProcBytes \/ (DataLength <= i' /\ i' <= filled' * RomProcBytes)
    OBVIOUS
  <2>1. rom_height * config.width \in Nat BY <1>3, MulMono
  <2>2. isRom BY <1>1, <1>2, <1>12, <2>1
  <2>3. filled' * RomProcBytes = start + RomProcBytes BY <1>1, <1>2, <1>4, Z3
  <2>4. i' = (IF i < DataLength THEN i + RomProcBytes ELSE i) BY <1>1, <2>2
  <2> HIDE DEF start, isRom
  <2> QED BY <1>2, <1>4, <1>11, <1>13, <2>2, <2>3, <2>4
<1>21. i' \in Nat /\ filled' \in Nat BY <1>1, <1>2, <1>4
<1>22. Include("memory")' BY <1>1 DEF Include
<1>23. "config" \in DOMAIN meta' /\ meta'["config"] = {config_link} BY <1>1 DEF LayoutInv, Before
<1> QED BY <1>1, <1>2, <1>10, <1>18, <1>19, <1>20, <1>21, <1>22, <1>23 DEF LayoutInv, Before, Complete

(* All memory processors have been placed.                                 *)
LEMMA MemoryDoneKeeps == ASSUME LayoutInv, MemoryDone PROVE LayoutInv'
<1>1. /\ phase = "memory" /\ phase' = "debugger" /\ UNCHANGED <<opts, config, tiles, links, filled, i>>
      /\ Include("memory") => filled = config.width * memory_height
      /\ meta' \in {meta, [meta EXCEPT !.memory = {<<base_x, base_y>>}]}
  BY DEF MemoryDone
<1>2. phase \in Before /\ phase' \in Before BY <1>1 DEF Before
<1> DEFINE S == {}
<1>3. tiles' = tiles \union S /\ \A b \in S : Corner(b, -18) BY <1>1
<1> HIDE DEF S
<1>4. /\ opts' \in CommandLines /\ filled' \in Nat /\ i' \in Nat
      /\ \E lo \in Int : \A b \in tiles' : Corner(b, lo)
      /\ Include("memory")' <=> Include("memory")
      /\ Include("memory") => \A n \in 0..(filled - 1) : Placed(n, 0, 0)'
  BY <1>1, <1>2, <1>3, AddingKeeps
<1>5. "config" \in DOMAIN meta' /\ meta'["config"] = {config_link} BY <1>1 DEF LayoutInv, Before
<1>6. Include("memory") => config \in Configs BY <1>1 DEF LayoutInv
<1>7. memory_height' = memory_height BY <1>1 DEF memory_height, rom_height
<1> QED BY <1>1, <1>2, <1>4, <1>5, <1>6, <1>7 DEF LayoutInv

(* All blocks and the metadata are moved by the same offset.               *)
LEMMA WriteKeeps == ASSUME LayoutInv, WriteSchematic PROVE LayoutInv'
<1>1. /\ phase = "write" /\ UNCHANGED <<opts, config, filled, i>> BY DEF WriteSchematic
<1>2. /\ opts \in CommandLines /\ filled \in Nat /\ i \in Nat
      /\ Include("memory") => config \in Configs /\ filled = config.width * memory_height
      /\ "config" \in DOMAIN meta /\ meta["config"] = {config_link}
      /\ Include("memory") => \A n \in 0..(filled - 1) : Placed(n, 0, 0)
  BY <1>1 DEF LayoutInv, Before, Complete
<1>3. memory_height' = memory_height BY <1>1 DEF memory_height, rom_height
<1>4. Include("memory")' <=> Include("memory") BY <1>1 DEF Include
<1>5. CASE tiles = {}
  <2>1. phase' = "empty" BY <1>5 DEF WriteSchematic
  <2> QED BY <1>1, <1>2, <1>3, <1>4, <2>1 DEF LayoutInv, Before, Complete
<1>6. CASE tiles # {}
  <2> DEFINE dx == XOffset
             dy == YOffset
             moved(b) == [b EXCEPT !.x = b.x + dx, !.y = b.y + dy]
  <2>1. /\ phase' = "written" /\ meta' = [key \in DOMAIN meta |-> {Moved(q) : q \in meta[key]}]
        /\ tiles' = {moved(b) : b \in tiles}
    BY <1>6 DEF WriteSchematic
  <2>2. PICK lo \in Int : \A b \in tiles : Corner(b, lo) BY <1>1 DEF LayoutInv, Before
  <2>3. dx \in Int /\ dy \in Int BY <1>6, <2>2, OffsetsAre
  <2>4. meta'["config"] = {<<config_link[1] + dx, config_link[2] + dy>>}
    <3>1. meta'["config"] = {Moved(q) : q \in meta["config"]} BY <1>2, <2>1
    <3> QED BY <1>2, <3>1 DEF Moved
  <2> HIDE DEF dx, dy
  <2>5. ASSUME Include("memory"), NEW n \in 0..(filled - 1), NEW x, NEW y, x = dx, y = dy PROVE Placed(n, x, y)'
    <3>1. /\ base_x' = base_x /\ base_y' = base_y /\ rom_height' = rom_height /\ DataLength' = DataLength
      BY <1>1 DEF base_x, base_y, rom_height, DataLength, config_link
    <3>2. PICK b \in tiles :
        /\ At(b, base_x + (n % config.width) + 0, base_y + n \div config.width + 0)
        /\ b.w = 1 /\ b.h = 1
        /\ IF n \div config.width < rom_height
           THEN b.kind = "rom" /\ (n * RomProcBytes < DataLength =>
                  b.from = n * RomProcBytes /\ b.to = SmallerOf(n * RomProcBytes + RomProcBytes, DataLength))
           ELSE b.kind = "ram"
      BY <1>2, <2>5 DEF Placed
    <3>3. moved(b) \in tiles' BY <2>1
    <3>4. base_x + (n % config.width) \in Int /\ base_y + n \div config.width \in Int
      <4>1. config \in Configs /\ filled = config.width * memory_height /\ n \in Nat BY <1>2, <2>5
      <4>2. config.width \in Nat /\ config.xOffset \in Int /\ config.yOffset \in Int /\ memory_height \in Nat
        BY <4>1 DEF Configs, memory_height, rom_height
      <4>3. config.width # 0
        <5> SUFFICES ASSUME config.width = 0 PROVE FALSE OBVIOUS
        <5>1. config.width * memory_height = 0 BY <4>2
        <5> QED BY <1>2, <2>5, <4>1, <5>1
      <4>4. n % config.width \in Int /\ n \div config.width \in Int
        <5> DEFINE v == config.width
        <5>1. v \in Nat \ {0} /\ n \in Nat BY <4>1, <4>2, <4>3
        <5> HIDE DEF v
        <5>2. n \div v \in Nat /\ n % v \in 0..(v - 1) BY <5>1, DivIs
        <5> QED BY <5>1, <5>2 DEF v
      <4> QED BY <4>2, <4>4 DEF base_x, base_y, config_link
    <3>5. At(b, base_x + (n % config.width), base_y + n \div config.width) BY <3>2, <3>4
    <3> HIDE DEF base_x, base_y, rom_height, DataLength
    <3>6. b \in BlockType /\ b.x \in Int /\ b.y \in Int BY <2>2 DEF Corner, BlockType
    <3>7. /\ moved(b).kind = b.kind /\ moved(b).from = b.from /\ moved(b).to = b.to
          /\ moved(b).w = b.w /\ moved(b).h = b.h
      BY <3>6 DEF BlockType
    <3>8. At(moved(b), base_x + (n % config.width) + dx, base_y + n \div config.width + dy)
      <4>1. moved(b).x = b.x + dx /\ moved(b).y = b.y + dy BY <3>6 DEF BlockType
      <4> QED BY <3>5, <4>1 DEF At
    <3>9. config' = config BY <1>1
    <3> HIDE DEF moved
    <3> QED BY <2>5, <3>1, <3>2, <3>3, <3>7, <3>8, <3>9 DEF Placed
  <2>6. \E x, y \in Int :
         /\ meta'["config"] = {<<config_link[1] + x, config_link[2] + y>>}
         /\ Include("memory") => \A n \in 0..(filled - 1) : Placed(n, x, y)'
    BY <2>3, <2>4, <2>5
  <2>7. (\E x, y \in Int :
         /\ meta["config"] = {<<config_link[1] + x, config_link[2] + y>>}
         /\ Include("memory") => \A n \in 0..(filled - 1) : Placed(n, x, y))'
    BY <1>1, <1>4, <2>6 DEF config_link
  <2> QED BY <1>1, <1>2, <1>3, <1>4, <2>1, <2>7 DEF LayoutInv, Before, Complete
<1> QED BY <1>5, <1>6

(* A step of another command.                                              *)
LEMMA LayoutStays == LayoutInv /\ UNCHANGED layoutVars => LayoutInv'
<1> SUFFICES ASSUME LayoutInv, UNCHANGED layoutVars PROVE LayoutInv' OBVIOUS
<1>1. UNCHANGED <<opts, config, tiles, links, meta, filled, i, phase>> BY DEF layoutVars
<1>2. \A n, dx, dy : Placed(n, dx, dy)' <=> Placed(n, dx, dy)
  BY <1>1 DEF Placed, base_x, base_y, rom_height, DataLength, config_link
<1>3. /\ rom_height' = rom_height /\ memory_height' = memory_height /\ DataLength' = DataLength
      /\ Include("memory")' <=> Include("memory")
  BY <1>1 DEF Include, rom_height, memory_height, DataLength
<1> QED BY <1>1, <1>2, <1>3 DEF LayoutInv

(* Every step keeps the invariant.                                         *)
LEMMA LayoutNextKeeps == LayoutInv /\ LayoutNext => LayoutInv'
BY OptionsKeeps, PeripheralsKeeps, CpuKeeps, MemoryProcessorKeeps, MemoryDoneKeeps, DebuggerKeeps, WriteKeeps,
   LayoutStays
   DEF LayoutNext, LayoutEnded

(* The invariant of the layout within a run of any command.                *)
BuildLayoutInv == (command = "schematic" => LayoutInv) /\ (command # "schematic" => phase = "idle")

(* It holds throughout.                                                    *)
LEMMA BuildLayoutHolds == BuildSpec => []BuildLayoutInv
<1>1. BuildInit => BuildLayoutInv BY LayoutInitHolds DEF BuildInit, BuildLayoutInv, LayoutIdle
<1>2. BuildLayoutInv /\ [BuildNext]_buildVars => BuildLayoutInv'
  <2> SUFFICES ASSUME BuildLayoutInv, [BuildNext]_buildVars PROVE BuildLayoutInv' OBVIOUS
  <2>1. CASE command = "schematic" /\ LayoutNext /\ UNCHANGED command
    BY <2>1, LayoutNextKeeps DEF BuildLayoutInv
  <2>2. CASE UNCHANGED <<command, layoutVars>>
    <3>1. phase' = phase /\ command' = command BY <2>2 DEF layoutVars
    <3> QED BY <2>2, <3>1, LayoutStays DEF BuildLayoutInv
  <2> QED BY <2>1, <2>2 DEF BuildNext, buildVars
<1> QED BY <1>1, <1>2, PTL DEF BuildSpec

(* In the schematic that is written, the worker finds every byte.          *)
LEMMA WrittenMemory ==
  ASSUME LayoutInv, phase = "written", Include("memory")
  PROVE  MemoryAgrees
<1>1. PICK dx \in Int, dy \in Int :
        /\ meta["config"] = {<<config_link[1] + dx, config_link[2] + dy>>}
        /\ \A n \in 0..(filled - 1) : Placed(n, dx, dy)
  BY DEF LayoutInv
<1>2. opts \in CommandLines /\ filled \in Nat /\ config \in Configs /\ filled = config.width * memory_height
  BY DEF LayoutInv, Complete
<1>3. /\ config.xOffset \in Int /\ config.yOffset \in Int /\ config.width \in Nat
      /\ rom_height \in Nat /\ memory_height \in Nat /\ rom_height <= memory_height
  BY <1>2 DEF Configs, rom_height, memory_height
<1>4. RomProcBytes \in Nat \ {0} /\ DataLength \in Nat
  <2>1. RomProcBytes \in Nat \ {0} /\ opts.bin \in Nat BY <1>2, CommandLinesAssumption
  <2>2. opts.bin % 4 \in Nat BY <2>1
  <2> QED BY <2>1, <2>2 DEF DataLength
<1> DEFINE W == config.width
           B == RomProcBytes
           cells == rom_height * W
<1>5. /\ cells \in Nat /\ cells <= memory_height * W /\ memory_height * W = filled
  BY <1>2, <1>3, MulMono
<1>6. ASSUME NEW n \in Nat, n < filled
      PROVE  /\ W \in Nat \ {0} /\ (n \div W < rom_height <=> n < cells)
             /\ n % W \in Int /\ n \div W \in Int
  <2>1. W \in Nat \ {0}
    <3> SUFFICES ASSUME W = 0 PROVE FALSE BY <1>3
    <3>1. memory_height * W = 0 BY <1>3
    <3> QED BY <1>5, <1>6, <3>1
  <2>2. n \div W < rom_height <=> n < cells BY <1>3, <2>1, DivLess
  <2>3. n \div W \in Nat /\ n % W \in 0..(W - 1) BY <2>1, DivIs
  <2> QED BY <2>1, <2>2, <2>3
<1>7. ASSUME NEW a \in Nat, NEW n \in Nat, n < filled, a \div RomProcBytes = n
      PROVE  RomPlace(a) = <<base_x + (n % W) + dx, base_y + n \div W + dy>>
  <2>1. (CHOOSE p \in meta.config : TRUE) = <<config_link[1] + dx, config_link[2] + dy>> BY <1>1
  <2>2. RomPlace(a) = <<config_link[1] + dx + config.xOffset + (n % W), config_link[2] + dy + config.yOffset + n \div W>>
    <3> DEFINE home == CHOOSE p \in meta.config : TRUE
               index == a \div RomProcBytes
    <3>1. RomPlace(a) = <<home[1] + config.xOffset + (index % W), home[2] + config.yOffset + index \div W>>
      BY DEF RomPlace
    <3>2. home = <<config_link[1] + dx, config_link[2] + dy>> BY <2>1
    <3>3. index = n BY <1>7
    <3> HIDE DEF home, index
    <3>4. home[1] = config_link[1] + dx /\ home[2] = config_link[2] + dy BY <3>2
    <3> QED BY <3>1, <3>3, <3>4
  <2>3. n % W \in Int /\ n \div W \in Int BY <1>6, <1>7
  <2>4. /\ config_link[1] + dx + config.xOffset + (n % W) = base_x + (n % W) + dx
        /\ config_link[2] + dy + config.yOffset + n \div W = base_y + n \div W + dy
    BY <1>3, <2>3 DEF base_x, base_y, config_link
  <2> QED BY <2>2, <2>4
<1>8. ASSUME NEW a \in 0..(SmallerOf(DataLength, RomSize) - 1)
      PROVE  \E b \in tiles :
               /\ b.kind = "rom" /\ <<b.x, b.y>> = RomPlace(a)
               /\ b.from <= a /\ a < b.to /\ a - b.from = a % RomProcBytes
  <2> DEFINE n == a \div B
             s == n * B
  <2>1. RomSize = cells * B /\ cells * B \in Nat BY <1>4, <1>5, MulMono DEF RomSize
  <2>2. a \in Nat /\ a < DataLength /\ a < cells * B
    <3> HIDE DEF cells
    <3>1. SmallerOf(DataLength, RomSize) \in Nat /\ SmallerOf(DataLength, RomSize) <= DataLength
          /\ SmallerOf(DataLength, RomSize) <= cells * B
      BY <1>4, <2>1 DEF SmallerOf
    <3> QED BY <1>4, <2>1, <3>1
  <2>3. n \in Nat /\ a % B \in 0..(B - 1) /\ a = s + (a % B) BY <1>4, <2>2, DivIs
  <2>4. n < cells BY <1>4, <1>5, <2>2, DivLess
  <2>5. n < filled BY <1>2, <1>3, <1>5, <2>3, <2>4
  <2>6. s \in Nat BY <1>4, <2>3, MulMono
  <2>7. s < DataLength /\ s <= a /\ a < s + B /\ a - s = a % B
    <3> DEFINE r == a % B
    <3>1. r \in 0..(B - 1) /\ a = s + r BY <2>3
    <3> HIDE DEF r, s, n
    <3>2. s < DataLength /\ s <= a /\ a < s + B /\ a - s = r BY <1>4, <2>2, <2>6, <3>1
    <3> QED BY <3>2 DEF r
  <2>8. Placed(n, dx, dy)
    <3>1. n \in 0..(filled - 1) BY <1>2, <2>3, <2>5
    <3> QED BY <1>1, <3>1
  <2>9. n \div W < rom_height BY <1>6, <2>3, <2>4, <2>5
  <2>10. RomPlace(a) = <<base_x + (n % W) + dx, base_y + n \div W + dy>>
    BY <1>7, <2>2, <2>3, <2>5
  <2> HIDE DEF n
  <2>11. PICK b \in tiles :
           /\ At(b, base_x + (n % W) + dx, base_y + n \div W + dy)
           /\ b.kind = "rom" /\ b.from = s /\ b.to = SmallerOf(s + B, DataLength)
    BY <2>7, <2>8, <2>9 DEF Placed
  <2>12. a < SmallerOf(s + B, DataLength) BY <2>2, <2>7 DEF SmallerOf
  <2> HIDE DEF s
  <2> QED BY <2>7, <2>10, <2>11, <2>12 DEF At
<1>9. ASSUME NEW n \in cells..(memory_height * W - 1)
      PROVE  Hit(RomPlace(n * RomProcBytes), {"ram"})
  <2>1. n \in Nat /\ n < filled /\ ~(n < cells)
    <3> DEFINE top == memory_height * W
    <3>1. top = filled /\ n \in cells..(top - 1) BY <1>5, <1>9
    <3> HIDE DEF top, cells
    <3> QED BY <1>2, <1>5, <3>1
  <2>2. Placed(n, dx, dy)
    <3>1. n \in 0..(filled - 1) BY <1>2, <2>1
    <3> QED BY <1>1, <3>1
  <2>3. ~(n \div W < rom_height) BY <1>6, <2>1
  <2>4. n * B \in Nat /\ (n * B) \div B = n
    <3>1. 0 \in 0..(B - 1) BY <1>4
    <3>2. n * B \in Nat BY <1>4, <2>1, MulMono
    <3>3. (n * B + 0) \div B = n BY <1>4, <2>1, <3>1, DivOf
    <3>4. n * B + 0 = n * B BY <3>2
    <3> QED BY <3>2, <3>3, <3>4
  <2>5. RomPlace(n * B) = <<base_x + (n % W) + dx, base_y + n \div W + dy>> BY <1>7, <2>1, <2>4
  <2>6. PICK b \in tiles :
          At(b, base_x + (n % W) + dx, base_y + n \div W + dy) /\ b.kind = "ram" /\ b.w = 1 /\ b.h = 1
    BY <2>2, <2>3 DEF Placed
  <2>7. b.x \in Int /\ b.y \in Int
    <3>1. base_x \in Int /\ base_y \in Int BY <1>3 DEF base_x, base_y, config_link
    <3>2. n % W \in Int /\ n \div W \in Int BY <1>6, <2>1
    <3> QED BY <2>6, <3>1, <3>2 DEF At
  <2>8. RomPlace(n * B) = <<b.x, b.y>> BY <2>5, <2>6 DEF At
  <2> QED BY <2>6, <2>7, <2>8 DEF Hit
<1> QED BY <1>8, <1>9 DEF MemoryAgrees

(* Every byte of a program that fits is in the processor where the worker  *)
(* looks for it, and RAM follows the ROM, for every program, width and     *)
(* number of rows, wherever the schematic is moved (MemoryAgrees).         *)
THEOREM MemoryIsFound == BuildSpec => []MemoryAgrees
<1>1. BuildLayoutInv => MemoryAgrees
  <2> SUFFICES ASSUME BuildLayoutInv, phase = "written", Include("memory") PROVE MemoryAgrees
    BY DEF MemoryAgrees
  <2> QED BY WrittenMemory DEF BuildLayoutInv
<1> QED BY <1>1, BuildLayoutHolds, PTL

-----------------------------------------------------------------------------
(* Layout: blocks, links and metadata                                      *)

(* The block of a memory processor that has been placed, below the rest of *)
(* the computer.                                                           *)
OnMemory(b) ==
  /\ b.w = 1 /\ b.h = 1 /\ b.y + 1 <= 0
  /\ \E n \in 0..(filled - 1) : At(b, base_x + (n % config.width), base_y + n \div config.width)

(* Blocks of the CPU, and all blocks that are above the memory.            *)
Cpu == {controller} \union workers
Fixed == PeripheralBlocks \union Cpu

(* Phases with metadata that has not been moved yet.                       *)
Later == {"cpu", "memory", "debugger", "write"}

(* All processors with links that may be placed.                           *)
AllLinks ==
  {<<One("display_proc", 12, 16), DisplayLinks>>, <<controller, ControllerLinks>>}
    \union {<<b, WorkerLinks>> : b \in workers}
    \union (IF Include("debugger") THEN {<<One("debugger", -2, 0), DebuggerLinks>>} ELSE {})

(* Blocks are in zones that do not meet: the peripherals, the CPU to the   *)
(* right, the memory below and the debugger to the left.  What the links   *)
(* and the metadata refer to is there if its part is included.             *)
BlocksInv ==
  /\ phase \notin {"options", "refused"} => ~TooHigh
  /\ phase = "memory" /\ Include("memory") => filled <= config.width * memory_height
  /\ phase \notin {"options", "refused"} /\ Include("memory") => base_y + memory_height <= 0
  /\ NoOverlap
  /\ phase = "cpu" => tiles \subseteq PeripheralBlocks
  /\ phase \in {"memory", "debugger"} => \A b \in tiles : b \in Fixed \/ OnMemory(b)
  /\ phase \in Later /\ Include("peripherals") => PeripheralBlocks \subseteq tiles
  /\ phase \in Later \ {"cpu"} /\ Include("cpu") => Cpu \subseteq tiles
  /\ phase = "write" /\ Include("debugger") => DebuggerBlocks \subseteq tiles
  /\ phase \in Later => links \subseteq AllLinks
  /\ phase \in {"peripherals", "options"} => links = {}
  /\ phase \in Later =>
       /\ DOMAIN meta = DOMAIN PeripheralMeta
       /\ \A key \in DOMAIN meta \ {"cpu", "memory"} : meta[key] = PeripheralMeta[key]
       /\ meta["cpu"] \subseteq (IF Include("cpu") /\ phase # "cpu" THEN {controller_link} ELSE {})
       /\ meta["memory"] \subseteq (IF Include("memory") THEN {<<base_x, base_y>>} ELSE {})
  /\ phase = "written" => LinksHit /\ MetadataHits

(* A block of the rows of peripherals, between two columns.                *)
Within(b, lo, hi) == lo <= b.x /\ b.x + b.w <= hi /\ 16 <= b.y

(* The groups of peripherals, by column.                                   *)
LookupBlocks == {One("lookup", x, y) : x \in 0..3, y \in 16..19}
TableBlocks == {One("label", 4, 19), One("world_cell", 4, 18), One("ram", 4, 17), One("label", 4, 16)}
UartBlocks == {Block("bank", uart_links[u][1], uart_links[u][2], 2, 2) : u \in 1..4}
StateBlocks == {One("cell", 9, 19), One("ram", 9, 18), One("ram", 9, 17), One("config", 9, 16)}
LabelBlocks == {One("label", 10, y) : y \in 16..19}
SwitchBlocks == {One("message", 11, 19)} \union {One("switch", 11, y) : y \in 16..18}
DisplayBlocks ==
  {One("ram", 13, 16), One("ram", 12, 17), One("ram", 13, 17)}
    \union {One("label", 12, 18), One("switch", 13, 18), One("display_proc", 12, 16)}
KeyboardBlocks == IF opts.keyboard THEN {Block("keyboard", 14, 16, 5, 4)} ELSE {}

(* Blocks of one tile that overlap have the same place.                    *)
LEMMA SmallBlocks ==
  ASSUME NEW a, NEW b, NEW kind, NEW kind2, NEW x \in Int, NEW y \in Int, NEW x2 \in Int, NEW y2 \in Int,
         a = One(kind, x, y), b = One(kind2, x2, y2), Overlap(a, b)
  PROVE  x = x2 /\ y = y2
BY DEF One, Block, Overlap

(* The peripherals are these groups.                                       *)
LEMMA PeripheralGroups ==
  PeripheralBlocks = {Block("display", 0, 0, 16, 16)} \union LookupBlocks \union TableBlocks \union UartBlocks
    \union StateBlocks \union LabelBlocks \union SwitchBlocks \union DisplayBlocks \union KeyboardBlocks
BY DEF PeripheralBlocks, LookupBlocks, TableBlocks, UartBlocks, StateBlocks, LabelBlocks, SwitchBlocks,
       DisplayBlocks, KeyboardBlocks

(* The groups are in columns of their own.                                 *)
LEMMA GroupPlaces ==
  /\ \A b \in LookupBlocks : Within(b, 0, 4)
  /\ \A b \in TableBlocks : Within(b, 4, 5)
  /\ \A b \in UartBlocks : Within(b, 5, 9)
  /\ \A b \in StateBlocks : Within(b, 9, 10)
  /\ \A b \in LabelBlocks : Within(b, 10, 11)
  /\ \A b \in SwitchBlocks : Within(b, 11, 12)
  /\ \A b \in DisplayBlocks : Within(b, 12, 14)
  /\ \A b \in KeyboardBlocks : Within(b, 14, 19) /\ opts.keyboard
<1> USE DEF Within, One, Block
<1>1. \A b \in LookupBlocks : Within(b, 0, 4) BY DEF LookupBlocks
<1>2. \A b \in TableBlocks : Within(b, 4, 5) BY DEF TableBlocks
<1>3. \A b \in UartBlocks : Within(b, 5, 9) BY DEF UartBlocks, uart_links
<1>4. \A b \in StateBlocks : Within(b, 9, 10) BY DEF StateBlocks
<1>5. \A b \in LabelBlocks : Within(b, 10, 11) BY DEF LabelBlocks
<1>6. \A b \in SwitchBlocks : Within(b, 11, 12) BY DEF SwitchBlocks
<1>7. \A b \in DisplayBlocks : Within(b, 12, 14) BY DEF DisplayBlocks
<1>8. \A b \in KeyboardBlocks : Within(b, 14, 19) /\ opts.keyboard BY DEF KeyboardBlocks
<1> QED BY <1>1, <1>2, <1>3, <1>4, <1>5, <1>6, <1>7, <1>8

(* No two blocks of a group overlap.                                       *)
LEMMA GroupsDisjoint ==
  /\ \A a, b \in LookupBlocks : Overlap(a, b) => a = b
  /\ \A a, b \in TableBlocks : Overlap(a, b) => a = b
  /\ \A a, b \in UartBlocks : Overlap(a, b) => a = b
  /\ \A a, b \in StateBlocks : Overlap(a, b) => a = b
  /\ \A a, b \in LabelBlocks : Overlap(a, b) => a = b
  /\ \A a, b \in SwitchBlocks : Overlap(a, b) => a = b
  /\ \A a, b \in DisplayBlocks : Overlap(a, b) => a = b
  /\ \A a, b \in KeyboardBlocks : Overlap(a, b) => a = b
<1>1. \A a, b \in LookupBlocks : Overlap(a, b) => a = b
  <2> SUFFICES ASSUME NEW a \in LookupBlocks, NEW b \in LookupBlocks, Overlap(a, b) PROVE a = b OBVIOUS
  <2>1. PICK x \in 0..3, y \in 16..19 : a = One("lookup", x, y) BY DEF LookupBlocks
  <2>2. PICK x2 \in 0..3, y2 \in 16..19 : b = One("lookup", x2, y2) BY DEF LookupBlocks
  <2>3. x = x2 /\ y = y2 BY <2>1, <2>2, SmallBlocks
  <2> QED BY <2>1, <2>2, <2>3
<1>2. \A a, b \in TableBlocks : Overlap(a, b) => a = b BY DEF TableBlocks, One, Block, Overlap
<1>3. \A a, b \in UartBlocks : Overlap(a, b) => a = b
  BY DEF UartBlocks, uart_links, Block, Overlap
<1>4. \A a, b \in StateBlocks : Overlap(a, b) => a = b BY DEF StateBlocks, One, Block, Overlap
<1>5. \A a, b \in LabelBlocks : Overlap(a, b) => a = b
  <2> SUFFICES ASSUME NEW a \in LabelBlocks, NEW b \in LabelBlocks, Overlap(a, b) PROVE a = b OBVIOUS
  <2>1. PICK y \in 16..19 : a = One("label", 10, y) BY DEF LabelBlocks
  <2>2. PICK y2 \in 16..19 : b = One("label", 10, y2) BY DEF LabelBlocks
  <2>3. y = y2 BY <2>1, <2>2, SmallBlocks
  <2> QED BY <2>1, <2>2, <2>3
<1>6. \A a, b \in SwitchBlocks : Overlap(a, b) => a = b BY DEF SwitchBlocks, One, Block, Overlap
<1>7. \A a, b \in DisplayBlocks : Overlap(a, b) => a = b BY DEF DisplayBlocks, One, Block, Overlap
<1>8. \A a, b \in KeyboardBlocks : Overlap(a, b) => a = b BY DEF KeyboardBlocks
<1> QED BY <1>1, <1>2, <1>3, <1>4, <1>5, <1>6, <1>7, <1>8

(* No two peripherals overlap.                                             *)
LEMMA PeripheralsDisjoint == \A a, b \in PeripheralBlocks : a # b => ~Overlap(a, b)
<1> SUFFICES ASSUME NEW a \in PeripheralBlocks, NEW b \in PeripheralBlocks, Overlap(a, b) PROVE a = b OBVIOUS
<1> DEFINE display == Block("display", 0, 0, 16, 16)
<1>1. display.x = 0 /\ display.y = 0 /\ display.w = 16 /\ display.h = 16 BY DEF Block
<1>2. /\ a.x \in Int /\ a.y \in Int /\ a.w \in Nat /\ a.h \in Nat
      /\ b.x \in Int /\ b.y \in Int /\ b.w \in Nat /\ b.h \in Nat
  BY FixedCorners DEF Corner, BlockType
<1>3. /\ a.x < b.x + b.w /\ b.x < a.x + a.w /\ a.y < b.y + b.h /\ b.y < a.y + a.h BY DEF Overlap
<1>4. ASSUME NEW c \in PeripheralBlocks
      PROVE  \/ c = display
             \/ (c \in LookupBlocks /\ Within(c, 0, 4))
             \/ (c \in TableBlocks /\ Within(c, 4, 5))
             \/ (c \in UartBlocks /\ Within(c, 5, 9))
             \/ (c \in StateBlocks /\ Within(c, 9, 10))
             \/ (c \in LabelBlocks /\ Within(c, 10, 11))
             \/ (c \in SwitchBlocks /\ Within(c, 11, 12))
             \/ (c \in DisplayBlocks /\ Within(c, 12, 14))
             \/ (c \in KeyboardBlocks /\ Within(c, 14, 19))
  <2>1. \/ c = display \/ c \in LookupBlocks \/ c \in TableBlocks \/ c \in UartBlocks \/ c \in StateBlocks
        \/ c \in LabelBlocks \/ c \in SwitchBlocks \/ c \in DisplayBlocks \/ c \in KeyboardBlocks
    BY <1>4, PeripheralGroups
  <2> QED BY <2>1, GroupPlaces
<1> HIDE DEF display
<1>5. CASE a = display /\ b # display
  <2>1. 16 <= b.y BY <1>4, <1>5 DEF Within
  <2> QED BY <1>1, <1>2, <1>3, <1>5, <2>1
<1>6. CASE b = display /\ a # display
  <2>1. 16 <= a.y BY <1>4, <1>6 DEF Within
  <2> QED BY <1>1, <1>2, <1>3, <1>6, <2>1
<1>7. CASE a # display /\ b # display
  <2>1. \A lo, hi, lo2, hi2 \in Int : Within(a, lo, hi) /\ Within(b, lo2, hi2) => ~(hi <= lo2) /\ ~(hi2 <= lo)
    BY <1>2, <1>3 DEF Within
  <2> QED BY <1>4, <1>7, <2>1, GroupsDisjoint
<1> QED BY <1>5, <1>6, <1>7

(* Where the CPU, the peripherals and the debugger are.                    *)
LEMMA FixedZones ==
  ASSUME opts \in CommandLines
  PROVE  /\ \A b \in Cpu : (16 <= b.x /\ b.w = 1 /\ 0 <= b.y /\ b.y < Height) \/ b = controller
         /\ \A b \in PeripheralBlocks : 0 <= b.x /\ 0 <= b.y /\ (b.x + b.w <= 16 \/ (opts.keyboard /\ 16 <= b.y))
         /\ \A b \in DebuggerBlocks : b.x + b.w < 0 /\ 0 <= b.y
<1>0. Width \in Nat /\ Height \in Nat BY CommandLinesAssumption DEF Width, Height
<1>1. ASSUME NEW b \in Cpu PROVE (16 <= b.x /\ b.w = 1 /\ 0 <= b.y /\ b.y < Height) \/ b = controller
  <2>1. CASE b \in workers
    <3>1. PICK p \in ((16..(16 + Width - 1)) \X (0..(Height - 1))) \ {controller_link} : b = One("worker", p[1], p[2])
      BY <2>1 DEF workers
    <3>2. p[1] \in 16..(16 + Width - 1) /\ p[2] \in 0..(Height - 1) BY <3>1
    <3> QED BY <1>0, <3>1, <3>2 DEF One, Block
  <2> QED BY <2>1 DEF Cpu
<1>2. ASSUME NEW b \in PeripheralBlocks
      PROVE  0 <= b.x /\ 0 <= b.y /\ (b.x + b.w <= 16 \/ (opts.keyboard /\ 16 <= b.y))
  <2>0. b.x \in Int /\ b.y \in Int /\ b.w \in Nat /\ b.h \in Nat BY FixedCorners DEF Corner, BlockType
  <2>1. CASE b = Block("display", 0, 0, 16, 16) BY <2>1 DEF Block
  <2>2. CASE b \in KeyboardBlocks BY <2>0, <2>2, GroupPlaces DEF Within
  <2>3. CASE \E lo, hi \in Int : 0 <= lo /\ hi <= 16 /\ Within(b, lo, hi) BY <2>0, <2>3 DEF Within
  <2>4. \/ b = Block("display", 0, 0, 16, 16) \/ b \in KeyboardBlocks
        \/ Within(b, 0, 4) \/ Within(b, 4, 5) \/ Within(b, 5, 9) \/ Within(b, 9, 10) \/ Within(b, 10, 11)
        \/ Within(b, 11, 12) \/ Within(b, 12, 14)
    BY PeripheralGroups, GroupPlaces
  <2>5. \/ b = Block("display", 0, 0, 16, 16) \/ b \in KeyboardBlocks
        \/ \E lo, hi \in Int : 0 <= lo /\ hi <= 16 /\ Within(b, lo, hi)
    BY <2>0, <2>4 DEF Within
  <2> QED BY <2>1, <2>2, <2>3, <2>5
<1>3. \A b \in DebuggerBlocks : b.x + b.w < 0 /\ 0 <= b.y BY DEF DebuggerBlocks, One, Block
<1> QED BY <1>1, <1>2, <1>3

(* No two processors of the CPU overlap, because no worker is at the       *)
(* controller's place.                                                     *)
LEMMA CpuDisjoint == ASSUME opts \in CommandLines PROVE \A a, b \in Cpu : a # b => ~Overlap(a, b)
<1> SUFFICES ASSUME NEW a \in Cpu, NEW b \in Cpu, Overlap(a, b) PROVE a = b OBVIOUS
<1>0. Width \in Nat /\ Height \in Nat BY CommandLinesAssumption DEF Width, Height
<1>1. ASSUME NEW c \in Cpu
      PROVE  \E x, y \in Int : c = (IF <<x, y>> = controller_link THEN One("controller", x, y) ELSE One("worker", x, y))
  <2>1. CASE c = controller
    <3>1. controller = One("controller", 16, 0) /\ controller_link = <<16, 0>> BY DEF controller, controller_link
    <3> QED BY <2>1, <3>1
  <2>2. CASE c \in workers
    <3>1. PICK p \in ((16..(16 + Width - 1)) \X (0..(Height - 1))) \ {controller_link} : c = One("worker", p[1], p[2])
      BY <2>2 DEF workers
    <3>2. p[1] \in Int /\ p[2] \in Int /\ p = <<p[1], p[2]>> /\ p # controller_link BY <1>0, <3>1
    <3> QED BY <3>1, <3>2
  <2> QED BY <2>1, <2>2 DEF Cpu
<1>2. PICK x \in Int, y \in Int :
        a = (IF <<x, y>> = controller_link THEN One("controller", x, y) ELSE One("worker", x, y)) BY <1>1
<1>3. PICK x2 \in Int, y2 \in Int :
        b = (IF <<x2, y2>> = controller_link THEN One("controller", x2, y2) ELSE One("worker", x2, y2)) BY <1>1
<1>4. x = x2 /\ y = y2 BY <1>2, <1>3, SmallBlocks
<1> QED BY <1>2, <1>3, <1>4

(* No two blocks of the debugger overlap.                                  *)
LEMMA DebuggerDisjoint == \A a, b \in DebuggerBlocks : a # b => ~Overlap(a, b)
BY DEF DebuggerBlocks, One, Block, Overlap

(* No processor of the CPU reaches the keyboard, because of the limit on   *)
(* the height.                                                             *)
LEMMA CpuIsApart ==
  ASSUME opts \in CommandLines, ~TooHigh, NEW a \in PeripheralBlocks, NEW b \in Cpu
  PROVE  ~Overlap(a, b) /\ ~Overlap(b, a)
<1>0. Height \in Nat BY CommandLinesAssumption DEF Height
<1>1. /\ a.x \in Int /\ a.y \in Int /\ a.w \in Nat /\ a.h \in Nat
      /\ b.x \in Int /\ b.y \in Int /\ b.w \in Nat /\ b.h \in Nat
  BY FixedCorners DEF Cpu, Corner, BlockType
<1>2. 0 <= a.x /\ 0 <= a.y /\ (a.x + a.w <= 16 \/ (opts.keyboard /\ 16 <= a.y)) BY FixedZones
<1>3. 16 <= b.x /\ b.w = 1 /\ b.h = 1 /\ b.y \in Int /\ (b.y < Height \/ b.y = 0)
  <2>1. controller.x = 16 /\ controller.y = 0 /\ controller.w = 1 /\ controller.h = 1
    BY DEF controller, controller_link, One, Block
  <2>2. \A c \in Cpu : c.h = 1 BY DEF Cpu, controller, workers, One, Block
  <2> QED BY <1>1, <2>1, <2>2, FixedZones
<1>4. opts.keyboard => Height <= 16 BY <1>0 DEF TooHigh
<1> QED BY <1>0, <1>1, <1>2, <1>3, <1>4 DEF Overlap

(* What depends only on the options stays the same.                        *)
LEMMA FixedSame ==
  ASSUME opts' = opts
  PROVE  /\ PeripheralBlocks' = PeripheralBlocks /\ Cpu' = Cpu /\ Fixed' = Fixed /\ AllLinks' = AllLinks
         /\ \A part : Include(part)' <=> Include(part)
         /\ TooHigh' <=> TooHigh
<1>1. PeripheralBlocks' = PeripheralBlocks BY DEF PeripheralBlocks
<1>2. workers' = workers BY DEF workers, Width, Height
<1>3. Cpu' = Cpu /\ Fixed' = Fixed BY <1>1, <1>2 DEF Cpu, Fixed
<1>4. \A part : Include(part)' <=> Include(part) BY DEF Include
<1>5. AllLinks' = AllLinks BY <1>2, <1>4 DEF AllLinks
<1>6. TooHigh' <=> TooHigh BY DEF TooHigh, Height
<1> QED BY <1>1, <1>3, <1>4, <1>5, <1>6

(* Adding blocks that are apart.                                           *)
LEMMA UnionDisjoint ==
  ASSUME NoOverlap, NEW S, tiles' = tiles \union S,
         \A a, b \in S : a # b => ~Overlap(a, b), \A a \in tiles, b \in S : ~Overlap(a, b)
  PROVE  NoOverlap'
<1>1. \A a, b : Overlap(a, b) <=> Overlap(b, a) BY DEF Overlap
<1>2. ASSUME NEW a \in tiles', NEW b \in tiles', a # b PROVE ~Overlap(a, b)
  <2>1. CASE a \in tiles /\ b \in tiles BY <1>2, <2>1 DEF NoOverlap
  <2>2. CASE a \in tiles /\ b \in S BY <2>2
  <2>3. CASE a \in S /\ b \in tiles BY <1>1, <2>3
  <2>4. CASE a \in S /\ b \in S BY <1>2, <2>4
  <2> QED BY <2>1, <2>2, <2>3, <2>4
<1> QED BY <1>2 DEF NoOverlap

(* A memory processor stays one.                                           *)
LEMMA OnMemoryStays ==
  ASSUME config' = config, filled \in Nat, filled' \in Nat, filled <= filled', NEW b, OnMemory(b)
  PROVE  OnMemory(b)'
<1>1. base_x' = base_x /\ base_y' = base_y BY DEF base_x, base_y, config_link
<1>2. PICK n \in 0..(filled - 1) : At(b, base_x + (n % config.width), base_y + n \div config.width) BY DEF OnMemory
<1>3. n \in 0..(filled' - 1)
  <2>1. n \in 0..(filled - 1) BY <1>2
  <2>2. filled \in Nat /\ filled' \in Nat /\ filled <= filled' OBVIOUS
  <2>3. \A f, g \in Nat : f <= g /\ n \in 0..(f - 1) => n \in 0..(g - 1) OBVIOUS
  <2> QED BY <2>1, <2>2, <2>3
<1>4. b.w = 1 /\ b.h = 1 /\ b.y + 1 <= 0 BY DEF OnMemory
<1> HIDE DEF base_x, base_y
<1> QED BY <1>1, <1>2, <1>3, <1>4 DEF OnMemory

(* The invariant holds at the start.                                       *)
LEMMA BlocksInitHolds == LayoutInit => BlocksInv
BY DEF LayoutInit, BlocksInv, NoOverlap, Later

(* The memory that the options ask for ends below the config processor's   *)
(* rows.                                                                   *)
LEMMA OptionsBlocks == ASSUME LayoutInv, BlocksInv, CheckOptions PROVE BlocksInv'
<1>1. /\ phase = "options" /\ config' = ConfigOf(opts) /\ phase' \in {"refused", "peripherals"}
      /\ UNCHANGED <<opts, tiles, links, meta, filled, i>>
      /\ phase' = "peripherals" => ~TooHigh
      /\ phase' = "peripherals" /\ Include("memory") => ConfigOf(opts) # Refused
  BY DEF CheckOptions
<1>2. /\ TooHigh' <=> TooHigh
      /\ \A part : Include(part)' <=> Include(part)
  BY <1>1, FixedSame
<1>3. NoOverlap' BY <1>1 DEF BlocksInv, NoOverlap
<1>4. phase' = "peripherals" /\ Include("memory") => (base_y + memory_height)' <= 0
  <2> SUFFICES ASSUME phase' = "peripherals", Include("memory") PROVE (base_y + memory_height)' <= 0 OBVIOUS
  <2> DEFINE c == ConfigOf(opts)
  <2>1. c # Refused /\ opts \in CommandLines BY <1>1 DEF LayoutInv
  <2>2. c \in Configs /\ c.yOffset + Rows(c.programRom, c.dataRom, c.ram, c.icache) <= -16
    BY <2>1, CommandLinesAssumption
  <2> HIDE DEF c
  <2>3. /\ c.yOffset \in Int /\ c.programRom \in Nat /\ c.dataRom \in Nat /\ c.ram \in Nat /\ c.icache \in Nat
    BY <2>2 DEF Configs
  <2>4. config' = c BY <1>1 DEF c
  <2>5. base_y' = 16 + c.yOffset /\ memory_height' = c.programRom + c.dataRom + c.ram + c.icache
    BY <2>4 DEF base_y, config_link, memory_height, rom_height
  <2> QED BY <2>2, <2>3, <2>5 DEF Rows
<1> QED BY <1>1, <1>2, <1>3, <1>4 DEF BlocksInv, Later

(* The peripherals are added.                                              *)
LEMMA PeripheralsBlocks == ASSUME LayoutInv, BlocksInv, AddPeripherals PROVE BlocksInv'
<1> DEFINE S == IF Include("peripherals") THEN PeripheralBlocks ELSE {}
<1>1. /\ phase = "peripherals" /\ phase' = "cpu" /\ tiles' = S /\ meta' = PeripheralMeta
      /\ UNCHANGED <<opts, config, filled, i>>
      /\ links' \subseteq {<<One("display_proc", 12, 16), DisplayLinks>>}
  BY DEF AddPeripherals
<1>2. /\ PeripheralBlocks' = PeripheralBlocks /\ AllLinks' = AllLinks /\ (TooHigh' <=> TooHigh)
      /\ \A part : Include(part)' <=> Include(part)
  BY <1>1, FixedSame
<1>3. NoOverlap' BY <1>1, PeripheralsDisjoint DEF NoOverlap
<1>4. tiles' \subseteq PeripheralBlocks /\ (Include("peripherals") => PeripheralBlocks \subseteq tiles') BY <1>1
<1>5. links' \subseteq AllLinks BY <1>1 DEF AllLinks
<1>6. ~TooHigh /\ (Include("memory") => base_y + memory_height <= 0) BY <1>1 DEF BlocksInv
<1>7. base_y' = base_y /\ memory_height' = memory_height BY <1>1 DEF base_y, memory_height, rom_height, config_link
<1>8. /\ DOMAIN meta' = DOMAIN PeripheralMeta' /\ meta'["cpu"] = {} /\ meta'["memory"] = {} /\ meta' = PeripheralMeta'
  BY <1>1 DEF PeripheralMeta
<1> QED BY <1>1, <1>2, <1>3, <1>4, <1>5, <1>6, <1>7, <1>8 DEF BlocksInv, Later

(* The CPU is added.                                                       *)
LEMMA CpuBlocks == ASSUME LayoutInv, BlocksInv, AddCpu PROVE BlocksInv'
<1> DEFINE S == IF Include("cpu") THEN Cpu ELSE {}
<1>1. /\ phase = "cpu" /\ phase' = "memory" /\ tiles' = tiles \union S
      /\ UNCHANGED <<opts, config, filled, i>>
      /\ meta' = (IF Include("cpu") THEN [meta EXCEPT !.cpu = {controller_link}] ELSE meta)
      /\ links' \subseteq links \union {<<controller, ControllerLinks>>} \union {<<b, WorkerLinks>> : b \in workers}
  BY DEF AddCpu, Cpu
<1>2. /\ PeripheralBlocks' = PeripheralBlocks /\ Cpu' = Cpu /\ Fixed' = Fixed /\ AllLinks' = AllLinks
      /\ (TooHigh' <=> TooHigh) /\ \A part : Include(part)' <=> Include(part)
  BY <1>1, FixedSame
<1>3. /\ opts \in CommandLines /\ ~TooHigh /\ NoOverlap /\ tiles \subseteq PeripheralBlocks
      /\ filled = 0 /\ (Include("memory") => config \in Configs) /\ links \subseteq AllLinks
      /\ (Include("memory") => base_y + memory_height <= 0)
      /\ (Include("peripherals") => PeripheralBlocks \subseteq tiles)
  BY <1>1 DEF LayoutInv, BlocksInv, Later
<1>4. NoOverlap'
  <2>1. \A a, b \in S : a # b => ~Overlap(a, b) BY <1>3, CpuDisjoint
  <2>2. \A a \in tiles, b \in S : ~Overlap(a, b) BY <1>3, CpuIsApart
  <2> HIDE DEF S
  <2> QED BY <1>1, <1>3, <2>1, <2>2, UnionDisjoint
<1>5. \A b \in tiles' : b \in Fixed' BY <1>1, <1>2, <1>3 DEF Fixed
<1>6. links' \subseteq AllLinks BY <1>1, <1>3 DEF AllLinks
<1>7. base_y' = base_y /\ memory_height' = memory_height /\ base_x' = base_x
  BY <1>1 DEF base_x, base_y, memory_height, rom_height, config_link
<1>8. Include("memory") => filled <= config.width * memory_height
  <2> SUFFICES ASSUME Include("memory") PROVE filled <= config.width * memory_height OBVIOUS
  <2>1. config.width \in Nat /\ memory_height \in Nat BY <1>3 DEF Configs, memory_height, rom_height
  <2>2. config.width * memory_height \in Nat BY <2>1, MulMono
  <2> QED BY <1>3, <2>2
<1>9. /\ DOMAIN meta = DOMAIN PeripheralMeta
      /\ \A key \in DOMAIN meta \ {"cpu", "memory"} : meta[key] = PeripheralMeta[key]
      /\ meta["cpu"] \subseteq {}
      /\ meta["memory"] \subseteq (IF Include("memory") THEN {<<base_x, base_y>>} ELSE {})
  BY <1>1 DEF BlocksInv, Later
<1>10. /\ DOMAIN meta' = DOMAIN meta
       /\ \A key \in DOMAIN meta \ {"cpu"} : meta'[key] = meta[key]
       /\ meta'["cpu"] \subseteq (IF Include("cpu") THEN {controller_link} ELSE {})
  <2>1. "cpu" \in DOMAIN meta BY <1>9 DEF PeripheralMeta
  <2> QED BY <1>1, <1>9, <2>1
<1>11. "memory" \in DOMAIN meta BY <1>9 DEF PeripheralMeta
<1>12. PeripheralMeta' = PeripheralMeta /\ controller_link' = controller_link BY DEF PeripheralMeta, controller_link
<1>13. (Include("peripherals") => PeripheralBlocks \subseteq tiles') /\ (Include("cpu") => Cpu \subseteq tiles')
  BY <1>1, <1>3
<1>14. /\ DOMAIN meta' = DOMAIN PeripheralMeta'
       /\ \A key \in DOMAIN meta' \ {"cpu", "memory"} : meta'[key] = PeripheralMeta'[key]
       /\ meta'["memory"] \subseteq (IF Include("memory") THEN {<<base_x', base_y'>>} ELSE {})
  BY <1>7, <1>9, <1>10, <1>11, <1>12
<1>15. filled' <= config'.width * memory_height' \/ ~Include("memory") BY <1>1, <1>7, <1>8
<1>16. ~TooHigh' /\ (Include("memory") => base_y' + memory_height' <= 0) BY <1>2, <1>3, <1>7
<1>17. phase' \in Later \ {"cpu"} /\ phase' = "memory" BY <1>1 DEF Later
<1> HIDE DEF S
<1> QED BY <1>2, <1>4, <1>5, <1>6, <1>10, <1>12, <1>13, <1>14, <1>15, <1>16, <1>17 DEF BlocksInv

(* The places of memory processors are below the rest.                     *)
LEMMA MemoryPlaceIs ==
  ASSUME config \in Configs, filled \in Nat, filled < config.width * memory_height, base_y + memory_height <= 0
  PROVE  /\ config.width \in Nat \ {0} /\ base_x \in Int /\ base_y \in Int
         /\ \A n \in 0..filled : /\ n \div config.width \in Nat /\ n % config.width \in 0..(config.width - 1)
                                 /\ base_y + n \div config.width + 1 <= 0
                                 /\ n = (n \div config.width) * config.width + (n % config.width)
<1>1. /\ config.xOffset \in Int /\ config.yOffset \in Int /\ config.width \in Nat /\ memory_height \in Nat
  BY DEF Configs, rom_height, memory_height
<1>2. base_x \in Int /\ base_y \in Int BY <1>1 DEF base_x, base_y, config_link
<1> DEFINE v == config.width
<1>3. v \in Nat \ {0}
  <2> SUFFICES ASSUME v = 0 PROVE FALSE BY <1>1
  <2>1. v * memory_height = 0 BY <1>1
  <2> QED BY <2>1
<1>4. v * memory_height = memory_height * v /\ memory_height * v \in Nat BY <1>1, <1>3, MulMono
<1>5. filled < memory_height * v BY <1>4
<1> HIDE DEF v
<1>6. ASSUME NEW n \in 0..filled
      PROVE  /\ n \div v \in Nat /\ n % v \in 0..(v - 1) /\ base_y + n \div v + 1 <= 0
             /\ n = (n \div v) * v + (n % v)
  <2>1. n \in Nat /\ n < memory_height * v BY <1>4, <1>5
  <2>2. n \div v < memory_height BY <1>1, <1>3, <2>1, DivLess
  <2>3. n \div v \in Nat /\ n % v \in 0..(v - 1) /\ n = (n \div v) * v + (n % v) BY <1>3, <2>1, DivIs
  <2> QED BY <1>1, <1>2, <2>2, <2>3
<1> QED BY <1>2, <1>3, <1>6 DEF v

(* All that is not memory is above it.                                     *)
LEMMA FixedAbove ==
  ASSUME opts \in CommandLines, NEW b \in Fixed
  PROVE  b \in BlockType /\ 0 <= b.x /\ 0 <= b.y
<1>1. b \in BlockType BY FixedCorners DEF Fixed, Cpu, Corner
<1>2. controller.x = 16 /\ controller.y = 0 BY DEF controller, controller_link, One, Block
<1>3. b.x \in Int /\ b.y \in Int BY <1>1 DEF BlockType
<1> QED BY <1>1, <1>2, <1>3, FixedZones DEF Fixed

(* A memory processor is placed on a tile of its own.                      *)
LEMMA MemoryProcessorBlocks == ASSUME LayoutInv, BlocksInv, AddMemoryProcessor PROVE BlocksInv'
<1> DEFINE p == MemoryPlace(filled)
           new == IF filled \div config.width < rom_height THEN RomBlock(p[1], p[2]) ELSE One("ram", p[1], p[2])
           W == config.width
<1>1. /\ phase = "memory" /\ Include("memory") /\ filled < config.width * memory_height
      /\ tiles' = tiles \union {new}
      /\ filled' = filled + 1 /\ UNCHANGED <<opts, config, links, meta, phase>>
  BY DEF AddMemoryProcessor
<1>2. /\ PeripheralBlocks' = PeripheralBlocks /\ Cpu' = Cpu /\ Fixed' = Fixed /\ AllLinks' = AllLinks
      /\ (TooHigh' <=> TooHigh) /\ \A part : Include(part)' <=> Include(part)
  BY <1>1, FixedSame
<1>3. /\ opts \in CommandLines /\ ~TooHigh /\ NoOverlap /\ filled \in Nat /\ config \in Configs
      /\ links \subseteq AllLinks /\ base_y + memory_height <= 0
      /\ \A b \in tiles : b \in Fixed \/ OnMemory(b)
  BY <1>1 DEF LayoutInv, BlocksInv, Later
<1>4. /\ W \in Nat \ {0} /\ base_x \in Int /\ base_y \in Int
      /\ \A n \in 0..filled : /\ n \div W \in Nat /\ n % W \in 0..(W - 1)
                              /\ base_y + n \div W + 1 <= 0
                              /\ n = (n \div W) * W + (n % W)
  BY <1>1, <1>3, MemoryPlaceIs
<1>5. p[1] = base_x + (filled % W) /\ p[2] = base_y + filled \div W BY DEF MemoryPlace
<1>6. new.x = p[1] /\ new.y = p[2] /\ new.w = 1 /\ new.h = 1 BY DEF RomBlock, One, Block
<1> HIDE DEF new, p
<1>7. filled \div W \in Nat /\ filled % W \in 0..(W - 1) /\ base_y + filled \div W + 1 <= 0
      /\ filled = (filled \div W) * W + (filled % W)
  <2>1. filled \in 0..filled BY <1>3
  <2> QED BY <1>4, <2>1
<1>8. new.x \in Int /\ new.y \in Int /\ new.y + 1 <= 0 BY <1>4, <1>5, <1>6, <1>7
<1>9. ASSUME NEW a \in tiles PROVE ~Overlap(a, new)
  <2>1. CASE a \in Fixed
    <3>1. a.y \in Int /\ 0 <= a.y BY <1>3, <2>1, FixedAbove DEF BlockType
    <3> QED BY <1>6, <1>8, <3>1 DEF Overlap
  <2>2. CASE OnMemory(a)
    <3>1. PICK n \in 0..(filled - 1) : At(a, base_x + (n % W), base_y + n \div W) BY <2>2 DEF OnMemory
    <3>2. a.w = 1 /\ a.h = 1 BY <2>2 DEF OnMemory
    <3>3. n \in 0..filled /\ n # filled BY <1>3, <3>1
    <3>4. n \div W \in Nat /\ n % W \in 0..(W - 1) /\ n = (n \div W) * W + (n % W) BY <1>4, <3>3
    <3> SUFFICES ASSUME Overlap(a, new) PROVE FALSE OBVIOUS
    <3> DEFINE q == n \div W
               r == n % W
               q2 == filled \div W
               r2 == filled % W
    <3>5. /\ a.x = base_x + r /\ a.y = base_y + q /\ new.x = base_x + r2 /\ new.y = base_y + q2
          /\ q \in Nat /\ q2 \in Nat /\ r \in Int /\ r2 \in Int
      BY <1>4, <1>5, <1>6, <1>7, <3>1, <3>4 DEF At
    <3>6. n = q * W + r /\ filled = q2 * W + r2 BY <1>7, <3>4
    <3> HIDE DEF q, r, q2, r2
    <3>7. q = q2 /\ r = r2 BY <1>4, <1>6, <3>2, <3>5 DEF Overlap
    <3> QED BY <3>3, <3>6, <3>7
  <2> QED BY <1>3, <2>1, <2>2
<1>10. NoOverlap'
  <2> DEFINE S == {new}
  <2>1. /\ tiles' = tiles \union S /\ \A a, b \in S : a # b => ~Overlap(a, b)
        /\ \A a \in tiles, b \in S : ~Overlap(a, b)
    BY <1>1, <1>9
  <2> HIDE DEF S
  <2> QED BY <1>3, <2>1, UnionDisjoint
<1>11. \A b \in tiles' : b \in Fixed \/ OnMemory(b)'
  <2> SUFFICES ASSUME NEW b \in tiles', b \notin Fixed PROVE OnMemory(b)' OBVIOUS
  <2>1. CASE b \in tiles
    <3>1. config' = config /\ filled' \in Nat /\ filled <= filled' BY <1>1, <1>3
    <3> QED BY <1>3, <2>1, <3>1, OnMemoryStays
  <2>2. CASE b = new
    <3>1. base_x' = base_x /\ base_y' = base_y /\ config' = config BY <1>1 DEF base_x, base_y, config_link
    <3>2. filled \in 0..(filled' - 1) BY <1>1, <1>3
    <3>3. At(b, base_x + (filled % W), base_y + filled \div W) BY <1>5, <1>6, <2>2 DEF At
    <3> HIDE DEF base_x, base_y
    <3>4. \E n \in 0..(filled' - 1) : At(b, base_x + (n % W), base_y + n \div W) BY <3>2, <3>3
    <3> QED BY <1>6, <1>8, <2>2, <3>1, <3>4 DEF OnMemory
  <2> QED BY <1>1, <2>1, <2>2
<1>12. base_y' = base_y /\ memory_height' = memory_height /\ base_x' = base_x
  BY <1>1 DEF base_x, base_y, memory_height, rom_height, config_link
<1>13. filled' <= config'.width * memory_height'
  <2>1. W \in Nat /\ memory_height \in Nat BY <1>3 DEF Configs, memory_height, rom_height
  <2>2. W * memory_height \in Nat BY <2>1, MulMono
  <2> QED BY <1>1, <1>3, <1>12, <2>2
<1>14. PeripheralMeta' = PeripheralMeta /\ controller_link' = controller_link BY DEF PeripheralMeta, controller_link
<1>15. /\ DOMAIN meta' = DOMAIN PeripheralMeta'
       /\ \A key \in DOMAIN meta' \ {"cpu", "memory"} : meta'[key] = PeripheralMeta'[key]
       /\ meta'["cpu"] \subseteq (IF Include("cpu") THEN {controller_link'} ELSE {})
       /\ meta'["memory"] \subseteq (IF Include("memory") THEN {<<base_x', base_y'>>} ELSE {})
  BY <1>1, <1>12, <1>14 DEF BlocksInv, Later
<1>16. (Include("peripherals") => PeripheralBlocks \subseteq tiles') /\ (Include("cpu") => Cpu \subseteq tiles')
  BY <1>1 DEF BlocksInv, Later
<1>17. phase' \in Later \ {"cpu"} /\ phase' = "memory" BY <1>1 DEF Later
<1>18. base_y' + memory_height' <= 0 /\ ~TooHigh' BY <1>2, <1>3, <1>12
<1>19. links' \subseteq AllLinks BY <1>1, <1>3
<1> QED BY <1>2, <1>10, <1>11, <1>13, <1>15, <1>16, <1>17, <1>18, <1>19 DEF BlocksInv

(* All memory processors have been placed.                                 *)
LEMMA MemoryDoneBlocks == ASSUME LayoutInv, BlocksInv, MemoryDone PROVE BlocksInv'
<1>1. /\ phase = "memory" /\ phase' = "debugger" /\ UNCHANGED <<opts, config, tiles, links, filled, i>>
      /\ meta' = (IF Include("memory") THEN [meta EXCEPT !.memory = {<<base_x, base_y>>}] ELSE meta)
  BY DEF MemoryDone
<1>2. /\ PeripheralBlocks' = PeripheralBlocks /\ Cpu' = Cpu /\ Fixed' = Fixed /\ AllLinks' = AllLinks
      /\ (TooHigh' <=> TooHigh) /\ \A part : Include(part)' <=> Include(part)
  BY <1>1, FixedSame
<1>3. /\ ~TooHigh /\ NoOverlap /\ filled \in Nat
      /\ links \subseteq AllLinks /\ (Include("memory") => base_y + memory_height <= 0)
      /\ \A b \in tiles : b \in Fixed \/ OnMemory(b)
      /\ (Include("peripherals") => PeripheralBlocks \subseteq tiles) /\ (Include("cpu") => Cpu \subseteq tiles)
  BY <1>1 DEF LayoutInv, BlocksInv, Later
<1>4. NoOverlap' BY <1>1, <1>3 DEF NoOverlap
<1>5. \A b \in tiles' : b \in Fixed \/ OnMemory(b)'
  <2>1. config' = config /\ filled' \in Nat /\ filled <= filled' BY <1>1, <1>3
  <2> QED BY <1>1, <1>3, <2>1, OnMemoryStays
<1>6. base_y' = base_y /\ memory_height' = memory_height /\ base_x' = base_x
  BY <1>1 DEF base_x, base_y, memory_height, rom_height, config_link
<1>7. PeripheralMeta' = PeripheralMeta /\ controller_link' = controller_link BY DEF PeripheralMeta, controller_link
<1>8. /\ DOMAIN meta = DOMAIN PeripheralMeta
      /\ \A key \in DOMAIN meta \ {"cpu", "memory"} : meta[key] = PeripheralMeta[key]
      /\ meta["cpu"] \subseteq (IF Include("cpu") THEN {controller_link} ELSE {})
      /\ meta["memory"] \subseteq (IF Include("memory") THEN {<<base_x, base_y>>} ELSE {})
  BY <1>1 DEF BlocksInv, Later
<1>9. "memory" \in DOMAIN meta /\ "cpu" \in DOMAIN meta BY <1>8 DEF PeripheralMeta
<1>10. /\ DOMAIN meta' = DOMAIN meta /\ \A key \in DOMAIN meta \ {"memory"} : meta'[key] = meta[key]
       /\ meta'["memory"] \subseteq (IF Include("memory") THEN {<<base_x, base_y>>} ELSE {})
  BY <1>1, <1>8, <1>9
<1>11. /\ DOMAIN meta' = DOMAIN PeripheralMeta'
       /\ \A key \in DOMAIN meta' \ {"cpu", "memory"} : meta'[key] = PeripheralMeta'[key]
       /\ meta'["cpu"] \subseteq (IF Include("cpu") THEN {controller_link'} ELSE {})
       /\ meta'["memory"] \subseteq (IF Include("memory") THEN {<<base_x', base_y'>>} ELSE {})
  BY <1>6, <1>7, <1>8, <1>9, <1>10
<1>12. phase' \in Later \ {"cpu"} /\ phase' = "debugger" BY <1>1 DEF Later
<1>13. (Include("memory") => base_y' + memory_height' <= 0) /\ ~TooHigh' BY <1>2, <1>3, <1>6
<1>14. links' \subseteq AllLinks /\ tiles' = tiles BY <1>1, <1>3
<1> QED BY <1>2, <1>3, <1>4, <1>5, <1>11, <1>12, <1>13, <1>14 DEF BlocksInv

(* The debugger is added.                                                  *)
LEMMA DebuggerAdds == ASSUME LayoutInv, BlocksInv, AddDebugger PROVE BlocksInv'
<1> DEFINE S == IF Include("debugger") THEN DebuggerBlocks ELSE {}
<1>1. /\ phase = "debugger" /\ phase' = "write" /\ tiles' = tiles \union S
      /\ links' \subseteq links \union (IF Include("debugger") THEN {<<One("debugger", -2, 0), DebuggerLinks>>} ELSE {})
      /\ UNCHANGED <<opts, config, meta, filled, i>>
  BY DEF AddDebugger
<1>2. /\ PeripheralBlocks' = PeripheralBlocks /\ Cpu' = Cpu /\ Fixed' = Fixed /\ AllLinks' = AllLinks
      /\ (TooHigh' <=> TooHigh) /\ \A part : Include(part)' <=> Include(part)
  BY <1>1, FixedSame
<1>3. /\ opts \in CommandLines /\ ~TooHigh /\ NoOverlap
      /\ links \subseteq AllLinks /\ (Include("memory") => base_y + memory_height <= 0)
      /\ \A b \in tiles : b \in Fixed \/ OnMemory(b)
      /\ (Include("peripherals") => PeripheralBlocks \subseteq tiles) /\ (Include("cpu") => Cpu \subseteq tiles)
  BY <1>1 DEF LayoutInv, BlocksInv, Later
<1>4. PICK lo \in Int : \A b \in tiles : Corner(b, lo) BY <1>1 DEF LayoutInv, Before
<1>5. ASSUME NEW a \in tiles, NEW b \in DebuggerBlocks PROVE ~Overlap(a, b)
  <2>1. b \in BlockType /\ b.x + b.w < 0 /\ 0 <= b.y BY <1>3, FixedCorners, FixedZones DEF Corner
  <2>2. a \in BlockType BY <1>4 DEF Corner
  <2>3. /\ a.x \in Int /\ a.y \in Int /\ a.w \in Nat /\ a.h \in Nat
        /\ b.x \in Int /\ b.y \in Int /\ b.w \in Nat /\ b.h \in Nat
    BY <2>1, <2>2 DEF BlockType
  <2>4. 0 <= a.x \/ a.y + a.h <= 0 BY <1>3, FixedAbove DEF OnMemory
  <2> QED BY <2>1, <2>3, <2>4 DEF Overlap
<1>6. NoOverlap'
  <2>1. \A a, b \in S : a # b => ~Overlap(a, b) BY DebuggerDisjoint
  <2>2. \A a \in tiles, b \in S : ~Overlap(a, b) BY <1>5
  <2> HIDE DEF S
  <2> QED BY <1>1, <1>3, <2>1, <2>2, UnionDisjoint
<1>7. base_y' = base_y /\ memory_height' = memory_height /\ base_x' = base_x
  BY <1>1 DEF base_x, base_y, memory_height, rom_height, config_link
<1>8. PeripheralMeta' = PeripheralMeta /\ controller_link' = controller_link /\ DebuggerBlocks' = DebuggerBlocks
  BY DEF PeripheralMeta, controller_link, DebuggerBlocks
<1>9. /\ DOMAIN meta' = DOMAIN PeripheralMeta'
      /\ \A key \in DOMAIN meta' \ {"cpu", "memory"} : meta'[key] = PeripheralMeta'[key]
      /\ meta'["cpu"] \subseteq (IF Include("cpu") THEN {controller_link'} ELSE {})
      /\ meta'["memory"] \subseteq (IF Include("memory") THEN {<<base_x', base_y'>>} ELSE {})
  BY <1>1, <1>7, <1>8 DEF BlocksInv, Later
<1>10. links' \subseteq AllLinks BY <1>1, <1>3 DEF AllLinks
<1>11. phase' \in Later \ {"cpu"} /\ phase' = "write" BY <1>1 DEF Later
<1>12. /\ (Include("peripherals") => PeripheralBlocks \subseteq tiles') /\ (Include("cpu") => Cpu \subseteq tiles')
       /\ (Include("debugger") => DebuggerBlocks' \subseteq tiles')
  BY <1>1, <1>3, <1>8
<1>13. (Include("memory") => base_y' + memory_height' <= 0) /\ ~TooHigh' BY <1>2, <1>3, <1>7
<1> HIDE DEF S
<1> QED BY <1>2, <1>6, <1>9, <1>10, <1>11, <1>12, <1>13 DEF BlocksInv

(* A point is within a block.                                              *)
In(point, b) == b.x <= point[1] /\ point[1] < b.x + b.w /\ b.y <= point[2] /\ point[2] < b.y + b.h

(* The points that the links of the processors refer to.                   *)
LookupPoints == {<<x, y>> : x \in 0..3, y \in 16..19}
UartPoints == {<<5, 18>>, <<5, 16>>, <<7, 18>>, <<7, 16>>}
StatePoints ==
  {<<4, 18>>, <<4, 17>>, <<9, 19>>, <<9, 18>>, <<9, 17>>, <<9, 16>>,
   <<11, 19>>, <<11, 18>>, <<11, 17>>, <<11, 16>>}
DisplayPoints == {<<13, 16>>, <<12, 17>>, <<13, 17>>, <<13, 18>>, <<0, 0>>}
Points == LookupPoints \union UartPoints \union StatePoints \union DisplayPoints
DebuggerPoints == Points \union {<<16, 0>>, <<-3, 0>>, <<-2, 1>>}

(* They are never the places of the processors that refer to them.         *)
LEMMA PointsAre ==
  /\ \A point \in Points : point \in Int \X Int /\ point[1] < 16 /\ point # <<12, 16>> /\ point # <<-2, 0>>
  /\ \A point \in DebuggerPoints : point \in Int \X Int /\ point # <<-2, 0>>
BY DEF Points, DebuggerPoints, LookupPoints, UartPoints, StatePoints, DisplayPoints

(* They are on peripherals that are no labels.                             *)
LEMMA PointsHit == \A point \in Points : \E b \in PeripheralBlocks : b.kind # "label" /\ In(point, b)
<1>1. ASSUME NEW point \in LookupPoints PROVE \E b \in PeripheralBlocks : b.kind # "label" /\ In(point, b)
  <2>1. PICK x \in 0..3, y \in 16..19 : point = <<x, y>> BY DEF LookupPoints
  <2>2. One("lookup", x, y) \in PeripheralBlocks BY PeripheralGroups DEF LookupBlocks
  <2>3. One("lookup", x, y).kind # "label" /\ In(point, One("lookup", x, y)) BY <2>1 DEF One, Block, In
  <2> QED BY <2>2, <2>3
<1>2. ASSUME NEW point \in UartPoints PROVE \E b \in PeripheralBlocks : b.kind # "label" /\ In(point, b)
  <2>1. PICK u \in 1..4 : point = uart_links[u] BY DEF UartPoints, uart_links
  <2> DEFINE b == Block("bank", uart_links[u][1], uart_links[u][2], 2, 2)
  <2>2. b \in PeripheralBlocks BY PeripheralGroups DEF UartBlocks
  <2>3. b.kind # "label" /\ In(point, b)
    <3>1. uart_links[u][1] \in Int /\ uart_links[u][2] \in Int BY DEF uart_links
    <3> QED BY <2>1, <3>1 DEF Block, In
  <2> QED BY <2>2, <2>3
<1>3. ASSUME NEW point \in StatePoints PROVE \E b \in PeripheralBlocks : b.kind # "label" /\ In(point, b)
  <2>1. \E kind \in {"world_cell", "ram", "cell", "config", "message", "switch"} :
          One(kind, point[1], point[2]) \in TableBlocks \union StateBlocks \union SwitchBlocks
    <3>1. CASE point = <<4, 18>> BY <3>1 DEF TableBlocks
    <3>2. CASE point = <<4, 17>> BY <3>2 DEF TableBlocks
    <3>3. CASE point = <<9, 19>> BY <3>3 DEF StateBlocks
    <3>4. CASE point \in {<<9, 18>>, <<9, 17>>} BY <3>4 DEF StateBlocks
    <3>5. CASE point = <<9, 16>> BY <3>5 DEF StateBlocks
    <3>6. CASE point = <<11, 19>> BY <3>6 DEF SwitchBlocks
    <3>7. CASE point \in {<<11, 18>>, <<11, 17>>, <<11, 16>>} BY <3>7 DEF SwitchBlocks
    <3> QED BY <3>1, <3>2, <3>3, <3>4, <3>5, <3>6, <3>7 DEF StatePoints
  <2>2. PICK kind \in {"world_cell", "ram", "cell", "config", "message", "switch"} :
          One(kind, point[1], point[2]) \in TableBlocks \union StateBlocks \union SwitchBlocks
    BY <2>1
  <2>3. One(kind, point[1], point[2]) \in PeripheralBlocks BY <2>2, PeripheralGroups
  <2>4. point[1] \in Int /\ point[2] \in Int BY DEF StatePoints
  <2>5. One(kind, point[1], point[2]).kind # "label" /\ In(point, One(kind, point[1], point[2]))
    BY <2>4 DEF One, Block, In
  <2> QED BY <2>3, <2>5
<1>4. ASSUME NEW point \in DisplayPoints PROVE \E b \in PeripheralBlocks : b.kind # "label" /\ In(point, b)
  <2>1. PICK b \in DisplayBlocks \union {Block("display", 0, 0, 16, 16)} : b.kind # "label" /\ In(point, b)
    BY DEF DisplayPoints, DisplayBlocks, One, Block, In
  <2>2. b \in PeripheralBlocks BY PeripheralGroups
  <2> QED BY <2>1, <2>2
<1> QED BY <1>1, <1>2, <1>3, <1>4 DEF Points

(* Appending to links keeps the first 16.                                  *)
LEMMA ConcatIs ==
  ASSUME NEW S, NEW s \in Seq(S), NEW t \in Seq(S), Len(s) >= 16
  PROVE  s \o t \in Seq(S) /\ Len(s \o t) >= 16 /\ \A n \in 1..16 : (s \o t)[n] = s[n]
OBVIOUS

(* Links to points of S that start with the lookup tables.                 *)
Starts(s, S) == s \in Seq(S) /\ Len(s) >= 16 /\ \A n \in 1..16 : s[n] = lookup_links[n]

(* Appending to such links.                                                *)
LEMMA StartsConcat ==
  ASSUME NEW S, NEW s, NEW t \in Seq(S), Starts(s, S)
  PROVE  Starts(s \o t, S)
<1>1. s \in Seq(S) /\ Len(s) >= 16 /\ \A n \in 1..16 : s[n] = lookup_links[n] BY DEF Starts
<1>2. s \o t \in Seq(S) /\ Len(s \o t) >= 16 /\ \A n \in 1..16 : (s \o t)[n] = s[n] BY <1>1, ConcatIs
<1> HIDE DEF lookup_links
<1> QED BY <1>1, <1>2 DEF Starts

(* The links of every processor start with the lookup tables.              *)
LEMMA LinksAre ==
  /\ Starts(DisplayLinks, Points) /\ Starts(ControllerLinks, Points)
  /\ Starts(WorkerLinks, Points \union {<<16, 0>>})
  /\ Starts(DebuggerLinks, DebuggerPoints)
<1>1. ASSUME NEW S, Points \subseteq S
      PROVE  Starts(lookup_links, S) /\ uart_links \in Seq(S) /\ Starts(lookup_links \o uart_links, S)
  <2>1. lookup_links \in Seq(S) /\ Len(lookup_links) = 16
    <3>1. \A n \in 1..16 : <<(n - 1) % 4, 16 + (n - 1) \div 4>> \in LookupPoints
      <4> TAKE n \in 1..16
      <4>1. (n - 1) % 4 \in 0..3 /\ 16 + (n - 1) \div 4 \in 16..19 OBVIOUS
      <4> QED BY <4>1 DEF LookupPoints
    <3>2. lookup_links \in [1..16 -> S] BY <1>1, <3>1 DEF lookup_links, Points
    <3> HIDE DEF lookup_links
    <3>3. lookup_links \in Seq(S) BY <3>2, SeqDef
    <3>4. DOMAIN lookup_links = 1..16 BY <3>2
    <3> QED BY <3>3, <3>4
  <2>2. Starts(lookup_links, S) BY <2>1 DEF Starts
  <2>3. uart_links \in Seq(S) BY <1>1 DEF uart_links, Points, UartPoints
  <2> QED BY <2>2, <2>3, StartsConcat
<1>2. ASSUME NEW S, Points \subseteq S PROVE Starts(SharedLinks, S)
  <2>1. <<registers_link, labels_link, csrs_link, incr_link, config_link, csr_labels_link>> \in Seq(S)
    BY <1>2 DEF Points, StatePoints, registers_link, labels_link, csrs_link, incr_link, config_link, csr_labels_link
  <2> QED BY <1>1, <1>2, <2>1, StartsConcat DEF SharedLinks
<1>3. Starts(DisplayLinks, Points)
  <2>1. << <<13, 16>>, <<12, 17>>, <<13, 17>>, config_link, <<13, 18>>, power_switch_link, uart_links[1], <<0, 0>> >>
          \in Seq(Points)
    BY DEF Points, StatePoints, UartPoints, DisplayPoints, config_link, power_switch_link, uart_links
  <2> QED BY <1>1, <2>1, StartsConcat DEF DisplayLinks
<1>4. Starts(ControllerLinks, Points)
  <2>1. <<error_output_link, power_switch_link, pause_switch_link, single_step_switch_link>> \in Seq(Points)
    BY DEF Points, StatePoints, error_output_link, power_switch_link, pause_switch_link, single_step_switch_link
  <2> QED BY <1>2, <2>1, StartsConcat DEF ControllerLinks
<1>5. Starts(WorkerLinks, Points \union {<<16, 0>>})
  <2> DEFINE S == Points \union {<<16, 0>>}
  <2>1. <<controller_link, error_output_link>> \in Seq(S)
    BY DEF Points, StatePoints, controller_link, error_output_link
  <2>2. Points \subseteq S OBVIOUS
  <2> HIDE DEF S
  <2>3. Starts(WorkerLinks, S) BY <1>2, <2>1, <2>2, StartsConcat DEF WorkerLinks
  <2> QED BY <2>3 DEF S
<1>6. Starts(DebuggerLinks, DebuggerPoints)
  <2>1. <<controller_link, csrs_link, registers_link, <<-3, 0>>, <<-2, 1>> >> \in Seq(DebuggerPoints)
    BY DEF DebuggerPoints, Points, StatePoints, controller_link, csrs_link, registers_link
  <2>2. Points \subseteq DebuggerPoints BY DEF DebuggerPoints
  <2> QED BY <1>1, <2>1, <2>2, StartsConcat DEF DebuggerLinks
<1> QED BY <1>3, <1>4, <1>5, <1>6

(* The links of a processor start with the lookup tables, are on blocks,   *)
(* and not on itself.                                                      *)
Reached(l) ==
  /\ l[1] \in BlockType /\ Len(l[2]) >= 16 /\ l[2] \in Seq(Int \X Int)
  /\ \A n \in 1..16 : l[2][n] = lookup_links[n]
  /\ \A n \in DOMAIN l[2] :
       /\ l[2][n] # <<l[1].x, l[1].y>>
       /\ \E b \in tiles : b.kind # "label" /\ In(l[2][n], b)

(* It is enough that the points are on blocks.                             *)
LEMMA ReachedFrom ==
  ASSUME NEW S, NEW b, NEW s, Starts(s, S), b \in BlockType, S \subseteq Int \X Int, <<b.x, b.y>> \notin S,
         \A point \in S : \E c \in tiles : c.kind # "label" /\ In(point, c)
  PROVE  Reached(<<b, s>>)
<1>1. s \in Seq(S) /\ Len(s) >= 16 /\ \A n \in 1..16 : s[n] = lookup_links[n] BY DEF Starts
<1>2. \A n \in DOMAIN s : s[n] \in S BY <1>1
<1>3. s \in Seq(Int \X Int) BY <1>1, SeqMonotonic
<1> DEFINE l == <<b, s>>
<1>4. l[1] = b /\ l[2] = s OBVIOUS
<1> HIDE DEF l, lookup_links, In
<1>5. Reached(l) BY <1>1, <1>2, <1>3, <1>4 DEF Reached
<1> QED BY <1>5 DEF l

(* So it is for every processor of a complete computer.                    *)
LEMMA LinksReach ==
  ASSUME opts \in CommandLines, PeripheralBlocks \subseteq tiles, Cpu \subseteq tiles,
         Include("debugger") => DebuggerBlocks \subseteq tiles
  PROVE  \A l \in AllLinks : Reached(l)
<1> DEFINE OnTile(point) == \E c \in tiles : c.kind # "label" /\ In(point, c)
<1>1. \A point \in Points : OnTile(point) BY PointsHit
<1>2. OnTile(<<16, 0>>)
  <2>1. controller \in tiles BY DEF Cpu
  <2>2. controller.kind # "label" /\ In(<<16, 0>>, controller) BY DEF controller, controller_link, One, Block, In
  <2> QED BY <2>1, <2>2
<1>3. Points \subseteq Int \X Int /\ Points \union {<<16, 0>>} \subseteq Int \X Int /\ DebuggerPoints \subseteq Int \X Int
  BY PointsAre
<1>4. Reached(<<One("display_proc", 12, 16), DisplayLinks>>)
  <2> DEFINE b == One("display_proc", 12, 16)
  <2>1. b.x = 12 /\ b.y = 16 /\ b \in BlockType BY DEF One, Block, BlockType, Kinds
  <2>2. <<b.x, b.y>> \notin Points BY <2>1, PointsAre
  <2> HIDE DEF b
  <2>3. Reached(<<b, DisplayLinks>>) BY <1>1, <1>3, <2>1, <2>2, LinksAre, ReachedFrom
  <2> QED BY <2>3 DEF b
<1>5. Reached(<<controller, ControllerLinks>>)
  <2>1. controller.x = 16 /\ controller.y = 0 BY DEF controller, controller_link, One, Block
  <2>2. <<controller.x, controller.y>> \notin Points
    <3>1. <<16, 0>> \notin Points BY PointsAre
    <3> QED BY <2>1, <3>1
  <2>3. controller \in BlockType BY FixedCorners DEF Corner
  <2> QED BY <1>1, <1>3, <2>2, <2>3, LinksAre, ReachedFrom
<1>6. ASSUME NEW b \in workers PROVE Reached(<<b, WorkerLinks>>)
  <2>1. PICK p \in ((16..(16 + Width - 1)) \X (0..(Height - 1))) \ {controller_link} : b = One("worker", p[1], p[2])
    BY DEF workers
  <2>2. Width \in Nat /\ Height \in Nat BY CommandLinesAssumption DEF Width, Height
  <2>3. p = <<p[1], p[2]>> /\ p # <<16, 0>> /\ p[1] \in Int /\ 16 <= p[1] BY <2>1, <2>2 DEF controller_link
  <2>4. b.x = p[1] /\ b.y = p[2] BY <2>1 DEF One, Block
  <2>5. <<b.x, b.y>> \notin Points \union {<<16, 0>>}
    <3>1. p \notin Points BY <2>3, PointsAre
    <3> QED BY <2>3, <2>4, <3>1
  <2>6. b \in BlockType BY FixedCorners DEF Corner
  <2> DEFINE S == Points \union {<<16, 0>>}
  <2>7. /\ S \subseteq Int \X Int /\ <<b.x, b.y>> \notin S /\ \A point \in S : OnTile(point)
    BY <1>1, <1>2, <1>3, <2>5
  <2>8. Starts(WorkerLinks, S) BY LinksAre
  <2> HIDE DEF S
  <2> QED BY <2>6, <2>7, <2>8, ReachedFrom
<1>7. ASSUME Include("debugger") PROVE Reached(<<One("debugger", -2, 0), DebuggerLinks>>)
  <2> DEFINE b == One("debugger", -2, 0)
  <2>1. b.x = -2 /\ b.y = 0 /\ b \in BlockType BY DEF One, Block, BlockType, Kinds
  <2>2. <<b.x, b.y>> \notin DebuggerPoints BY <2>1, PointsAre
  <2>3. OnTile(<<-3, 0>>)
    <3> DEFINE c == Block("display", -18, 0, 16, 16)
    <3>1. c \in tiles BY <1>7 DEF DebuggerBlocks
    <3>2. c.kind # "label" /\ In(<<-3, 0>>, c) BY DEF Block, In
    <3> QED BY <3>1, <3>2
  <2>4. OnTile(<<-2, 1>>)
    <3> DEFINE c == One("switch", -2, 1)
    <3>1. c \in tiles BY <1>7 DEF DebuggerBlocks
    <3>2. c.kind # "label" /\ In(<<-2, 1>>, c) BY DEF One, Block, In
    <3> QED BY <3>1, <3>2
  <2>5. \A point \in DebuggerPoints : OnTile(point) BY <1>1, <1>2, <2>3, <2>4 DEF DebuggerPoints
  <2> HIDE DEF b
  <2>6. Reached(<<b, DebuggerLinks>>) BY <1>3, <2>1, <2>2, <2>5, LinksAre, ReachedFrom
  <2> QED BY <2>6 DEF b
<1> QED BY <1>4, <1>5, <1>6, <1>7 DEF AllLinks

(* A block that is moved.                                                  *)
Move(b, x, y) == [b EXCEPT !.x = b.x + x, !.y = b.y + y]

(* Its place and its size.                                                 *)
LEMMA MoveIs ==
  ASSUME NEW b \in BlockType, NEW x \in Int, NEW y \in Int
  PROVE  /\ Move(b, x, y).x = b.x + x /\ Move(b, x, y).y = b.y + y
         /\ Move(b, x, y).w = b.w /\ Move(b, x, y).h = b.h /\ Move(b, x, y).kind = b.kind
         /\ b.x \in Int /\ b.y \in Int /\ b.w \in Nat /\ b.h \in Nat
BY DEF Move, BlockType

(* Points within a block move with it.                                     *)
LEMMA MoveIn ==
  ASSUME NEW b \in BlockType, NEW x \in Int, NEW y \in Int, NEW p \in Int, NEW q \in Int, In(<<p, q>>, b)
  PROVE  In(<<p + x, q + y>>, Move(b, x, y))
<1>1. b.x <= p /\ p < b.x + b.w /\ b.y <= q /\ q < b.y + b.h BY DEF In
<1> DEFINE m == Move(b, x, y)
<1>2. m.x = b.x + x /\ m.y = b.y + y /\ m.w = b.w /\ m.h = b.h /\ b.x \in Int /\ b.y \in Int /\ b.w \in Nat /\ b.h \in Nat
  BY MoveIs
<1> HIDE DEF m
<1>3. m.x <= p + x /\ p + x < m.x + m.w /\ m.y <= q + y /\ q + y < m.y + m.h BY <1>1, <1>2
<1>4. In(<<p + x, q + y>>, m) BY <1>3 DEF In
<1> QED BY <1>4 DEF m

(* Blocks that overlap did so before.                                      *)
LEMMA MoveOverlap ==
  ASSUME NEW a \in BlockType, NEW b \in BlockType, NEW x \in Int, NEW y \in Int,
         Overlap(Move(a, x, y), Move(b, x, y))
  PROVE  Overlap(a, b)
<1> DEFINE m == Move(a, x, y)
           n == Move(b, x, y)
<1>1. /\ m.x = a.x + x /\ m.y = a.y + y /\ m.w = a.w /\ m.h = a.h
      /\ a.x \in Int /\ a.y \in Int /\ a.w \in Nat /\ a.h \in Nat BY MoveIs
<1>2. /\ n.x = b.x + x /\ n.y = b.y + y /\ n.w = b.w /\ n.h = b.h
      /\ b.x \in Int /\ b.y \in Int /\ b.w \in Nat /\ b.h \in Nat BY MoveIs
<1>3. Overlap(m, n) OBVIOUS
<1> HIDE DEF m, n
<1> QED BY <1>1, <1>2, <1>3 DEF Overlap

(* The lookup tables are in rows of four.                                  *)
LEMMA LookupOrder ==
  \A n \in 1..15 :
    \/ lookup_links[n][2] = lookup_links[n + 1][2] /\ lookup_links[n + 1][1] = lookup_links[n][1] + 1
    \/ /\ lookup_links[n + 1][2] = lookup_links[n][2] + 1 /\ lookup_links[n + 1][1] = lookup_links[n][1] - 3
       /\ n % 4 = 0
<1> TAKE n \in 1..15
<1>1. n \in 1..16 /\ n + 1 \in 1..16 /\ (n + 1) - 1 = n OBVIOUS
<1>2. /\ lookup_links[n] = <<(n - 1) % 4, 16 + (n - 1) \div 4>>
      /\ lookup_links[n + 1] = <<n % 4, 16 + n \div 4>>
  BY <1>1 DEF lookup_links
<1>3. \/ 16 + (n - 1) \div 4 = 16 + n \div 4 /\ n % 4 = ((n - 1) % 4) + 1
      \/ 16 + n \div 4 = 16 + (n - 1) \div 4 + 1 /\ n % 4 = ((n - 1) % 4) - 3 /\ n % 4 = 0
  OBVIOUS
<1> QED BY <1>2, <1>3

(* The links to lookup tables are on lookup tables.                        *)
LEMMA LookupHit ==
  \A n \in 1..16 : /\ lookup_links[n] \in Int \X Int
                   /\ \E b \in PeripheralBlocks : b.kind = "lookup" /\ In(lookup_links[n], b)
<1> TAKE n \in 1..16
<1> DEFINE x == (n - 1) % 4
           y == 16 + (n - 1) \div 4
<1>1. x \in 0..3 /\ y \in 16..19 OBVIOUS
<1>2. lookup_links[n] = <<x, y>> BY DEF lookup_links
<1> HIDE DEF x, y
<1>3. One("lookup", x, y) \in PeripheralBlocks BY <1>1, PeripheralGroups DEF LookupBlocks
<1>4. One("lookup", x, y).kind = "lookup" /\ In(<<x, y>>, One("lookup", x, y)) BY <1>1 DEF One, Block, In
<1> QED BY <1>1, <1>2, <1>3, <1>4

(* The points of the metadata are on the blocks they name.                 *)
LEMMA MetaHit ==
  /\ \A p \in PeripheralMeta.uarts : \E b \in PeripheralBlocks : b.kind = "bank" /\ <<b.x, b.y>> = p
  /\ \A p \in PeripheralMeta.registers : \E b \in PeripheralBlocks : b.kind \in {"cell"} /\ In(p, b)
  /\ \A p \in PeripheralMeta.csrs : \E b \in PeripheralBlocks : b.kind \in {"ram"} /\ In(p, b)
  /\ \A p \in PeripheralMeta.config : \E b \in PeripheralBlocks : b.kind \in {"config"} /\ In(p, b)
  /\ \A p \in PeripheralMeta.error_output : \E b \in PeripheralBlocks : b.kind \in {"message"} /\ In(p, b)
  /\ \A p \in PeripheralMeta.switches : \E b \in PeripheralBlocks : b.kind \in {"switch"} /\ In(p, b)
<1>1. \A p \in PeripheralMeta.uarts : \E b \in PeripheralBlocks : b.kind = "bank" /\ <<b.x, b.y>> = p
  <2> SUFFICES ASSUME NEW u \in 1..4
               PROVE  \E b \in PeripheralBlocks : b.kind = "bank" /\ <<b.x, b.y>> = uart_links[u]
    BY DEF PeripheralMeta
  <2> DEFINE b == Block("bank", uart_links[u][1], uart_links[u][2], 2, 2)
  <2>1. b \in PeripheralBlocks BY PeripheralGroups DEF UartBlocks
  <2>2. b.kind = "bank" /\ b.x = uart_links[u][1] /\ b.y = uart_links[u][2] BY DEF Block
  <2>3. uart_links[u] = <<uart_links[u][1], uart_links[u][2]>> BY DEF uart_links
  <2> HIDE DEF b
  <2> QED BY <2>1, <2>2, <2>3
<1>2. ASSUME NEW x \in Int, NEW y \in Int, NEW kind, One(kind, x, y) \in PeripheralBlocks
      PROVE  \E b \in PeripheralBlocks : b.kind \in {kind} /\ In(<<x, y>>, b)
  <2>1. One(kind, x, y).kind = kind /\ In(<<x, y>>, One(kind, x, y)) BY DEF One, Block, In
  <2> QED BY <1>2, <2>1
<1>3. /\ One("cell", 9, 19) \in PeripheralBlocks /\ One("ram", 9, 18) \in PeripheralBlocks
      /\ One("config", 9, 16) \in PeripheralBlocks
  BY PeripheralGroups DEF StateBlocks
<1>4. /\ One("message", 11, 19) \in PeripheralBlocks
      /\ \A y \in 16..18 : One("switch", 11, y) \in PeripheralBlocks
  BY PeripheralGroups DEF SwitchBlocks
<1>5. /\ PeripheralMeta.registers = {<<9, 19>>} /\ PeripheralMeta.csrs = {<<9, 18>>}
      /\ PeripheralMeta.config = {<<9, 16>>} /\ PeripheralMeta.error_output = {<<11, 19>>}
      /\ PeripheralMeta.switches = {<<11, 18>>, <<11, 17>>, <<11, 16>>}
  BY DEF PeripheralMeta, registers_link, csrs_link, config_link, error_output_link, power_switch_link,
         pause_switch_link, single_step_switch_link
<1>6. \A p \in PeripheralMeta.registers : \E b \in PeripheralBlocks : b.kind \in {"cell"} /\ In(p, b)
  BY <1>2, <1>3, <1>5
<1>7. \A p \in PeripheralMeta.csrs : \E b \in PeripheralBlocks : b.kind \in {"ram"} /\ In(p, b)
  BY <1>2, <1>3, <1>5
<1>8. \A p \in PeripheralMeta.config : \E b \in PeripheralBlocks : b.kind \in {"config"} /\ In(p, b)
  BY <1>2, <1>3, <1>5
<1>9. \A p \in PeripheralMeta.error_output : \E b \in PeripheralBlocks : b.kind \in {"message"} /\ In(p, b)
  BY <1>2, <1>4, <1>5
<1>10. \A p \in PeripheralMeta.switches : \E b \in PeripheralBlocks : b.kind \in {"switch"} /\ In(p, b)
  <2>1. \A y \in 16..18 : \E b \in PeripheralBlocks : b.kind \in {"switch"} /\ In(<<11, y>>, b) BY <1>2, <1>4
  <2> QED BY <1>5, <2>1
<1> QED BY <1>1, <1>6, <1>7, <1>8, <1>9, <1>10

(* Blocks, links and metadata are moved by the same offset, to coordinates *)
(* that are not negative.                                                  *)
LEMMA WriteBlocks == ASSUME LayoutInv, BlocksInv, WriteSchematic PROVE BlocksInv'
<1>1. phase = "write" /\ UNCHANGED <<opts, config, filled, i>> BY DEF WriteSchematic
<1>2. /\ PeripheralBlocks' = PeripheralBlocks /\ (TooHigh' <=> TooHigh) /\ \A part : Include(part)' <=> Include(part)
  BY <1>1, FixedSame
<1>3. /\ opts \in CommandLines /\ filled \in Nat /\ ~TooHigh /\ NoOverlap
      /\ (Include("memory") => config \in Configs)
      /\ (Include("memory") => \A n \in 0..(filled - 1) : Placed(n, 0, 0))
      /\ links \subseteq AllLinks /\ (Include("memory") => base_y + memory_height <= 0)
      /\ (Include("peripherals") => PeripheralBlocks \subseteq tiles) /\ (Include("cpu") => Cpu \subseteq tiles)
      /\ (Include("debugger") => DebuggerBlocks \subseteq tiles)
  BY <1>1 DEF LayoutInv, BlocksInv, Later, Before
<1>4. /\ DOMAIN meta = DOMAIN PeripheralMeta
      /\ \A key \in DOMAIN meta \ {"cpu", "memory"} : meta[key] = PeripheralMeta[key]
      /\ meta["cpu"] \subseteq (IF Include("cpu") THEN {controller_link} ELSE {})
      /\ meta["memory"] \subseteq (IF Include("memory") THEN {<<base_x, base_y>>} ELSE {})
  BY <1>1 DEF BlocksInv, Later
<1>5. base_y' = base_y /\ memory_height' = memory_height
  BY <1>1 DEF base_y, memory_height, rom_height, config_link
<1>6. CASE tiles = {}
  <2>1. phase' = "empty" /\ tiles' = tiles BY <1>6 DEF WriteSchematic
  <2>2. NoOverlap' BY <1>6, <2>1 DEF NoOverlap
  <2> QED BY <1>2, <1>3, <1>5, <2>1, <2>2 DEF BlocksInv, Later
<1>7. CASE tiles # {}
  <2>1. PICK lo \in Int : \A b \in tiles : Corner(b, lo) BY <1>1 DEF LayoutInv, Before
  <2>2. PICK dx \in Int, dy \in Int :
          dx = XOffset /\ dy = YOffset /\ \A b \in tiles : b.x + dx >= 0 /\ b.y + dy >= 0
    BY <1>7, <2>1, OffsetsAre
  <2>3. /\ phase' = "written" /\ meta' = [key \in DOMAIN meta |-> {Moved(q) : q \in meta[key]}]
        /\ tiles' = {Move(b, dx, dy) : b \in tiles}
    BY <1>7, <2>2 DEF WriteSchematic, Move
  <2>4. links' = {<<[l[1] EXCEPT !.x = @ + XOffset, !.y = @ + YOffset],
                    [n \in DOMAIN l[2] |-> <<l[2][n][1] + XOffset, l[2][n][2] + YOffset>>]>> : l \in links}
    BY <1>7 DEF WriteSchematic
  <2>5. \A b \in tiles : b \in BlockType BY <2>1 DEF Corner
  <2>6. NoOverlap'
    <3>1. ASSUME NEW a \in tiles', NEW b \in tiles', Overlap(a, b) PROVE a = b
      <4>1. PICK c \in tiles : a = Move(c, dx, dy) BY <2>3
      <4>2. PICK d \in tiles : b = Move(d, dx, dy) BY <2>3
      <4>3. Overlap(c, d) BY <2>5, <3>1, <4>1, <4>2, MoveOverlap
      <4>4. c = d BY <1>3, <4>3 DEF NoOverlap
      <4> QED BY <4>1, <4>2, <4>4
    <3> QED BY <3>1 DEF NoOverlap
  <2>7. ASSUME NEW p \in Int, NEW q \in Int, NEW b \in tiles, In(<<p, q>>, b)
        PROVE  \E m \in tiles' : m.kind = b.kind /\ In(<<p + dx, q + dy>>, m)
    <3>1. In(<<p + dx, q + dy>>, Move(b, dx, dy)) BY <2>5, <2>7, MoveIn
    <3>2. Move(b, dx, dy).kind = b.kind BY <2>5, MoveIs
    <3> QED BY <2>3, <3>1, <3>2
  <2>8. \A point, kinds : (\E m \in tiles' : m.kind \in kinds /\ In(point, m)) => Hit(point, kinds)'
    BY DEF Hit, In
  <2>9. LinksHit'
    <3> SUFFICES ASSUME Include("peripherals"), Include("cpu"), NEW k \in links'
                 PROVE  /\ \A n \in DOMAIN k[2] :
                             /\ \E m \in tiles' : m.kind # "label" /\ In(k[2][n], m)
                             /\ k[2][n] # <<k[1].x, k[1].y>>
                        /\ \A n \in 1..16 : \E m \in tiles' : m.kind = "lookup" /\ In(k[2][n], m)
                        /\ \A n \in 1..15 :
                             \/ k[2][n][2] = k[2][n + 1][2] /\ k[2][n + 1][1] = k[2][n][1] + 1
                             \/ k[2][n + 1][2] = k[2][n][2] + 1 /\ k[2][n + 1][1] = k[2][n][1] - 3 /\ n % 4 = 0
      BY <1>2 DEF LinksHit, Hit, In
    <3>1. PICK l \in links : k = <<[l[1] EXCEPT !.x = @ + XOffset, !.y = @ + YOffset],
                                   [n \in DOMAIN l[2] |-> <<l[2][n][1] + XOffset, l[2][n][2] + YOffset>>]>>
      BY <2>4
    <3>2. Reached(l) BY <1>3, LinksReach
    <3>3. /\ k[1] = [l[1] EXCEPT !.x = @ + dx, !.y = @ + dy] /\ DOMAIN k[2] = DOMAIN l[2]
          /\ \A n \in DOMAIN l[2] : k[2][n] = <<l[2][n][1] + dx, l[2][n][2] + dy>>
      BY <2>2, <3>1
    <3>4. /\ k[1].x = l[1].x + dx /\ k[1].y = l[1].y + dy /\ l[1].x \in Int /\ l[1].y \in Int
      <4> DEFINE b == l[1]
                 c == k[1]
      <4>1. b \in BlockType BY <3>2 DEF Reached
      <4>2. c = [b EXCEPT !.x = @ + dx, !.y = @ + dy] BY <3>3
      <4> HIDE DEF b, c
      <4>3. c.x = b.x + dx /\ c.y = b.y + dy /\ b.x \in Int /\ b.y \in Int BY <4>1, <4>2 DEF BlockType
      <4> QED BY <4>3 DEF b, c
    <3>5. (\A n \in DOMAIN l[2] : l[2][n] \in Int \X Int) /\ 1..16 \subseteq DOMAIN l[2]
      <4> DEFINE s == l[2]
      <4>1. s \in Seq(Int \X Int) /\ Len(s) >= 16 BY <3>2 DEF Reached
      <4> HIDE DEF s
      <4>2. DOMAIN s = 1..Len(s) /\ Len(s) \in Nat BY <4>1
      <4>3. \A n \in DOMAIN s : s[n] \in Int \X Int BY <4>1, <4>2
      <4>4. 1..16 \subseteq DOMAIN s BY <4>1, <4>2
      <4> QED BY <4>3, <4>4 DEF s
    <3>7. ASSUME NEW n \in DOMAIN k[2]
          PROVE  (\E m \in tiles' : m.kind # "label" /\ In(k[2][n], m)) /\ k[2][n] # <<k[1].x, k[1].y>>
      <4> DEFINE p == l[2][n][1]
                 q == l[2][n][2]
      <4>1. p \in Int /\ q \in Int /\ l[2][n] = <<p, q>> /\ k[2][n] = <<p + dx, q + dy>> BY <3>3, <3>5, <3>7
      <4>2. PICK b \in tiles : b.kind # "label" /\ In(<<p, q>>, b)
        <5>1. \E b \in tiles : b.kind # "label" /\ In(l[2][n], b) BY <3>2, <3>3, <3>7 DEF Reached
        <5>2. l[2][n] = <<p, q>> BY <4>1
        <5> HIDE DEF p, q
        <5> QED BY <5>1, <5>2
      <4>3. <<p, q>> # <<l[1].x, l[1].y>> BY <3>2, <3>3, <3>7, <4>1 DEF Reached
      <4> HIDE DEF p, q
      <4>4. \E m \in tiles' : m.kind # "label" /\ In(k[2][n], m) BY <2>7, <4>1, <4>2
      <4>5. p # l[1].x \/ q # l[1].y BY <4>3
      <4>6. p + dx # k[1].x \/ q + dy # k[1].y
        <5> DEFINE x == l[1].x
                   y == l[1].y
        <5>1. x \in Int /\ y \in Int /\ k[1].x = x + dx /\ k[1].y = y + dy /\ (p # x \/ q # y) BY <3>4, <4>5
        <5> HIDE DEF x, y
        <5>2. p + dx # x + dx \/ q + dy # y + dy BY <2>2, <4>1, <5>1
        <5> QED BY <5>1, <5>2
      <4> QED BY <4>1, <4>4, <4>6
    <3>8. \A n \in 1..16 : /\ k[2][n] = <<lookup_links[n][1] + dx, lookup_links[n][2] + dy>>
                           /\ lookup_links[n][1] \in Int /\ lookup_links[n][2] \in Int
                           /\ lookup_links[n] = <<lookup_links[n][1], lookup_links[n][2]>>
      <4> TAKE n \in 1..16
      <4>1. l[2][n] = lookup_links[n] /\ n \in DOMAIN l[2] BY <3>2, <3>5 DEF Reached
      <4>2. lookup_links[n] \in Int \X Int BY LookupHit
      <4> HIDE DEF lookup_links
      <4> QED BY <3>3, <4>1, <4>2
    <3>9. ASSUME NEW n \in 1..16 PROVE \E m \in tiles' : m.kind = "lookup" /\ In(k[2][n], m)
      <4>1. PICK b \in tiles : b.kind = "lookup" /\ In(lookup_links[n], b) BY <1>3, LookupHit
      <4> DEFINE p == lookup_links[n][1]
                 q == lookup_links[n][2]
      <4>2. p \in Int /\ q \in Int /\ lookup_links[n] = <<p, q>> /\ k[2][n] = <<p + dx, q + dy>> BY <3>8
      <4> HIDE DEF p, q
      <4>3. In(<<p, q>>, b) BY <4>1, <4>2
      <4> QED BY <2>7, <4>1, <4>2, <4>3
    <3>10. ASSUME NEW n \in 1..15
           PROVE  \/ k[2][n][2] = k[2][n + 1][2] /\ k[2][n + 1][1] = k[2][n][1] + 1
                  \/ k[2][n + 1][2] = k[2][n][2] + 1 /\ k[2][n + 1][1] = k[2][n][1] - 3 /\ n % 4 = 0
      <4> DEFINE p == lookup_links[n][1]
                 q == lookup_links[n][2]
                 p2 == lookup_links[n + 1][1]
                 q2 == lookup_links[n + 1][2]
      <4>1. n \in 1..16 /\ n + 1 \in 1..16 OBVIOUS
      <4>2. /\ p \in Int /\ q \in Int /\ p2 \in Int /\ q2 \in Int
            /\ k[2][n] = <<p + dx, q + dy>> /\ k[2][n + 1] = <<p2 + dx, q2 + dy>>
        BY <3>8, <4>1
      <4>3. (q = q2 /\ p2 = p + 1) \/ (q2 = q + 1 /\ p2 = p - 3 /\ n % 4 = 0) BY LookupOrder
      <4> HIDE DEF p, q, p2, q2
      <4>4. /\ k[2][n][1] = p + dx /\ k[2][n][2] = q + dy /\ k[2][n + 1][1] = p2 + dx /\ k[2][n + 1][2] = q2 + dy
        BY <4>2
      <4> QED BY <4>2, <4>3, <4>4
    <3> QED BY <3>7, <3>9, <3>10
  <2>10. ASSUME NEW key \in DOMAIN meta, NEW p \in meta'[key]
         PROVE  \E q \in meta[key] : p = <<q[1] + dx, q[2] + dy>>
    <3>1. meta'[key] = {Moved(q) : q \in meta[key]} BY <2>3
    <3>2. PICK q \in meta[key] : p = Moved(q) BY <2>10, <3>1
    <3> QED BY <2>2, <3>2 DEF Moved
  <2>11. ASSUME NEW key \in DOMAIN meta, NEW kinds, meta[key] \subseteq Int \X Int, NEW p \in meta'[key],
                \A q \in meta[key] : \E b \in tiles : b.kind \in kinds /\ In(q, b)
         PROVE  Hit(p, kinds)'
    <3>1. PICK q \in meta[key] : p = <<q[1] + dx, q[2] + dy>> BY <2>10, <2>11
    <3>2. PICK b \in tiles : b.kind \in kinds /\ In(q, b) BY <2>11, <3>1
    <3>3. q[1] \in Int /\ q[2] \in Int /\ q = <<q[1], q[2]>> BY <2>11, <3>1
    <3>4. \E m \in tiles' : m.kind = b.kind /\ In(p, m) BY <2>7, <3>1, <3>2, <3>3
    <3> QED BY <2>8, <3>2, <3>4
  <2>12. ASSUME Include("peripherals")
         PROVE  /\ \A p \in meta'.uarts : \E b \in tiles' : b.kind = "bank" /\ <<b.x, b.y>> = p
                /\ \A p \in meta'.registers : Hit(p, {"cell"})'
                /\ \A p \in meta'.csrs : Hit(p, {"ram"})'
                /\ \A p \in meta'.config : Hit(p, {"config"})'
                /\ \A p \in meta'.error_output : Hit(p, {"message"})'
                /\ \A p \in meta'.switches : Hit(p, {"switch"})'
    <3>1. {"uarts", "registers", "csrs", "config", "error_output", "switches"} \subseteq DOMAIN meta \ {"cpu", "memory"}
      BY <1>4 DEF PeripheralMeta
    <3>2. /\ meta["uarts"] = PeripheralMeta.uarts /\ meta["registers"] = PeripheralMeta.registers
          /\ meta["csrs"] = PeripheralMeta.csrs /\ meta["config"] = PeripheralMeta.config
          /\ meta["error_output"] = PeripheralMeta.error_output /\ meta["switches"] = PeripheralMeta.switches
      BY <1>4, <3>1
    <3>3. /\ PeripheralMeta.registers \subseteq Int \X Int /\ PeripheralMeta.csrs \subseteq Int \X Int
          /\ PeripheralMeta.config \subseteq Int \X Int /\ PeripheralMeta.error_output \subseteq Int \X Int
          /\ PeripheralMeta.switches \subseteq Int \X Int
      BY DEF PeripheralMeta, registers_link, csrs_link, config_link, error_output_link, power_switch_link,
             pause_switch_link, single_step_switch_link
    <3>4. ASSUME NEW p \in meta'.uarts PROVE \E b \in tiles' : b.kind = "bank" /\ <<b.x, b.y>> = p
      <4>1. PICK q \in meta["uarts"] : p = <<q[1] + dx, q[2] + dy>> BY <2>10, <3>1, <3>4
      <4>2. PICK b \in tiles : b.kind = "bank" /\ <<b.x, b.y>> = q BY <1>3, <2>12, <3>2, <4>1, MetaHit
      <4>3. /\ Move(b, dx, dy).x = b.x + dx /\ Move(b, dx, dy).y = b.y + dy /\ Move(b, dx, dy).kind = b.kind
        BY <2>5, MoveIs
      <4>4. q[1] = b.x /\ q[2] = b.y BY <4>2
      <4> QED BY <2>3, <4>1, <4>2, <4>3, <4>4
    <3>5. \A p \in meta'.registers : Hit(p, {"cell"})' BY <1>3, <2>11, <2>12, <3>1, <3>2, <3>3, MetaHit
    <3>6. \A p \in meta'.csrs : Hit(p, {"ram"})' BY <1>3, <2>11, <2>12, <3>1, <3>2, <3>3, MetaHit
    <3>7. \A p \in meta'.config : Hit(p, {"config"})' BY <1>3, <2>11, <2>12, <3>1, <3>2, <3>3, MetaHit
    <3>8. \A p \in meta'.error_output : Hit(p, {"message"})' BY <1>3, <2>11, <2>12, <3>1, <3>2, <3>3, MetaHit
    <3>9. \A p \in meta'.switches : Hit(p, {"switch"})' BY <1>3, <2>11, <2>12, <3>1, <3>2, <3>3, MetaHit
    <3> QED BY <3>4, <3>5, <3>6, <3>7, <3>8, <3>9
  <2>13. "cpu" \in DOMAIN meta /\ "memory" \in DOMAIN meta BY <1>4 DEF PeripheralMeta
  <2>14. ASSUME NEW p \in meta'["cpu"] PROVE Hit(p, {"controller"})'
    <3>1. PICK q \in meta["cpu"] : p = <<q[1] + dx, q[2] + dy>> BY <2>10, <2>13, <2>14
    <3>2. q = <<16, 0>> /\ Include("cpu") BY <1>4, <3>1 DEF controller_link
    <3>3. controller \in tiles BY <1>3, <3>2 DEF Cpu
    <3>4. controller.kind = "controller" /\ In(<<16, 0>>, controller) BY DEF controller, controller_link, One, Block, In
    <3>5. \E m \in tiles' : m.kind = "controller" /\ In(<<16 + dx, 0 + dy>>, m) BY <2>7, <3>3, <3>4
    <3>6. p = <<16 + dx, 0 + dy>> BY <3>1, <3>2
    <3> QED BY <2>8, <3>5, <3>6
  <2>15. ASSUME NEW p \in meta'["memory"], filled > 0 PROVE Hit(p, {"rom", "ram"})'
    <3>1. PICK q \in meta["memory"] : p = <<q[1] + dx, q[2] + dy>> BY <2>10, <2>13, <2>15
    <3>2. q = <<base_x, base_y>> /\ Include("memory") BY <1>4, <3>1
    <3>3. Placed(0, 0, 0)
      <4>1. 0 \in 0..(filled - 1) BY <1>3, <2>15
      <4> QED BY <1>3, <3>2, <4>1
    <3>4. base_x \in Int /\ base_y \in Int /\ config.width \in Nat
      BY <1>3, <3>2 DEF Configs, base_x, base_y, config_link
    <3>5. config.width # 0
      <4> SUFFICES ASSUME config.width = 0 PROVE FALSE OBVIOUS
      <4>1. filled = config.width * memory_height /\ memory_height \in Nat
        BY <1>1, <1>3, <3>2 DEF LayoutInv, Complete, Configs, memory_height, rom_height
      <4>2. config.width * memory_height = 0 BY <4>1
      <4> QED BY <2>15, <4>1, <4>2
    <3>6. 0 % config.width = 0 /\ 0 \div config.width = 0
      <4> DEFINE W == config.width
      <4>1. W \in Nat \ {0} BY <3>4, <3>5
      <4> HIDE DEF W
      <4>2. 0 % W = 0 /\ 0 \div W = 0 BY <4>1
      <4> QED BY <4>2 DEF W
    <3>7. PICK b \in tiles : /\ At(b, base_x + (0 % config.width) + 0, base_y + 0 \div config.width + 0)
                             /\ b.w = 1 /\ b.h = 1 /\ b.kind \in {"rom", "ram"}
      BY <3>3 DEF Placed
    <3> HIDE DEF base_x, base_y
    <3>8. b.x = base_x /\ b.y = base_y BY <3>4, <3>6, <3>7 DEF At
    <3>9. In(<<base_x, base_y>>, b) BY <3>4, <3>7, <3>8 DEF In
    <3>10. \E m \in tiles' : m.kind = b.kind /\ In(<<base_x + dx, base_y + dy>>, m) BY <2>7, <3>4, <3>9
    <3>11. p = <<base_x + dx, base_y + dy>> BY <3>1, <3>2
    <3> QED BY <2>8, <3>7, <3>10, <3>11
  <2>16. \A b \in tiles' : b.x >= 0 /\ b.y >= 0
    <3> SUFFICES ASSUME NEW b \in tiles PROVE Move(b, dx, dy).x >= 0 /\ Move(b, dx, dy).y >= 0 BY <2>3
    <3> QED BY <2>2, <2>5, MoveIs
  <2>17. filled' = filled BY <1>1
  <2>18. MetadataHits' BY <1>2, <2>3, <2>12, <2>14, <2>15, <2>16, <2>17 DEF MetadataHits
  <2> QED BY <1>2, <1>3, <1>5, <2>3, <2>6, <2>9, <2>18 DEF BlocksInv, Later
<1> QED BY <1>6, <1>7

(* A step of another command.                                              *)
LEMMA BlocksStay == BlocksInv /\ UNCHANGED layoutVars => BlocksInv'
<1> SUFFICES ASSUME BlocksInv, UNCHANGED layoutVars PROVE BlocksInv' OBVIOUS
<1>1. UNCHANGED <<opts, config, tiles, links, meta, filled, i, phase>> BY DEF layoutVars
<1>2. /\ PeripheralBlocks' = PeripheralBlocks /\ Cpu' = Cpu /\ Fixed' = Fixed /\ AllLinks' = AllLinks
      /\ (TooHigh' <=> TooHigh) /\ \A part : Include(part)' <=> Include(part)
  BY <1>1, FixedSame
<1>3. base_y' = base_y /\ memory_height' = memory_height /\ base_x' = base_x
  BY <1>1 DEF base_x, base_y, memory_height, rom_height, config_link
<1>4. PeripheralMeta' = PeripheralMeta /\ controller_link' = controller_link /\ DebuggerBlocks' = DebuggerBlocks
  BY DEF PeripheralMeta, controller_link, DebuggerBlocks
<1>5. \A b : OnMemory(b)' <=> OnMemory(b) BY <1>1 DEF OnMemory, base_x, base_y, config_link
<1>6. NoOverlap' <=> NoOverlap BY <1>1 DEF NoOverlap
<1>7. \A point, kinds : Hit(point, kinds)' <=> Hit(point, kinds) BY <1>1 DEF Hit
<1>8. LinksHit' <=> LinksHit BY <1>1, <1>2, <1>7 DEF LinksHit
<1>9. MetadataHits' <=> MetadataHits BY <1>1, <1>2, <1>7 DEF MetadataHits
<1> QED BY <1>1, <1>2, <1>3, <1>4, <1>5, <1>6, <1>8, <1>9 DEF BlocksInv

(* Every step keeps the invariant.                                         *)
LEMMA BlocksNextKeeps == LayoutInv /\ BlocksInv /\ LayoutNext => BlocksInv'
BY OptionsBlocks, PeripheralsBlocks, CpuBlocks, MemoryProcessorBlocks, MemoryDoneBlocks, DebuggerAdds, WriteBlocks,
   BlocksStay
   DEF LayoutNext, LayoutEnded

(* The invariant of the blocks within a run of any command.                *)
BuildBlocksInv == (command = "schematic" => BlocksInv) /\ (command # "schematic" => phase = "idle" /\ tiles = {})

(* It holds throughout.                                                    *)
LEMMA BuildBlocksHolds == BuildSpec => []BuildBlocksInv
<1>1. BuildInit => BuildBlocksInv BY BlocksInitHolds DEF BuildInit, BuildBlocksInv, LayoutIdle
<1>2. BuildLayoutInv /\ BuildBlocksInv /\ [BuildNext]_buildVars => BuildBlocksInv'
  <2> SUFFICES ASSUME BuildLayoutInv, BuildBlocksInv, [BuildNext]_buildVars PROVE BuildBlocksInv' OBVIOUS
  <2>1. CASE command = "schematic" /\ LayoutNext /\ UNCHANGED command
    BY <2>1, BlocksNextKeeps DEF BuildLayoutInv, BuildBlocksInv
  <2>2. CASE UNCHANGED <<command, layoutVars>>
    <3>1. phase' = phase /\ command' = command /\ tiles' = tiles BY <2>2 DEF layoutVars
    <3> QED BY <2>2, <3>1, BlocksStay DEF BuildBlocksInv
  <2> QED BY <2>1, <2>2 DEF BuildNext, buildVars
<1> QED BY <1>1, <1>2, BuildLayoutHolds, PTL DEF BuildSpec

(* No two blocks of a schematic overlap, and every link and every point of *)
(* the metadata that refers to a block that is included finds it, for      *)
(* every size of the CPU, memory configuration and choice of parts         *)
(* (BlocksFound).                                                          *)
THEOREM BlocksAreFound == BuildSpec => []BlocksFound
<1>1. BuildBlocksInv => BlocksFound
  <2> SUFFICES ASSUME BuildBlocksInv PROVE BlocksFound OBVIOUS
  <2>1. NoOverlap BY DEF BuildBlocksInv, BlocksInv, NoOverlap
  <2>2. CASE phase = "written" BY <2>1, <2>2 DEF BuildBlocksInv, BlocksInv, BlocksFound
  <2>3. CASE phase # "written" BY <2>1, <2>3 DEF BlocksFound, LinksHit, MetadataHits
  <2> QED BY <2>2, <2>3
<1> QED BY <1>1, BuildBlocksHolds, PTL
=================================================================================
