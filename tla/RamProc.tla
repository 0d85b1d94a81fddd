-------------------------------- MODULE RamProc --------------------------------
(***************************************************************************)
(* ram_proc build: the generator of the RAM processor, whose code mentions *)
(* every variable name once so that the game allocates the variables in    *)
(* this order, and of the lookup processors, which turn the number of a    *)
(* variable into its name for load_word and store_word.                    *)
(*                                                                         *)
(* One step is one iteration of the loop of generate_code.  A name is a    *)
(* pair of characters; the numbered formats dec and hex, whose names are a *)
(* numeral with a prefix, are one format whose name is <<-1, number>>.     *)
(* BLOCK_IDS is a list of distinct names in the order of the ids of the    *)
(* game's lookup table: it is abstracted to the ids 1..BlockIds.           *)
(***************************************************************************)
EXTENDS Integers, Sequences

CONSTANTS Alphabet,     \* VARIABLE_NAME_CHARS: character codes
          Short,        \* how many of them VARIABLE_NAME_CHARS_MLOGV32 has
          LineSize,     \* arguments of draw triangle
          BlockIds,     \* len(BLOCK_IDS), LOOKUP_PROC_SIZE of the worker
          RamSizes,     \* values of --ram-size
          LookupWidths  \* values of --lookup-width

Formats == {"mlogv32", "min", "numbered"}

ASSUME AlphabetAssumption ==
  /\ Alphabet \in Seq(Nat)
  /\ Short \in 1..Len(Alphabet)
  /\ \A c, d \in DOMAIN Alphabet : c < d => Alphabet[c] < Alphabet[d]
ASSUME SizesAssumption ==
  /\ LineSize \in Nat \ {0} /\ BlockIds \in Nat \ {0}
  /\ RamSizes \subseteq Nat \ {0} /\ LookupWidths \subseteq Nat \ {0}

VARIABLES format, ramSize, lookupWidth,  \* the options
          taken,                         \* names iter_variables has yielded
          ramLine, ramLines,             \* ram_proc_line, ram_proc
          table, tables,                 \* lookup_proc, lookup_procs
          generated                      \* "running", "failed" or "written"

options == <<format, ramSize, lookupWidth>>
ramVars == <<options, taken, ramLine, ramLines, table, tables, generated>>

-----------------------------------------------------------------------------
(* iter_variables: two nested loops over the characters of the format.     *)
CharCount(f) == IF f = "mlogv32" THEN Short ELSE Len(Alphabet)

Variable(f, k) ==
  IF f = "numbered" THEN <<-1, k>>
  ELSE <<Alphabet[1 + k \div CharCount(f)], Alphabet[1 + (k % CharCount(f))]>>

HasVariable(f, k) == f = "numbered" \/ k < CharCount(f) * CharCount(f)

RamInit ==
  /\ format \in Formats /\ ramSize \in RamSizes /\ lookupWidth \in LookupWidths
  /\ taken = 0
  /\ ramLine = <<>> /\ ramLines = <<>>
  /\ table = <<>> /\ tables = <<>>
  /\ generated = "running"

-----------------------------------------------------------------------------
(* The last variable is reached when the line fills the remaining space.   *)
LastOnLine(line) == ramSize - Len(ramLines) * LineSize = Len(line)

(* draw triangle takes exactly LineSize arguments: repeat the last one.    *)
Pad(line) == [n \in 1..LineSize |-> IF n <= Len(line) THEN line[n] ELSE line[Len(line)]]

AddToLine(line) ==
  \/ /\ LastOnLine(line)
     /\ ramLines' = Append(ramLines, Pad(line))
     /\ ramLine' = line
  \/ /\ ~LastOnLine(line) /\ Len(line) = LineSize
     /\ ramLines' = Append(ramLines, line)
     /\ ramLine' = <<>>
  \/ /\ ~LastOnLine(line) /\ Len(line) # LineSize
     /\ ramLine' = line
     /\ UNCHANGED ramLines

(* Mutant: the last table is not written. *)
FlushWhenFull(entries, last) ==
  IF Len(entries) = BlockIds
  THEN tables' = Append(tables, entries) /\ table' = <<>>
  ELSE table' = entries /\ UNCHANGED tables

(* set <block id> "<variable>": entry n of a table is for block id n.      *)
AddToTable(entries, last) ==
  IF Len(entries) = BlockIds \/ last
  THEN tables' = Append(tables, entries) /\ table' = <<>>
  ELSE table' = entries /\ UNCHANGED tables

Generate ==
  /\ generated = "running" /\ HasVariable(format, taken)
  /\ LET variable == Variable(format, taken)
         line == Append(ramLine, variable)
     IN  /\ AddToLine(line)
         /\ AddToTable(Append(table, variable), LastOnLine(line))
         /\ generated' = IF LastOnLine(line) THEN "written" ELSE "running"
  /\ taken' = taken + 1
  /\ UNCHANGED options

(* "Ran out of variable names!"                                            *)
OutOfNames ==
  /\ generated = "running" /\ ~HasVariable(format, taken)
  /\ generated' = "failed"
  /\ UNCHANGED <<options, taken, ramLine, ramLines, table, tables>>

RamEnded == generated # "running" /\ UNCHANGED ramVars

RamNext == Generate \/ OutOfNames \/ RamEnded

RamSpec == RamInit /\ [][RamNext]_ramVars

-----------------------------------------------------------------------------
(* build places table n of the schematic, counted from 0.                  *)
TablePlace(n) == <<n % lookupWidth, n \div lookupWidth>>

(* The command lookup: number of the processor and name of the variable    *)
(* that hold a byte address.                                               *)
LookupProcessor(addr) == (addr \div 4) \div ramSize
LookupVariable(addr) == Variable(format, (addr \div 4) % ramSize)

(* What the worker does with the schematics (lookup_variable, 839-848):    *)
(* link number \div LOOKUP_PROC_SIZE, block id number % LOOKUP_PROC_SIZE.  *)
WorkerLookup(number) == tables[1 + number \div BlockIds][1 + (number % BlockIds)]

(* Variable v of the RAM processor, in the order in which its code names   *)
(* them (ProcessorAccess, ramWordsSequence: vars[i + 1]).                  *)
RamVariable(number) == ramLines[1 + number \div LineSize][1 + (number % LineSize)]
=================================================================================
