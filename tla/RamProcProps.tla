----------------------------- MODULE RamProcProps -----------------------------
(* What the code generated by ram_proc build promises to the worker.       *)
EXTENDS RamProc

Ceiling(n, d) == (n + d - 1) \div d

(* The worker's lookup of any variable of a RAM processor gives its name,  *)
(* and that name is variable number of the processor: load_word, the       *)
(* instruction cache and the dump of the RAM agree on where a word is, and *)
(* the command lookup names that place for every byte of it.               *)
EveryWordFound ==
  \A number \in 0..(ramSize - 1) :
    /\ number \div BlockIds < Len(tables) /\ number % BlockIds < Len(tables[1 + number \div BlockIds])
    /\ WorkerLookup(number) = Variable(format, number)
    /\ RamVariable(number) = Variable(format, number)
    /\ \A processor \in 0..1, byte \in 0..3 :
         LET addr == 4 * (processor * ramSize + number) + byte
         IN  LookupProcessor(addr) = processor /\ LookupVariable(addr) = RamVariable(number)

(* The RAM processor has no more variables than ram_size: the argument     *)
(* slots that are left over repeat the last name.  There is no table       *)
(* without an entry.                                                       *)
NothingElse ==
  /\ Len(ramLines) = Ceiling(ramSize, LineSize)
  /\ \A number \in ramSize..(Len(ramLines) * LineSize - 1) :
       RamVariable(number) = Variable(format, ramSize - 1)
  /\ Len(tables) = Ceiling(ramSize, BlockIds)
  /\ taken = ramSize

(* For every size, format and split into lines and tables, the code that   *)
(* ram_proc build writes and the code that looks words up agree; the loop  *)
(* fails only when the format has fewer names than ram_size.               *)
LookupAgrees ==
  /\ generated = "written" => EveryWordFound /\ NothingElse
  /\ generated = "failed" => ~HasVariable(format, ramSize - 1)
===============================================================================
