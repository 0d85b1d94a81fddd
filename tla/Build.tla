--------------------------------- MODULE Build ---------------------------------
(***************************************************************************)
(* The commands that build the computer, one per behaviour: ram_proc build *)
(* and the two halves of preprocessor build, which meet in the schematics  *)
(* of the lookup tables and in the names of the RAM variables.             *)
(***************************************************************************)
EXTENDS RamProcProps, BuildConfigProps, LayoutProps

CONSTANT PageWords   \* 0x1000 // 4: words of a page of memory

(* The 64 * 64 names of mlogv32 are for four pages of 1024 words, and the  *)
(* characters, of range(33, 127), are no control characters.               *)
ASSUME PagesAssumption ==
  /\ PageWords \in Nat \ {0} /\ PageWords % Short = 0 /\ 4 * PageWords <= Short * Short
  /\ \A c \in DOMAIN Alphabet : Alphabet[c] >= 32

VARIABLE command
buildVars == <<command, ramVars, configVars, layoutVars>>

RamIdle ==
  /\ format = "mlogv32" /\ ramSize = 1 /\ lookupWidth = 1 /\ taken = 0
  /\ ramLine = <<>> /\ ramLines = <<>> /\ table = <<>> /\ tables = <<>>
  /\ generated = "idle"
ConfigIdle ==
  /\ instructions = <<>> /\ csrs = <<>> /\ resolved = <<>> /\ address = 0
  /\ csrTable = <<>> /\ at = 1 /\ name = 1 /\ LABELS = <<>> /\ CSR_LABELS = <<>>
  /\ stage = "idle"
LayoutIdle ==
  /\ opts = <<>> /\ config = Refused /\ tiles = {} /\ links = {} /\ meta = <<>>
  /\ filled = 0 /\ i = 0 /\ phase = "idle"

BuildInit ==
  \/ command = "ram_proc" /\ RamInit /\ ConfigIdle /\ LayoutIdle
  \/ command = "config" /\ RamIdle /\ ConfigInit /\ LayoutIdle
  \/ command = "schematic" /\ RamIdle /\ ConfigIdle /\ LayoutInit

BuildNext ==
  \/ command = "ram_proc" /\ RamNext /\ UNCHANGED <<command, configVars, layoutVars>>
  \/ command = "config" /\ ConfigNext /\ UNCHANGED <<command, ramVars, layoutVars>>
  \/ command = "schematic" /\ LayoutNext /\ UNCHANGED <<command, ramVars, configVars>>

BuildSpec == BuildInit /\ [][BuildNext]_buildVars

-----------------------------------------------------------------------------
(* VARIABLE_0_TO_PAGE_OFFSET: from the first character of the name of a    *)
(* variable to the page of its RAM processor that it is in.                *)
Less(v, w) == v[1] < w[1] \/ (v[1] = w[1] /\ v[2] < w[2])
FirstOfPage(page) == Variable("mlogv32", page * PageWords)

(* Mutant: the first name of a page belongs to the page before. *)
PageOffsetInclusive(char) ==
  LET var == <<char, FirstOfPage(0)[2]>> IN
    IF char < 32 \/ ~Less(FirstOfPage(1), var) THEN 0
    ELSE IF ~Less(FirstOfPage(2), var) THEN 1
    ELSE IF ~Less(FirstOfPage(3), var) THEN 2
    ELSE 3

PageOffset(char) ==
  LET var == <<char, FirstOfPage(0)[2]>> IN
    IF char < 32 \/ Less(var, FirstOfPage(1)) THEN 0
    ELSE IF Less(var, FirstOfPage(2)) THEN 1
    ELSE IF Less(var, FirstOfPage(3)) THEN 2
    ELSE 3

(* JALR within a cached page: the page that the table gives for the name   *)
(* of a variable of a RAM processor is the page of the variable.           *)
PageOffsetAgrees ==
  format = "mlogv32" /\ ramSize <= 4 * PageWords =>
    \A number \in 0..(ramSize - 1) :
      PageOffset(WorkerLookup(number)[1]) = number \div PageWords

(* The lookup tables that ram_proc places in rows of four, and that        *)
(* preprocessor build accepts as a 4x4 schematic, are where the links of   *)
(* the workers expect them, in the order of their index.                   *)
TablesMatchLinks ==
  lookupWidth = 4 /\ Len(tables) \in 13..16 =>
    \A n \in 0..(Len(tables) - 1) :
      <<TablePlace(n)[1], TablePlace(n)[2] + 16>> = lookup_links[n + 1]

(* The two programs that build the computer agree although neither reads   *)
(* what the other writes: on the pages that names stand for and on where   *)
(* the lookup tables are.                                                  *)
ToolsAgree == generated = "written" => PageOffsetAgrees /\ TablesMatchLinks
=================================================================================
