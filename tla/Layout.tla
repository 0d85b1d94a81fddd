--------------------------------- MODULE Layout ---------------------------------
(***************************************************************************)
(* preprocessor build: the schematic of the computer.  The options are     *)
(* checked, the peripherals, the CPU, the memory (one step per processor)  *)
(* and the debugger are placed, and the metadata is written.               *)
(*                                                                         *)
(* A block is a rectangle; a field of equal blocks, such as a display, is  *)
(* one rectangle.  The contents of a memory processor are the interval of  *)
(* the addresses of the bytes of the file --bin that are written into it.  *)
(***************************************************************************)
EXTENDS Integers, Sequences

CONSTANTS CommandLines,   \* the options of the command
          RomProcBytes,   \* 16384
          Refused         \* None, and the result of an exception

VARIABLES opts,     \* the options
          config,   \* config_args
          tiles,    \* schem.tiles
          links,    \* <<processor's block, its ProcessorLinks>>
          meta,     \* Metadata: name -> set of points
          filled,   \* memory processors placed so far
          i,        \* bytes of the file placed so far
          phase

layoutVars == <<opts, config, tiles, links, meta, filled, i, phase>>

Block(kind, x, y, w, h) ==
  [kind |-> kind, x |-> x, y |-> y, w |-> w, h |-> h, from |-> 0, to |-> 0]
One(kind, x, y) == Block(kind, x, y, 1, 1)

-----------------------------------------------------------------------------
(* parse_config_str: items are positional or key=value, a value that is no *)
(* number is Refused, a later item replaces an earlier one.                *)
Keys == <<"rom", "ram", "icache", "width", "x_offset", "drom">>

KeyOf(items, n) == IF items[n].key = "" THEN Keys[n] ELSE items[n].key
Last(items, key) == CHOOSE n \in DOMAIN items :
  KeyOf(items, n) = key /\ \A m \in DOMAIN items : m > n => KeyOf(items, m) # key
Given(items, key) == \E n \in DOMAIN items : KeyOf(items, n) = key
Value(items, key, default) == IF Given(items, key) THEN items[Last(items, key)].value ELSE default

Rows(rom, drom, ram, icache) == rom + drom + ram + icache

parse_config_str(items) ==
  IF \/ Len(items) \notin 2..4
     \/ \E n \in DOMAIN items : items[n].value = Refused
     \/ ~Given(items, "rom") \/ ~Given(items, "ram")
  THEN Refused
  ELSE LET rom == Value(items, "rom", 0)
           ram == Value(items, "ram", 0)
           icache == Value(items, "icache", rom + ram)
           drom == Value(items, "drom", 0)
       IN  [xOffset |-> Value(items, "x_offset", -9),
            yOffset |-> -16 - Rows(rom, drom, ram, icache),
            width |-> Value(items, "width", 32),
            programRom |-> rom, dataRom |-> drom, ram |-> ram, icache |-> icache]

(* A configuration of configs.yaml comes with its values, any other string *)
(* is parsed.                                                              *)
ConfigOf(o) ==
  IF o.named # Refused THEN o.named
  ELSE IF o.items = Refused THEN Refused ELSE parse_config_str(o.items)

(* The options are counts of blocks and bytes.  A configuration has rows   *)
(* of memory processors, whose place is relative to the config processor;  *)
(* those of configs.yaml are as far below it as the parsed ones.           *)
Configs ==
  [xOffset : Int, yOffset : Int, width : Nat,
   programRom : Nat, dataRom : Nat, ram : Nat, icache : Nat]

ASSUME CommandLinesAssumption ==
  /\ RomProcBytes \in Nat \ {0} /\ Refused \notin Configs
  /\ \A o \in CommandLines :
       /\ o.size \in Nat /\ o.width \in Nat /\ o.height \in Nat /\ o.bin \in Nat
       /\ ConfigOf(o) \in Configs \union {Refused}
       /\ LET c == ConfigOf(o) IN
            c # Refused => c.yOffset + Rows(c.programRom, c.dataRom, c.ram, c.icache) <= -16

LayoutInit ==
  /\ opts \in CommandLines
  /\ config = Refused
  /\ tiles = {} /\ links = {} /\ meta = <<>>
  /\ filled = 0 /\ i = 0
  /\ phase = "options"

Width == IF opts.size # 0 THEN opts.size ELSE opts.width
Height == IF opts.size # 0 THEN opts.size ELSE opts.height
Include(part) == part \in opts.parts \/ "all" \in opts.parts

TooHigh == opts.keyboard /\ Height > 16

(* Without --config there is none; an invalid one is an error.             *)
CheckOptions ==
  /\ phase = "options"
  /\ config' = ConfigOf(opts)
  /\ phase' = IF \/ TooHigh
                 \/ ConfigOf(opts) = Refused /\ (opts.items # Refused \/ Include("memory"))
              THEN "refused" ELSE "peripherals"
  /\ UNCHANGED <<opts, tiles, links, meta, filled, i>>

-----------------------------------------------------------------------------
(* Peripherals.  Links are to absolute places here; relative_links and the *)
(* game's resolution of a link relative to its processor cancel out.       *)

(* Mutant: the links go column by column. *)
ColumnLinks == [n \in 1..16 |-> <<(n - 1) \div 4, 16 + ((n - 1) % 4)>>]

lookup_links == [n \in 1..16 |-> <<(n - 1) % 4, 16 + (n - 1) \div 4>>]
uart_links == << <<5, 18>>, <<5, 16>>, <<7, 18>>, <<7, 16>> >>
registers_link == <<9, 19>>
csrs_link == <<9, 18>>
incr_link == <<9, 17>>
config_link == <<9, 16>>
labels_link == <<4, 18>>
csr_labels_link == <<4, 17>>
error_output_link == <<11, 19>>
power_switch_link == <<11, 18>>
pause_switch_link == <<11, 17>>
single_step_switch_link == <<11, 16>>
controller_link == <<16, 0>>

PeripheralBlocks ==
  {Block("display", 0, 0, 16, 16)}
    \union {One("lookup", x, y) : x \in 0..3, y \in 16..19}
    \union {One("label", 4, 19), One("world_cell", 4, 18), One("ram", 4, 17), One("label", 4, 16)}
    \union {Block("bank", uart_links[u][1], uart_links[u][2], 2, 2) : u \in 1..4}
    \union {One("cell", 9, 19), One("ram", 9, 18), One("ram", 9, 17), One("config", 9, 16)}
    \union {One("label", 10, y) : y \in 16..19}
    \union {One("message", 11, 19)} \union {One("switch", 11, y) : y \in 16..18}
    \union {One("ram", 13, 16), One("ram", 12, 17), One("ram", 13, 17)}
    \union {One("label", 12, 18), One("switch", 13, 18), One("display_proc", 12, 16)}
    \union (IF opts.keyboard THEN {Block("keyboard", 14, 16, 5, 4)} ELSE {})

DisplayLinks ==
  lookup_links \o << <<13, 16>>, <<12, 17>>, <<13, 17>>, config_link, <<13, 18>>,
                     power_switch_link, uart_links[1], <<0, 0>> >>

(* The metadata is filled in whether the peripherals are included or not.  *)
PeripheralMeta ==
  [uarts |-> {uart_links[u] : u \in 1..4},
   registers |-> {registers_link}, csrs |-> {csrs_link}, config |-> {config_link},
   error_output |-> {error_output_link},
   switches |-> {power_switch_link, pause_switch_link, single_step_switch_link},
   cpu |-> {}, memory |-> {}]

AddPeripherals ==
  /\ phase = "peripherals"
  /\ tiles' = IF Include("peripherals") THEN PeripheralBlocks ELSE {}
  /\ links' = IF Include("peripherals") THEN {<<One("display_proc", 12, 16), DisplayLinks>>} ELSE {}
  /\ meta' = PeripheralMeta
  /\ phase' = "cpu"
  /\ UNCHANGED <<opts, config, filled, i>>

-----------------------------------------------------------------------------
(* CPU                                                                     *)
SharedLinks ==
  lookup_links \o uart_links
    \o <<registers_link, labels_link, csrs_link, incr_link, config_link, csr_labels_link>>
ControllerLinks ==
  SharedLinks \o <<error_output_link, power_switch_link, pause_switch_link, single_step_switch_link>>
WorkerLinks == SharedLinks \o <<controller_link, error_output_link>>

controller == One("controller", controller_link[1], controller_link[2])
workers ==
  {One("worker", p[1], p[2]) : p \in ((16..(16 + Width - 1)) \X (0..(Height - 1))) \ {controller_link}}

AddCpu ==
  /\ phase = "cpu"
  /\ IF Include("cpu")
     THEN /\ tiles' = tiles \union {controller} \union workers
          /\ links' = links \union {<<controller, ControllerLinks>>}
                            \union {<<b, WorkerLinks>> : b \in workers}
          /\ meta' = [meta EXCEPT !.cpu = {controller_link}]
     ELSE UNCHANGED <<tiles, links, meta>>
  /\ phase' = "memory"
  /\ UNCHANGED <<opts, config, filled, i>>

-----------------------------------------------------------------------------
(* Memory                                                                  *)
base_x == config_link[1] + config.xOffset
base_y == config_link[2] + config.yOffset
rom_height == config.programRom + config.dataRom
memory_height == rom_height + config.ram + config.icache

(* The file, with the zeros that are appended to a length that is not a    *)
(* multiple of 4: as many as the remainder.                                *)
DataLength == opts.bin + (opts.bin % 4)

SmallerOf(a, b) == IF a < b THEN a ELSE b

(* One ROM processor: the next chunk of the file, if any is left.          *)
RomBlock(x, y) ==
  [One("rom", x, y) EXCEPT !.from = i, !.to = IF i < DataLength THEN SmallerOf(i + RomProcBytes, DataLength) ELSE i]

(* Mutant: the memory is filled column by column. *)
PlaceColumnFirst(n) == <<base_x + n \div memory_height, base_y + (n % memory_height)>>

MemoryPlace(n) == <<base_x + (n % config.width), base_y + n \div config.width>>

AddMemoryProcessor ==
  /\ phase = "memory" /\ Include("memory") /\ filled < config.width * memory_height
  /\ LET p == MemoryPlace(filled) IN
       IF filled \div config.width < rom_height
       THEN /\ tiles' = tiles \union {RomBlock(p[1], p[2])}
            /\ i' = IF i < DataLength THEN i + RomProcBytes ELSE i
       ELSE tiles' = tiles \union {One("ram", p[1], p[2])} /\ UNCHANGED i
  /\ filled' = filled + 1
  /\ UNCHANGED <<opts, config, links, meta, phase>>

MemoryDone ==
  /\ phase = "memory"
  /\ Include("memory") => filled = config.width * memory_height
  /\ meta' = IF Include("memory") THEN [meta EXCEPT !.memory = {<<base_x, base_y>>}] ELSE meta
  /\ phase' = "debugger"
  /\ UNCHANGED <<opts, config, tiles, links, filled, i>>

-----------------------------------------------------------------------------
(* Debugger and output                                                     *)
DebuggerBlocks == {Block("display", -18, 0, 16, 16), One("switch", -2, 1), One("debugger", -2, 0)}
DebuggerLinks ==
  lookup_links \o uart_links \o <<controller_link, csrs_link, registers_link, <<-3, 0>>, <<-2, 1>> >>

AddDebugger ==
  /\ phase = "debugger"
  /\ IF Include("debugger")
     THEN /\ tiles' = tiles \union DebuggerBlocks
          /\ links' = links \union {<<One("debugger", -2, 0), DebuggerLinks>>}
     ELSE UNCHANGED <<tiles, links>>
  /\ phase' = "write"
  /\ UNCHANGED <<opts, config, meta, filled, i>>

(* get_dimensions(offsets=True): what moves the smallest coordinates to 0. *)
XOffset == -(CHOOSE x \in {b.x : b \in tiles} : \A b \in tiles : x <= b.x)
YOffset == -(CHOOSE y \in {b.y : b \in tiles} : \A b \in tiles : y <= b.y)

(* _serialize_point *)
Moved(point) == <<point[1] + XOffset, point[2] + YOffset>>

WriteSchematic ==
  /\ phase = "write"
  /\ IF tiles # {}
     THEN /\ meta' = [key \in DOMAIN meta |-> {Moved(p) : p \in meta[key]}]
          /\ tiles' = {[b EXCEPT !.x = b.x + XOffset, !.y = b.y + YOffset] : b \in tiles}
          /\ links' = {<<[l[1] EXCEPT !.x = @ + XOffset, !.y = @ + YOffset],
                         [n \in DOMAIN l[2] |-> <<l[2][n][1] + XOffset, l[2][n][2] + YOffset>>]>> : l \in links}
          /\ phase' = "written"
     ELSE phase' = "empty" /\ UNCHANGED <<meta, tiles, links>>
  /\ UNCHANGED <<opts, config, filled, i>>

LayoutEnded == phase \in {"refused", "written", "empty"} /\ UNCHANGED layoutVars

LayoutNext ==
  \/ CheckOptions \/ AddPeripherals \/ AddCpu \/ AddMemoryProcessor \/ MemoryDone
  \/ AddDebugger \/ WriteSchematic \/ LayoutEnded

LayoutSpec == LayoutInit /\ [][LayoutNext]_layoutVars
=================================================================================
