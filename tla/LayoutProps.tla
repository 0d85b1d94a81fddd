------------------------------ MODULE LayoutProps ------------------------------
(* What the generated schematic promises to the game, the worker and the   *)
(* server plugin.                                                          *)
EXTENDS Layout

Overlap(a, b) ==
  /\ a.x < b.x + b.w /\ b.x < a.x + a.w
  /\ a.y < b.y + b.h /\ b.y < a.y + a.h

(* No two blocks of the schematic are on the same tile, whichever parts    *)
(* are included and whatever the size of the CPU and of the memory.        *)
NoOverlap == \A a, b \in tiles : a # b => ~Overlap(a, b)

Hit(point, kinds) ==
  \E b \in tiles :
    /\ b.kind \in kinds
    /\ b.x <= point[1] /\ point[1] < b.x + b.w
    /\ b.y <= point[2] /\ point[2] < b.y + b.h

(* The first 16 links of a processor that does lookups are the lookup      *)
(* tables in their order, rows of four, wherever the schematic is placed:  *)
(* getlink of the worker needs no offset.  Every other link of a complete  *)
(* computer is on a block too, and never on the processor itself.          *)
LinksHit ==
  phase = "written" /\ Include("peripherals") /\ Include("cpu") =>
    \A l \in links :
      /\ \A n \in DOMAIN l[2] :
           /\ Hit(l[2][n], {b.kind : b \in tiles} \ {"label"})
           /\ l[2][n] # <<l[1].x, l[1].y>>
      /\ \A n \in 1..16 : Hit(l[2][n], {"lookup"})
      /\ \A n \in 1..15 : LET a == l[2][n] b == l[2][n + 1] IN
           \/ a[2] = b[2] /\ b[1] = a[1] + 1
           \/ b[2] = a[2] + 1 /\ b[1] = a[1] - 3 /\ n % 4 = 0

(* The points of the metadata are the blocks they name, in the coordinates *)
(* of the file, which start at 0 in both directions.                       *)
MetadataHits ==
  phase = "written" =>
    /\ Include("peripherals") =>
         /\ \A p \in meta.uarts : \E b \in tiles : b.kind = "bank" /\ <<b.x, b.y>> = p
         /\ \A p \in meta.registers : Hit(p, {"cell"})
         /\ \A p \in meta.csrs : Hit(p, {"ram"})
         /\ \A p \in meta.config : Hit(p, {"config"})
         /\ \A p \in meta.error_output : Hit(p, {"message"})
         /\ \A p \in meta.switches : Hit(p, {"switch"})
    /\ \A p \in meta.cpu : Hit(p, {"controller"})
    /\ \A p \in meta.memory : filled > 0 => Hit(p, {"rom", "ram"})
    /\ \A b \in tiles : b.x >= 0 /\ b.y >= 0

(* Whatever is built, every block has its own place, and every link and    *)
(* every point of the metadata that refers to a block finds it there.      *)
BlocksFound == NoOverlap /\ LinksHit /\ MetadataHits

(* Where the worker (load_rom_word_unchecked) and the server (getRomProc)  *)
(* look for a ROM address, from the config processor.                      *)
RomPlace(byteAddress) ==
  LET index == byteAddress \div RomProcBytes
      home == CHOOSE p \in meta.config : TRUE
  IN  <<home[1] + config.xOffset + (index % config.width),
        home[2] + config.yOffset + index \div config.width>>

RomSize == rom_height * config.width * RomProcBytes

(* Every byte of the program that fits into the ROM is in the processor in *)
(* which the worker looks for it, at the index at which it reads it, and   *)
(* the processors from RAM_START_PROC on are RAM.                          *)
MemoryAgrees ==
  phase = "written" /\ Include("memory") =>
    /\ \A a \in 0..(SmallerOf(DataLength, RomSize) - 1) :
         \E b \in tiles :
           /\ b.kind = "rom" /\ <<b.x, b.y>> = RomPlace(a)
           /\ b.from <= a /\ a < b.to /\ a - b.from = a % RomProcBytes
    /\ \A n \in (rom_height * config.width)..(memory_height * config.width - 1) :
         Hit(RomPlace(n * RomProcBytes), {"ram"})
===============================================================================
