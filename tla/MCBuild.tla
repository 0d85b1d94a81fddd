-------------------------------- MODULE MCBuild --------------------------------
(* An instance of Build for TLC: nine characters of which names are made,  *)
(* three block ids per lookup table, short lists of instructions and CSRs, *)
(* and small memories.                                                     *)
EXTENDS Build

MCAlphabet == <<33, 36, 37, 40, 41, 60, 62, 64, 65>>
MCRamSizes == (1..20) \union (36..49) \union {64, 65}

Instruction(l, c, u, al, ad) == [label |-> l, count |-> c, upTo |-> u, align |-> al, address |-> ad]
SomeInstructions ==
  {Instruction(1, 1, -1, 4, -1), Instruction(2, 3, -1, 4, -1), Instruction(3, 1, -1, 1, -1),
   Instruction(4, 2, -1, 1, 7), Instruction(5, 1, 12, 1, -1), Instruction(6, 1, 9, 1, 9),
   Instruction(7, 1, 12, 2, -1), Instruction(8, 1, -1, 3, 2)}
InstructionLists == UNION {[1..n -> SomeInstructions] : n \in 0..4}

Csr(n, r, w, m) == [names |-> n, read |-> r, write |-> w, mask |-> m]
SomeCsrs ==
  {Csr(<<1>>, -2, -2, 3), Csr(<<1, 2>>, -2, 1, 1), Csr(<<2, 3>>, -2, -2, 0), Csr(<<3>>, 2, -1, 2),
   Csr(<<12>>, 2, -1, 1), Csr(<<12, 13>>, -2, -1, 3), Csr(<<13>>, 1, 2, 3), Csr(<<1, 9>>, 1, 1, 0)}
CsrLists == UNION {[1..n -> SomeCsrs] : n \in 0..3}
MCConfigFiles ==
  [instructions : InstructionLists, csrs : {<<>>}] \union [instructions : {<<>>}, csrs : CsrLists]
MCCsrAddresses == {1, 2, 3, 12, 13}
MCCsrNumbers == 0..13
MCReadLabels == [c \in MCCsrAddresses |-> c + 1]
MCWriteLabels == [c \in MCCsrAddresses |-> 19 - c]

Item(k, v) == [key |-> k, value |-> v]
ConfigStrings ==
  {Refused, <<Item("", 1)>>, <<Item("", 1), Item("", 1)>>, <<Item("", 2), Item("", 1), Item("", 1), Item("", 2)>>,
   <<Item("", 1), Item("", 2), Item("drom", 1), Item("width", 3)>>, <<Item("ram", 1), Item("rom", 2), Item("width", 2)>>,
   <<Item("rom", 1), Item("ram", Refused)>>, <<Item("icache", 1), Item("drom", 1)>>,
   <<Item("", 1), Item("", 1), Item("", 0), Item("", 2)>>,
   <<Item("", 1), Item("", 1), Item("", 1), Item("", 2), Item("", -9)>>,
   <<Item("", 1), Item("", 1), Item("width", 2), Item("x_offset", -20)>>}
NamedConfigs ==
  {[xOffset |-> -9, yOffset |-> -19, width |-> 32, programRom |-> 1, dataRom |-> 0, ram |-> 1, icache |-> 1]}
MCCommandLines ==
  [size : {0, 2, 17}, width : {1, 3}, height : {2, 16, 17}, bin : {0}, keyboard : BOOLEAN,
   parts : {{"all"}, {"cpu"}, {"peripherals", "cpu"}, {"debugger", "peripherals"}},
   named : {Refused}, items : {Refused, <<Item("", 1), Item("", 1), Item("", 1), Item("", 2)>>}]
    \union
  [size : {0}, width : {2}, height : {2}, bin : {0, 1, 4, 8, 11, 20}, keyboard : {TRUE},
   parts : {{}, {"all"}, {"memory"}, {"memory", "peripherals"}},
   named : {Refused}, items : ConfigStrings]
    \union
  [size : {0}, width : {2}, height : {2}, bin : {40}, keyboard : {TRUE},
   parts : {{"all"}}, named : NamedConfigs, items : {<<>>}]
=================================================================================
