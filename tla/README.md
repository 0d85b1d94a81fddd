# mlogv32 in TLA+

mlogv32 is a RISC-V computer built from Mindustry logic processors. The hart is
a program (`src/cpu/worker.mlog.jinja`) that many processors, the *workers*, run
in turns; another processor, the *controller*
(`src/cpu/controller.mlog.jinja`), resets it, watches the switches and the
UARTs and keeps the time. A Python package generates the code of all processors
and the schematic they are placed by. A server plugin (`mod/`) lets scripts
flash, start, step and dump the machine over a socket, and further scripts run
the RISC-V architecture tests, record every instruction, or connect terminals.

Three things make such a system hard to test. Processors have no locks: they
share memory banks and each other's variables, and the game suspends one after
any mlog instruction when its quota for the tick is used up. The plugin and the
scripts are threads that meet on the game's main thread. And the generated code
relies on agreements (addresses, slots, lengths, coordinates) between programs
that never see each other's output. This directory models these parts, checks
them with TLC and proves their safety properties with TLAPS.

Paths below are relative to the repository; W is `src/cpu/worker.mlog.jinja`,
C is `src/cpu/controller.mlog.jinja`, PA is
`mod/src/main/kotlin/gay/object/mlogv32/ProcessorAccess.kt`, and Python files
are named without `python/src/mlogv32/`.

## 1. Inventory

| Part | State | Operations | Interacts with |
| --- | --- | --- | --- |
| Hand-over between workers (W 32-150, C) | every processor's copy of the hart's variables, `state`, `@counter`, the controller's `prev_proc` | start of a turn: fetch the variables and `@counter` of `prev_proc`; end of a turn: nothing, the game just stops | all workers, the controller, the switches |
| Controller run control (C 100-370) | `state`, `skip_slow_init`, the power, pause and single-step switches | wait for power, reset, table initialisation, start, tick, breakpoint, halt, reboot | writes `@counter` and `state` of workers |
| UART registers (W 760-784, 933-1038, 1665-1732) | two circular buffers per port in a memory bank, `uart_flags` | load and store of RX, TX, Status, Control | controller, `uart_link`, the plugin |
| UART interrupts (C 374-448, W 154-167) | remembered read/write pointers, pending and enable bits, MEIP | poll once per tick; acknowledge by reading Status | the hart's `mip` |
| `uart_link.mlog` | a byte and a direction | copy bytes between two banks | two UARTs |
| `UartAccess.kt` | none | `read`, `write` on a bank | one UART |
| Traps, interrupts, CSRs (W 154-235, 324-486, 2150-2510) | `pc`, privilege mode and cached effective mode, `mstatus`, `mip`, `mie`, delegation, `xepc` | poll, fire, trap, SRET, MRET, CSR writes | UART, timers, controller tick |
| Local variables of a template (`preprocessor/extensions.py`) | names in use, free slots, next slot | declare, free, reset, render a name | text of W |
| Passes over rendered code (`preprocessor/parser/mlog.py`) | labels, open length assertion, saved variables | check saved variables, find labels, replace references, compare | W's computed jumps and hand-over |
| Configuration and dispatch tables (`preprocessor/models.py`, `cpu.yaml`) | slots, CSRs, labels | resolve instructions and CSRs, fill `LABELS`, `CSR_LABELS` | W's dispatch |
| Schematic (`preprocessor/app.py`) | tiles, links, metadata, ROM contents | check options, place, link, fill | W's `getlink`, the plugin's lookups |
| RAM and lookup processors (`scripts/ram_proc.py`) | lines of names, tables | build, lookup | W's `load_word`, the plugin's dump |
| `ProcessorAccess.kt` server | server thread and job, connection, posted bodies | start, stop, flash, dump, start the machine, wait, unpause, stop, status, serial | scripts, switches, UART |
| Python client and scripts (`processor_access.py`, `scripts/debug.py`, `riscof/`) | socket, results, signatures | request and answer; run tests; step | server |
| Terminal server (`scripts/terminal_server.py`) | three deques, an event, a thread per client | accept, forward output and input, shut down | serial endpoint of the plugin |
| Loads, stores, atomics (W 786-930, 1460-1660, 1990-2130) | RAM words, reservation set | LB..SW, LR/SC, AMO | MMIO, icache, translation |
| Sv32 translation (W 488-760) | `satp`, page tables in RAM | page walk | every access below M-mode |
| Instruction cache (W 237-321, 1040-1460) | decoded words next to RAM, `icache_var` | fetch, decode on store | stores, jumps, traps |
| Decoder, ALU (W 1040-1460, 1740-2130) | none | pure | registers |
| Timers (C 295-322, W 168-182) | `mtime`, `mtimecmp`, `stimecmp` | advance, compare | interrupts |
| Rust crates | `BufferedUartPort` ring buffer, embassy timer queue | read, write, alarms | UART, timer |
| Displays, keyboard, debugger | rendering | | |

What is hard about it:

* **turns end anywhere.** An instruction of the hart is begun by one worker and
  finished by another; everything it has read may have changed in between;
* **build order.** The order of turns in a tick depends on the order in which
  blocks were built and may be any;
* **outside writes.** The controller writes workers' `@counter` and `state`;
  software, players and the plugin race with it;
* **edge-triggered interrupts by polling,** computed from remembered pointers
  modulo the buffer size, acknowledged by a read that is not atomic;
* **flags that stand for work to do** (`interrupt_flags.poll` and `.fire`) and
  **cached values** (`effective_privilege_mode`, `icache_var`), which every path
  that changes their inputs must refresh;
* **late bodies.** A request is executed some frames after it was sent, on the
  main thread, which may itself be waiting for the thread that sent it;
* **leftovers.** A script starts on a machine, and a server on fields, that an
  earlier one left in any state;
* **generated agreements.** A length, a slot, a name or a coordinate that two
  generators, the worker and the plugin must all compute alike.

What makes each part correct:

* hand-over: the workers together are *one* hart, in any order of turns;
  a hart that is on executes, halts are honoured;
* UART: each buffer is a bounded FIFO for its two ends; linked ports are one
  FIFO; an interrupt-driven receiver is never left asleep on data;
* traps: no enabled interrupt is run past, returns restore what was
  interrupted, the mode rises only through a trap vector, cached modes are fresh;
* preprocessor: live names never share a slot; addresses and lengths of the
  final code are those that were asserted; silence of the saved-variable check
  means that nothing is lost at a hand-over;
* build: every word, handler, block and byte of ROM is where the worker and the
  plugin look for it;
* scripts and server: the signature and the error are the test's own, every
  step is recorded, a running server can be stopped, everything ends;
* terminal server: output is shared without loss or duplication, input keeps its
  order, a failure of one thread ends them all;
* memory, translation, cache, ALU (not modelled): loads return the last store,
  the walk is the reference walk, the cache agrees with memory, operators agree
  with the RISC-V definition at their edges.

## 2. Modules

| Module | Models | Uses |
| --- | --- | --- |
| `Hart` | what software sees: one hart that executes, stalls, stops, restarts | |
| `Handoff` | workers, controller run control, the game's turns | |
| `HandoffProps`, `MCHandoff`, `HandoffProofs` | properties, instance, proofs | `Handoff`, `Hart` |
| `BoundedFifo` | what a buffer promises: bounded queues, lossy only by explicit reset | |
| `Uart` | ports, register accesses, controller poll, `uart_link`, `UartAccess` | |
| `UartProps`, `MCUart`, `UartProofs` | properties, instance, proofs | `Uart`, `BoundedFifo` |
| `UartDriver`, `MCUartDriver` | an interrupt-driven receiver on a port | `Uart` |
| `Trap` | privilege modes, traps, interrupts, CSRs | |
| `TrapProps`, `MCTrap`, `TrapProofs` | properties, instance, proofs | `Trap` |
| `LocalVars`, `MCLocalVars`, `LocalVarsProofs` | the `LocalVariables` extension with its properties; instance; proofs | |
| `MlogPasses`, `MlogProps`, `MCMlog`, `MlogProofs` | the passes of `parser/mlog.py`; properties; instance; proofs | |
| `RamProc`, `RamProcProps` | `ram_proc build` and `lookup`, the worker's lookup of a name | |
| `BuildConfig`, `BuildConfigProps` | `cpu.yaml`, `LABELS`, `CSR_LABELS` and the dispatch through them | |
| `Layout`, `LayoutProps` | `preprocessor build`: options, tiles, links, metadata, ROM contents | |
| `Build`, `MCBuild`, `BuildProofs` | the two commands side by side, and what they must agree on; instance; proofs | the six above |
| `Access` | machine, client, riscof and debug scripts, the bodies of requests | |
| `Server` | the server thread: start, stop, end by itself, late bodies, lost connections | `Access` |
| `AccessProps`, `MCAccess`, `AccessProofs` | properties, instance, proofs | `Server` |
| `Terminal`, `TerminalProps`, `MCTerminal`, `TerminalProofs` | the threads of `terminal_server.py`; properties; instance; proofs | |

Variables and actions keep the source's names. `PROJECT.json` maps every
definition to its lines. A definition marked *Mutant* is a plausible slip in the
one that follows it; replacing the one by the other must break the property that
`PROJECT.json` lists with it.

### Hand-over (`Handoff`)

`state[p]`, `hart[p]` and `single[p]` are processor p's copies of `state`, of the
hart's variables and of `breakpoint_address = "*"`; `mem` is what all
processors share (registers, CSRs, RAM). The hart's variables and the memory
are abstracted to a count of executed steps modulo `Modulus`, which is enough to
see a step lost, repeated or done on stale variables. `counter[w]` is the piece
of code that w's `@counter` is in and `at[w]` the step it belongs to. A turn is
`StartTurn`, any number of steps, then the exhausted quota, `wait` or `stop`.
A worker's `WorkerIdle` and `WorkerTakesOver` are the two outcomes of
`next_tick` with `fetch_variables`; `Fetch`, `Execute` and their neighbours run
the hart; `PAUSE`/`WFI`, Syscon, breakpoints and the default trap handler leave
it. Each branch of the controller's `next_tick` is an action.

The scheduler is external. Assumed of it: the quota of a turn covers the
hand-over and one step of the hart, and it covers the few instructions with
which a worker leaves the hart after a halt (`worked` and the guard of
`QuotaExhausted`).

### UART (`Uart`, `UartDriver`)

The buffers, their four pointers per port, the flags and the controller's
remembered pointers are as in the code. `acc` holds the access in progress and
its locals. One action is a run of mlog instructions with at most one access to
memory that another processor writes: reading the RX pointers, reading the TX
pointers, reading the slot, advancing, and so on. Narrow stores are a load
followed by a store, as in the code. `txRoom` is history: the ports whose latest
Status said "TX not full", because the repository's README asks software to look
before it writes. `TurnEndsInAccess` says whether a worker's turn may end inside an
access, as it may in the game; every run has it TRUE, the theorems hold for both. The controller's poll is one action because it fits in one
turn, and `UartAccess` runs on the game's main thread.

### Traps (`Trap`)

One action per instruction, and `PollInterrupts`, `FireNothing` and
`FireInterrupt` between two of them; `Handoff` is what justifies ignoring the
change of workers. The controller's tick may fall between any two actions. `mip`
is split into the interrupt bits and `flags`; `src` is what `poll_interrupts`
would compute from `uart_flags`, `mtimecmp` and `stimecmp`. The fields of
`mstatus` that traps depend on are a record; MPP's reserved encoding is a value
that `csr_write_mstatus` turns into U. Addresses are a small set, and
instructions that do not touch this state go to any of them. Two history
variables: `ctx[x]`, what the latest trap to x interrupted, dropped when software
overwrites the saved state; and `reclaimed`, the interrupts M-mode has taken back
from S-mode since interrupts were last fired.

### Local variables (`LocalVars`)

`local_variables`, `freed_local_variables`, `local_variable_index` and
`largest_local_variable` are the fields of the extension; the sorted list of free
slots is a set of which the least is taken. A call of the template with several
names is the sequence `todo` of what its loop does, so an exception in the middle
leaves the earlier names changed, as in the code. Rendering a data token replaces
the names from left to right, and a name is declared on first use. History
variables remember slots that were handed out without a name.

### Passes (`MlogPasses`)

A syntax tree is a sequence of nodes, each a label, a statement or a directive.
Each pass is one action per node plus its end; the passes run in the order of
`app.py` 264-278 and stop at the first error. The last pass parses the rewritten
text again and compares it with the first tree. Text positions are node positions.

### Building (`RamProc`, `BuildConfig`, `Layout`, `Build`)

`RamProc`: one step is one iteration of `generate_code`; a name is a pair of
characters. `BuildConfig`: one step is one entry of a list; `LABELS` and
`CSR_LABELS` are then filled by the loops that the controller template generates, the
latter first with `ILLEGAL_OP` for every CSR (`FillDefaults`; what the same loop
writes to `INCR`, for the instruction cache, is left out), and the `Dispatch...`
operators are the worker's unpacking. `Layout`: one step per check and per placed group, one per memory processor; a block is a rectangle with
the coordinates of the code, and the contents of a memory processor are the
interval of file bytes in it. `RomPlace` is the worker's and the plugin's formula.
`Build` puts the commands side by side, because what they must agree on is
computed independently in each of them.

### Scripts and server (`Access`, `Server`)

The machine is three switches, the controller's place in its loop, the hart's
`state` and breakpoint, the instruction that is due and a history of executed
instructions; `Handoff` is the detailed model of the same loop. An instruction is
fetched (`Fetch`, where a breakpoint stops the hart) and executed later
(`Complete`), unless a trap or interrupt comes first, which stops at a breakpoint of
its own (`TakeTrap`, "trap_breakpoint"). Starting takes several ticks:
the controller sees the power switch (`PowerUp`), initialises and reads the other
switches (`ResetHart`, C 160-256), and only after another wait starts the hart
(`StartHart`, C 264), whatever the switches are by then. `address` says that
`BREAKPOINT_ADDRESS` is configured; as `pc` is abstracted the hart may then stop at
any instruction or trap. `unheard` remembers that the latest stop request came when
the controller would not look at the power switch again before the hart could stop
at a breakpoint. A game frame is one step: posted bodies first, then the processors,
the hart before the controller, after it or both, as PA posts to the main thread. A call of the client is a channel that goes from
*sent* to *posted* to *answered*. `runTests`, `run_test` and the loop of `debug`
are actions between calls. `Server` adds the thread: every write of
`serverThread`, `serverJob` and `serverBuildId` is a step, and so are the reads
before and after a `join`; the reads with which `stopServer` begins are one step with
its cancellation, because what a server thread can do between them has the same
effect before or after. `stopServer` makes the main thread wait in `join`, which keeps frames from happening, and a body that was
already posted still runs after its connection has been closed, but nobody is left
to be answered (`Frame` with `open = FALSE`). `Hung` is the state in which the main
thread joins a thread whose job it could not cancel. A computer that was removed and
built anew is noticed when the next client connects (`TurnAway`), in the
state any machine can be found in; the model does not remove it under a script that is
connected.

### Terminal server (`Terminal`)

One action per access to a deque that other threads use, an event or a socket; only
a handler's recv is one step with its look at the event and its append, for no other
thread reads its socket. `socketserver` is external
and modelled by the two flags it keeps; recv and sendall of non-blocking sockets
may fail wherever the code lets them.

## 3. Runs

| Run | Shows | Bounds |
| --- | --- | --- |
| `handoff` | at most one worker is the hart (`SingleOwner`, `Coherent`), messages are whole, no worker wakes up in the hart's code after a halt, the whole implements `Hart`, a hart that is on executes and halts happen | 2 workers, steps modulo 2, fair turns |
| `uart_all` | both buffers are bounded FIFOs, no unread slot is overwritten, no spurious MEIP | 1 port, capacity 2, 1 value, reboots; loads of RX and Status, stores to TX and Control, narrow stores to RX, TX and Status (the theorems are about every kind of access to every register) |
| `uart_link` | two linked ports are one FIFO | 2 ports, capacity 1, 2 values |
| `uart_driver` | no lost wake-up and every byte is read, but for the two known ways to lose one (section 4) | 1 port, capacity 2; accesses split anywhere, up to a whole turn of the buffer (3 bytes) per tick |
| `uart_driver_split` | *violated*: every byte is read (`RxIsAlwaysServed`) | the same, at most 2 bytes per tick, so only the split can lose one |
| `uart_tx_reset` | *violated*: TX reset empties the FIFO | |
| `trap` | no instruction runs past a takeable interrupt, effective mode, rising of the mode, nested returns | a polled external and a software interrupt, one exception, 2 vectors, 2 delegations, MPRV |
| `locals` | no two live names share a slot, nothing is leaked or freed twice, rendering is exact, a name keeps its slot | 3 names, all texts of up to 3 pieces, every kind of call in every order, 6 slots between resets |
| `mlog` | addresses, lengths, rewriting, saved variables | all programs of up to 4 nodes over labels and assertions and of up to 5 over saved variables |
| `build` | lookup, pages, tables, slots, CSRs, links, metadata, ROM contents | see below |
| `access` | signatures, errors, recorded steps, stoppable server, scripts end | 6 tests, 4 test lists, 2 machines, 1 trap, 1 tick per part of a start, 2 server threads, 2 scripts, 1 stop or start by a user |
| `terminal` | output shared, input in order, everything ends | 2 clients, 2 messages of output, 2 sent by one client, 1 typed line |

Why the bounds are enough.

* Hand-over: an owner and a worker that may take over wrongly; the invariants and
  the refinement are proved for any number of workers and any modulus.
* UART: capacity 2 gives empty, partly full and full with a wrap, and a stale
  pointer can be one or two behind. `uart_all` follows pointers and slots, for
  which one value suffices because `PortsAreFifos` compares lengths at every step
  and `ByteIsHeadHolds` is proved for all values; `uart_link` needs two values to
  tell a wrong byte. Capacity is configurable, so small ones are real.
* Traps: two handlers, and one address per vector that differs from the other. An
  external interrupt that is polled and a software interrupt that is written meet
  every mask and order; that delivery is right for any set of interrupts and delegations is proved.
  TSR only disables SRET and is off.
* Local variables: three names are a live one, a freed one and one that reuses its
  slot; the rest is proved for any set of names and calls.
* Passes: a bracketed region with a label and a statement inside and one outside,
  or two pushes, a pop and a write, fit in the bound.
* Build: nine characters and tables of three entries reach every remainder of a
  line, a table and a page; lists of up to four instructions and three CSR entries
  include overlap, alignment, `up_to` and repeated names; configurations cover each
  way of writing the memory sizes, every combination of parts that changes
  coordinates, and binaries of length 0 to 3 modulo 4, shorter and longer than the
  ROM.
* Access: a passing, a failing, a one-instruction and a skipped test, one whose
  binary is refused and one whose signature is no range of the RAM; the first
  script finds a machine that is off with the pause switch and an error left on, or
  one with a configured breakpoint that its program is just rebooting; the second
  one finds what a killed script leaves, at every point of its run. The old program
  takes a trap. A server is replaced once while a script uses it. One tick between
  the switches being read and the hart being started is enough for a request to
  fall between them (`InitTicks`; the proofs allow any number).
* Terminal: two handlers race for the last message; one client that sends and one
  that does not.

Deadlock is checked in every run: systems that end stutter explicitly.

**Fairness.** `handoff`: weak fairness of every processor's turn and of the
game's tick, because Mindustry updates every block in every tick; the switches
owe nothing. `uart_driver`: weak fairness of the hart and of the controller's
tick for the same reason, and strong fairness of the driver's next access: the
poll that each tick asks for disables it for a moment, and a worker's turn is
long enough to get past that poll. The peers that produce bytes owe nothing.
`access`: weak fairness of the main thread's frames, of each server thread and of
the running script, which the game and the operating system schedule; nobody is
obliged to press a button, start a server or run a script. `terminal`: weak fairness of each thread; clients,
keyboard and machine owe nothing.

## 4. What disagrees with the code's own words, and observations

Checked as runs:

* `uart_driver_split`: the repository's README promises edge-triggered interrupts
  for a non-empty RX FIFO. A Status load reads the pointers, and clears the pending
  bit some instructions later. If the turn ends in between and a byte arrives and is
  announced, the load returns "empty" and clears the announcement.
* `uart_tx_reset`: "reset TX FIFO" copies a `tx_read` read earlier; if the other
  end has advanced, old bytes are in the FIFO again.

Found while modelling. The models do what the code does, and the properties say
where they make an exception:

* C 406: the remembered read pointer is compared modulo the buffer, so when exactly
  a whole buffer is read between two polls new data is not announced (`lapped` of
  `UartDriver`, reached in `uart_driver`). This and the split of `uart_driver_split`
  (`cleared`) are the only ways to lose a wake-up: `RxIsServed` and `NoLostWakeup`
  except them and nothing else.
* W 205: an interrupt for M-mode is not taken in S-mode with SIE=0, as the FIXME
  there says. Writing `mideleg` sets no flag, so an interrupt that M-mode takes back
  with MIE set waits for the next tick (`reclaimed`).
* W 1616: the 32-bit store path reaches `store_mmio_word_unchecked` without the
  checks that the comment at W 1678 relies on.
* PA 315: `stopServer` between the start of a server thread and its assignment of
  `serverJob` cancels nothing and joins for ever, if the thread gets to serve: the
  main thread of the game stands still (`Hung`, reached in `access`; `ScriptEnds`
  excepts it). PA 140: an old thread may clear
  `serverBuildId` after a new server was started, and the button then shows a running
  server as stopped. A posted body runs after its server was stopped.
* C 167: the controller reads the switches once while it starts, and starts the hart
  a tick later without looking again. A stop request in between, of a hart that was
  to be single-stepped or with `BREAKPOINT_ADDRESS` configured, is seen only after
  the hart has fetched an instruction and stopped at it. If the next start request
  comes before the controller looks at the power switch, the stop is never seen, and
  the hart goes on with an instruction of the old ROM (`unheard`; `SignatureIsOwn`
  and `ErrorIsOwn` except it, and without the exception TLC finds it).
* C 367: with `BREAKPOINT_ADDRESS` configured the machine stops under riscof, whose
  wait is only for the power switch and never ends (`Stuck`; `ScriptEnds` excepts it).
* W 462: while it single-steps the hart also stops at a trap or interrupt, with no
  instruction executed since the last stop or the trapped one abandoned. `debug`
  records these stops like the others; `EveryStepRecorded` counts fetches and traps.
* A start request leaves the pause switch as it is, so `debug` records the first
  state twice if it was on (`EveryStepRecorded` excepts this).
* `terminal_server.py` 86: after Ctrl+C with a connected client, `server_close`
  joins a handler that waits for an event which is set only afterwards (`AllEnd`
  excepts this). Line 61: when the plugin closes the connection in order, `recv`
  returns no bytes, which is treated like no message: the worker goes on polling and
  nothing ends until it has something to send.
* `app.py` 563 and `riscof_mlogv32.py` 297 pad by `len % 4`, not up to a multiple of
  4. `app.py` 118 documents up to six positional configuration items, line 665 accepts
  two to four. The metadata names peripherals also when none are built.
* `models.py`: labels are packed with base 1000, so a worker must stay below 1000
  labelled addresses; of two labels with one name the last wins.
* `extensions.py`: `largest_local_variable` does not count slots that were handed out
  without a name.

## 5. Proofs

`tlapm` proves the following for every value of the constants that the named
assumptions allow: any number of workers, ports, slots, names, clients and server
threads, any program, configuration and command line. Every safety property that a
passing run checks is a theorem.

Where a proof needs induction over a sequence or over the numbers it is done on a
set: the least number outside a set that contains 0 and is closed under successor
does not exist (`SetInduction`, from `WFMin`), or the induction is the one of the
specification, whose steps are the iterations of the loop.

**`HandoffProofs`** (assumes `WorkersAssumption`, `ModulusAssumption`,
`NobodyAssumption`). `SingleOwner` is not inductive by itself: whether a worker
may enter the hart depends on the copy of `state` it fetches. `HandoffInv` adds
`OwnerInv`, which ties the owner's `state` to where its `@counter` is (running in
the hart's code, pausing at the `wait`, at a breakpoint at the `stop`), and
`ControllerInv`, which ties the controller's `@counter` to `prev_proc` and
`state`. From it follow `OneOwner`, `OwnerIsCoherent`, `MessageStaysWhole`,
`TypeCorrect`, and `Refinement`: every step of the system is a step of `Hart` or
leaves it unchanged. `ZombieFree` needs `LeaveInv` as well: a worker that is still
leaving has not had its turn since the hart was handed back, so the tick in which
the hart could be started again cannot begin before it is parked.

**`UartProofs`** (assumes the assumptions of `Uart` and `UartDriver`; all but
`TypeCorrect` and `MeipIsNotSpurious` for software that does not reset the TX FIFO,
`NoTxResets`, which `uart_tx_reset` shows to be necessary). `FifoInv` says what stale locals still
guarantee: the hart's copy of the pointer it owns is exact, its copy of the
other end's pointer lies between the two live pointers, and a port in `txRoom`
has room; the same for the link's byte and direction. Producers only advance the
write pointer into free slots and consumers only move the read pointer over live
ones, so each keeps the other's guarantee. `ByteIsHeadHolds`: the byte that an RX
load returns is the one it removes. `PortsRefineFifos` maps a buffer to the sequence
of its live slots (`Queue`): an advance of the write pointer appends the byte that
was put into the slot before, one of the read pointer drops the head, and a reset
drops a prefix. `LinkRefinesFifo`, for two linked ports (`bank1 \in Ports`), appends
to what the receiver holds the byte in the link's hands (`Carried`) and what the
sender holds (`CableQueue`); a byte passes from one to the next without changing the
sequence. `MeipIsNotSpurious` is inductive once it is stated in the middle of an
access too (`MeipInv`).

`DriverUsesUart` shows that the driver is one of the possible programs of `Uart`, so
all of this holds of it. `NoWakeupIsLost` holds wherever a turn ends and however much
is read between two polls, with the exceptions that `NoLostWakeup` states.
`DriverInv` says that the access in progress is the one the driver started
(`AccessInv`), that data announced at the current read pointer is there until it is
read, unless the pointer has come round (`PtrInv`), and that announced data has the
interrupt pending, or the driver awake and not yet past the pointer reads of a Status
that shows none (`Unseen`), or was lost in a known way (`WakeInv`).

**`TrapProofs`** (assumes the assumptions of `Trap`). `TypeCorrect` first; SPP is
well typed because a trap to S-mode never starts in M-mode. `EffectiveModeFresh`,
`HandlerContext` (what `ctx` remembers is still in the saved registers;
`ContextIsKept`) and `NoMissedInterrupt` are each inductive relative to types.
Steps are classified once (`StepKinds`) into traps, returns, status writes and
those that leave the mode alone. `ModeRisesByTrap` and `ReturnsAreExact` are
action properties that follow from these invariants.

**`LocalVarsProofs`** (assumes the assumptions of `LocalVars`). That live names
have different slots is not inductive: a new name gets a freed slot or the next
index, so free slots must be nobody's (`FreeSound`), every slot in use must lie
below the index (`Bounded`), slots without a name must be apart from the named
ones (`Apart`), and freed and used slots together must be exactly those handed out
(`Exact`). `Good` is the conjunction of these with `TypeOK`, `NoAlias` and
`LargestCovers`; `IInv` adds that the pending steps of a call are steps. From it
follow `SlotsAreNotShared`, `CountCovers` (the number of locals that the worker
saves covers every named slot), `NothingIsLeaked` and the action property
`SlotsAreKept`. `RenderingIsExact` adds `FilterInv`: the pieces filtered so far show
the slots of their names, which do not change before the token ends.

**`MlogProofs`** (assumes `ProgramsAssumption`, `NoneAssumption`).
`PassesInvariant` is the conjunction of the three loop invariants. `CheckInv`: the
region is that of the last mark, what is in `saved` was fetched under its own name or
pushed and not popped, and a node that was passed in silence was covered. `LabelInv`:
at node n the table has the last definition before n of every label, at the number of
statements before it, and the brackets before n are pairs of the demanded length, of
which the last may be open; the same for the second reading of the rewritten text.
`ReplaceInv`: the parts so far are the nodes so far, references replaced. Statements
are neither added nor removed by that, so the second reading finds the same labels
and the sanity checks cannot fail. `LabelsAreResolved`, `LengthsAreChecked`,
`RewriteIsExact` and `SilenceIsSafe` are the invariant at the end of its pass.

**`BuildProofs`** (assumes the assumptions of `RamProc`, `BuildConfig`, `Layout` and
`Build`). One invariant per command.

* `SlotsAreKept`: entries are resolved in the order of their ends, so an entry that is
  written to `LABELS` later starts at or after the end of every earlier one.
* `CsrsAreDispatched`: after entry n and name k the table has for each CSR what the
  last entry so far says (`CsrsInv`) and only CSRs that an entry names (`DefaultsInv`),
  so that every other variable keeps the default of `init_incr`; unpacking inverts
  packing because each of the two addresses is below `LabelBase`.
* `LookupsAgree`: the names taken so far are split into full chunks and one that is
  being filled, once by `LineSize` and once by `BlockIds` (`Split`); at the end each is
  found by division (`Covers`), and what is left of the last line is padding.
* `BuildToolsAgree`: a page is a whole number of first characters
  (`PagesAssumption`), and the characters are ordered.
* `MemoryIsFound`: each memory processor placed so far is at its row and column and
  has its part of the file (`Placed`, `LayoutInv`); moving the schematic moves the
  configuration processor with it.
* `BlocksAreFound`: peripherals, CPU, memory and debugger are in zones that do not
  meet (`BlocksInv`), within them groups of columns and rows do not, and every link and
  metadata point is in the zone of what it names. That the memory is below the rest
  (`CommandLinesAssumption`) is what `parse_config_str` computes and what
  `configs.yaml` has.

**`AccessProofs`** (assumes `TestsAssumption`, `ServerAssumption`,
`MachinesAssumption`). `ServerCanBeStopped` follows from `ServerInv`: at most one
thread may still use the fields, the main thread knows it, and its job is
`serverJob`. For the scripts, `AccessInvariant` describes the machine between any two
calls. riscof, unless its stop went unheard: after the stop request the machine is
off, with its switches off unless it still is at a breakpoint, and if it is still
starting a hart, it is one that will meet no breakpoint (`Stopped`), then `Flashed`, then `Started` or
already `Finished`, which is when a signature and an error can be read; `OwnRun` ties
the history of the machine and the instruction that is due to the flashed program
meanwhile. debug: the pause switch is on only at a stop (`PauseIsStop`), `Held` at the
recorded instruction or trap, and after an unpause `Gone` by at most one. A
frame is split into the hart's and the controller's moves (`TickPath`), and each phase
is shown to survive each move (`ControllerCases`, `HartCases`). `UnheardInv` says that
the exception recorded with a signature is the machine's. Two parts make it hold under stops
and restarts of the server. `LateInv`: a body that has outlived its connection meets
at most the first call of the next script, which promises nothing of the machine yet.
`AnswerInv`: an answer on its way is right even when the connection and the machine's
state have gone since. `SignaturesAreOwn`, `ErrorsAreOwn` and `EveryStepIsRecorded`
follow. `MachinesAssumption` is what a machine that a script finds has in common with
every reachable one: the controller's place agrees with the hart's state, and it
stays at a breakpoint only with both switches on.

**`TerminalProofs`** (assumes `BoundsAssumption`, `ClientsAssumption`). Output is
numbered; `OutputInv` says that the first `Taken` messages are with one client each or
lost with a handler that ended, and the deque and the socket hold the next ones in
order, so whichever handler pops takes the next. `InputInv` is the same for the first
`Posted(c)` messages of each client. `OutputIsShared` and `InputIsInOrder` follow from
`TerminalInvariant`, their conjunction.

**Only model-checked:** the five liveness properties `RunningHartExecutes`,
`StopIsHonoured`, `RxIsServed`, `ScriptEnds` and `AllEnd`, which need fairness and
ENABLED, and those are out of the prover's reach.

## 6. Not modelled, and the plan

Worth doing next, in this order:

1. `MemAccess`: address checks, narrow and 32-bit stores, LR/SC and AMO against a
   memory specification; the unchecked MMIO path.
2. `Icache`: fetch through `icache_var`, stores that re-decode, jumps and traps that
   invalidate; refinement of a memory from which instructions are always decoded.
3. `Sv32`: the page walk against a reference definition over small tables.
4. `Timer`: accumulation of `mtime`, carry, 64-bit comparison made of halves that are
   written separately; composed with `Trap` in place of the free `src`. The code
   computes with doubles, which TLC cannot; a fixed-point model must be justified
   first.
5. The serial request of the plugin: its loop reads a socket and a UART from two
   coroutines. Its effect on the UART is `SerialRead` and `SerialWrite` of `Uart`.
6. `BufferedUartPort` and the embassy timer of the Rust crates as clients of `Uart`
   and `Timer`.
7. `Alu`, `Decode`: operators at small widths against the RISC-V definition.

No safety property is left without a theorem; each of these modules should come with
its own.

Hazards that no property covers yet are listed with their reason in
`PROJECT.json`: the masked machine interrupt (known to the code), the unchecked
store path, the serial pump and the Rust ring buffer.

Left out for good: the configuration processor (constants), displays, keyboard and
debugger screens (rendering), the template language and the grammar (Jinja and Lark),
the bytes of a schematic (a library), command lines of compilers and simulators
(`riscof_sail_cSim.py` builds strings only), Linux and OpenSBI platform code
(third-party frameworks), and test programs and schematics.
