------------------------------- MODULE Handoff -------------------------------
(***************************************************************************)
(* One hart executed by many processors.  In every game tick each worker   *)
(* and the controller gets one turn of bounded length.  The worker whose   *)
(* turn starts copies every variable of the hart and @counter from the     *)
(* worker that ran last (the controller's prev_proc) and carries on in the *)
(* middle of whatever instruction that one was suspended in.               *)
(*   worker.mlog.jinja:     reset, next_tick and the places that leave the *)
(*                          hart's code (breakpoint, PAUSE/WFI, Syscon,    *)
(*                          default_xtvec_handler)                         *)
(*   controller.mlog.jinja: halt, reset, next_tick, breakpoint             *)
(* Mindustry's scheduler is external: the order of the turns in a tick is  *)
(* arbitrary ("build-order-independent"), a turn may end after any         *)
(* instruction, and wait and stop give up the rest of it.                  *)
(***************************************************************************)
EXTENDS Naturals

CONSTANTS
  Workers,    \* the worker processors
  ctrl,       \* the controller
  Modulus     \* instructions are counted modulo this

ASSUME WorkersAssumption == Workers # {} /\ ctrl \notin Workers
ASSUME ModulusAssumption == Modulus \in Nat \ {0, 1}

VARIABLES
  prev_proc,            \* the controller's variable of that name
  state, hart, single,  \* every processor's copies of state, of the hart's
                        \* variables, and of breakpoint_address = "*"
  counter, at,          \* every worker's @counter: which code, and which
                        \* instruction of the program it belongs to
  textbuf,              \* workers with text printed and not yet flushed
  mem,                  \* REGISTERS, CSRS and RAM: shared by all processors
  cpc, skip_slow_init,  \* the controller's @counter and its variable
  power, pause, step,   \* POWER_SWITCH, PAUSE_SWITCH, SINGLE_STEP_SWITCH
  cur, ran, worked      \* whose turn it is, who had one in this tick, and
                        \* whether this turn got past its first instructions

workerVars == <<counter, at, textbuf>>
ctrlVars == <<cpc, skip_slow_init>>
switches == <<power, pause, step>>
vars == <<prev_proc, state, hart, single, workerVars, mem, ctrlVars, switches,
          cur, ran, worked>>

Procs == Workers \union {ctrl}
nobody == "nobody"
ASSUME NobodyAssumption == nobody \notin Procs
States == {"halt", "reset", "running", "pause", "breakpoint"}
Succ(n) == (n + 1) % Modulus

-----------------------------------------------------------------------------
(* Turns (external: the game's scheduler)                                  *)

StartTurn(p) ==
  /\ cur = nobody /\ p \notin ran
  /\ cur' = p /\ worked' = FALSE
  /\ UNCHANGED <<prev_proc, state, hart, single, workerVars, mem, ctrlVars, switches, ran>>

Yield(p) == cur' = nobody /\ ran' = ran \union {p} /\ UNCHANGED worked

(* The instruction quota is used up.  It covers the hand-over and then at  *)
(* least one step of the hart, and all of the code that leaves the hart.   *)
QuotaExhausted(w) ==
  /\ cur = w /\ worked
  /\ counter[w] \in {"main", "handler", "stop", "print", "flush", "jump_reset"}
  /\ Yield(w)
  /\ UNCHANGED <<prev_proc, state, hart, single, workerVars, mem, ctrlVars, switches>>

NextGameTick ==
  /\ ran = Procs
  /\ ran' = {}
  /\ UNCHANGED <<prev_proc, state, hart, single, workerVars, mem, ctrlVars, switches,
                 cur, worked>>

-----------------------------------------------------------------------------
(* A worker's turn                                                         *)

(* reset: load the configuration, then wait for the next tick.             *)
WorkerReset(w) ==
  /\ cur = w /\ counter[w] = "reset"
  /\ counter' = [counter EXCEPT ![w] = "next_tick"]
  /\ Yield(w)
  /\ UNCHANGED <<prev_proc, state, hart, single, at, textbuf, mem, ctrlVars, switches>>

(* next_tick: fetch_variables; unless running, jump to reset and wait.     *)
WorkerIdle(w) ==
  /\ cur = w /\ counter[w] = "next_tick"
  /\ state[prev_proc] # "running"
  /\ state' = [state EXCEPT ![w] = state[prev_proc]]
  /\ hart' = [hart EXCEPT ![w] = hart[prev_proc]]
  /\ single' = [single EXCEPT ![w] = single[prev_proc]]
  /\ Yield(w)
  /\ UNCHANGED <<prev_proc, workerVars, mem, ctrlVars, switches>>

(* Mutant: the previous worker is not parked. *)
TakesOverWithoutParking(w) ==
  /\ cur = w /\ counter[w] = "next_tick"
  /\ state[prev_proc] = "running"
  /\ state' = [state EXCEPT ![w] = "running"]
  /\ hart' = [hart EXCEPT ![w] = hart[prev_proc]]
  /\ single' = [single EXCEPT ![w] = single[prev_proc]]
  /\ prev_proc' = w
  /\ counter' = [counter EXCEPT ![w] = IF prev_proc = ctrl THEN "main" ELSE counter[prev_proc]]
  /\ at' = [at EXCEPT ![w] = IF prev_proc = ctrl THEN 0 ELSE at[prev_proc]]
  /\ UNCHANGED <<textbuf, mem, ctrlVars, switches, cur, ran, worked>>

(* Mutant: the hart's variables are missing from fetch_variables. *)
TakesOverWithoutFetching(w) ==
  /\ cur = w /\ counter[w] = "next_tick"
  /\ state[prev_proc] = "running"
  /\ state' = [state EXCEPT ![w] = "running"]
  /\ single' = [single EXCEPT ![w] = single[prev_proc]]
  /\ prev_proc' = w
  /\ counter' = [v \in Workers |->
                   IF v = w THEN IF prev_proc = ctrl THEN "main" ELSE counter[prev_proc]
                            ELSE IF v = prev_proc THEN "next_tick" ELSE counter[v]]
  /\ at' = [at EXCEPT ![w] = IF prev_proc = ctrl THEN 0 ELSE at[prev_proc]]
  /\ UNCHANGED <<hart, textbuf, mem, ctrlVars, switches, cur, ran, worked>>

(* next_tick: take the hart over from prev_proc, at its @counter, and park *)
(* prev_proc at next_tick; a hart that was just started begins at its      *)
(* reset vector.                                                           *)
WorkerTakesOver(w) ==
  /\ cur = w /\ counter[w] = "next_tick"
  /\ state[prev_proc] = "running"
  /\ state' = [state EXCEPT ![w] = "running"]
  /\ hart' = [hart EXCEPT ![w] = hart[prev_proc]]
  /\ single' = [single EXCEPT ![w] = single[prev_proc]]
  /\ prev_proc' = w
  /\ IF prev_proc = ctrl
       THEN /\ counter' = [counter EXCEPT ![w] = "main"]
            /\ at' = [at EXCEPT ![w] = 0]
       ELSE /\ counter' = [counter EXCEPT ![prev_proc] = "next_tick",
                                          ![w] = counter[prev_proc]]
            /\ at' = [at EXCEPT ![w] = at[prev_proc]]
  /\ UNCHANGED <<textbuf, mem, ctrlVars, switches, cur, ran, worked>>

(* main: fetch, then either a breakpoint or the instruction's handler.     *)
Fetch(w) ==
  /\ cur = w /\ counter[w] = "main" /\ ~single[w]
  /\ counter' = [counter EXCEPT ![w] = "handler"]
  /\ worked' = TRUE
  /\ UNCHANGED <<prev_proc, state, hart, single, at, textbuf, mem, ctrlVars, switches,
                 cur, ran>>

(* breakpoint_address is "*" or equals pc, before an instruction or, as    *)
(* "trap_breakpoint", in trap__common; stop leaves @counter at itself.     *)
Breakpoint(w) ==
  /\ cur = w /\ counter[w] \in {"main", "handler"}
  /\ state' = [state EXCEPT ![w] = "breakpoint"]
  /\ counter' = [counter EXCEPT ![w] = "stop"]
  /\ worked' = TRUE
  /\ UNCHANGED <<prev_proc, hart, single, at, textbuf, mem, ctrlVars, switches, cur, ran>>

Stopped(w) ==
  /\ cur = w /\ counter[w] = "stop"
  /\ Yield(w)
  /\ UNCHANGED <<prev_proc, state, hart, single, workerVars, mem, ctrlVars, switches>>

(* The handler's effects on the hart's variables and on shared memory.     *)
Retire(w) ==
  /\ hart' = [hart EXCEPT ![w] = Succ(@)]
  /\ at' = [at EXCEPT ![w] = Succ(@)]
  /\ counter' = [counter EXCEPT ![w] = "main"]
  /\ mem' = Succ(mem)

Execute(w) ==
  /\ cur = w /\ counter[w] = "handler"
  /\ Retire(w)
  /\ worked' = TRUE
  /\ UNCHANGED <<prev_proc, state, single, textbuf, ctrlVars, switches, cur, ran>>

(* pause_one_tick: the other workers keep off while state is "pause".      *)
Pause(w) ==
  /\ cur = w /\ counter[w] = "handler"
  /\ state' = [state EXCEPT ![w] = "pause"]
  /\ counter' = [counter EXCEPT ![w] = "pause"]
  /\ Yield(w)
  /\ UNCHANGED <<prev_proc, hart, single, at, textbuf, mem, ctrlVars, switches>>

EndPause(w) ==
  /\ cur = w /\ counter[w] = "pause"
  /\ state' = [state EXCEPT ![w] = "running"]
  /\ Retire(w)
  /\ worked' = TRUE
  /\ UNCHANGED <<prev_proc, single, textbuf, ctrlVars, switches, cur, ran>>

(* A store to the Syscon: state first, then jump to reset.                 *)
Syscon(w, s) ==
  /\ cur = w /\ counter[w] = "handler"
  /\ state' = [state EXCEPT ![w] = s]
  /\ counter' = [counter EXCEPT ![w] = "jump_reset"]
  /\ UNCHANGED <<prev_proc, hart, single, at, textbuf, mem, ctrlVars, switches,
                 cur, ran, worked>>

(* Mutant: state is not set before printing. *)
UnhandledTrapLate(w) ==
  /\ cur = w /\ counter[w] = "handler"
  /\ counter' = [counter EXCEPT ![w] = "print"]
  /\ UNCHANGED <<prev_proc, state, hart, single, at, textbuf, mem, ctrlVars, switches,
                 cur, ran, worked>>

(* default_xtvec_handler: state first, then print, printflush, reset.      *)
UnhandledTrap(w) ==
  /\ cur = w /\ counter[w] = "handler"
  /\ state' = [state EXCEPT ![w] = "halt"]
  /\ counter' = [counter EXCEPT ![w] = "print"]
  /\ UNCHANGED <<prev_proc, hart, single, at, textbuf, mem, ctrlVars, switches,
                 cur, ran, worked>>

PrintText(w) ==
  /\ cur = w /\ counter[w] = "print"
  /\ textbuf' = textbuf \union {w}
  /\ counter' = [counter EXCEPT ![w] = "flush"]
  /\ UNCHANGED <<prev_proc, state, hart, single, at, mem, ctrlVars, switches,
                 cur, ran, worked>>

FlushText(w) ==
  /\ cur = w /\ counter[w] = "flush"
  /\ textbuf' = textbuf \ {w}
  /\ counter' = [counter EXCEPT ![w] = "jump_reset"]
  /\ UNCHANGED <<prev_proc, state, hart, single, at, mem, ctrlVars, switches,
                 cur, ran, worked>>

JumpReset(w) ==
  /\ cur = w /\ counter[w] = "jump_reset"
  /\ counter' = [counter EXCEPT ![w] = "next_tick"]
  /\ Yield(w)
  /\ UNCHANGED <<prev_proc, state, hart, single, at, textbuf, mem, ctrlVars, switches>>

WorkerStep(w) ==
  \/ WorkerReset(w) \/ WorkerIdle(w) \/ WorkerTakesOver(w)
  \/ Fetch(w) \/ Breakpoint(w) \/ Stopped(w) \/ Execute(w)
  \/ Pause(w) \/ EndPause(w) \/ (\E s \in {"halt", "reset"} : Syscon(w, s))
  \/ UnhandledTrap(w) \/ PrintText(w) \/ FlushText(w) \/ JumpReset(w)
  \/ QuotaExhausted(w)

-----------------------------------------------------------------------------
(* The controller's turn                                                   *)

(* reset: announce "halt" and loop until the power switch is on.           *)
WaitForPower ==
  /\ cur = ctrl /\ cpc = "reset"
  /\ prev_proc' = ctrl
  /\ state' = [state EXCEPT ![ctrl] = "halt"]
  /\ cpc' = IF power THEN "init" ELSE "reset"
  /\ Yield(ctrl)
  /\ UNCHANGED <<hart, single, workerVars, mem, skip_slow_init, switches>>

(* Mutant: the controller's copy of the hart survives the reset. *)
ClearMemoryOnly ==
  /\ single' = [single EXCEPT ![ctrl] = pause \/ step]
  /\ mem' = 0
  /\ cpc' = "start"
  /\ UNCHANGED hart

(* Clear the hart: registers, CSRs, the controller's copy of the rest.     *)
ClearHart ==
  /\ hart' = [hart EXCEPT ![ctrl] = 0]
  /\ single' = [single EXCEPT ![ctrl] = pause \/ step]
  /\ mem' = 0
  /\ cpc' = "start"

(* The tables are built once, over several turns; then the hart is reset.  *)
Initialize ==
  /\ cur = ctrl /\ cpc = "init"
  /\ prev_proc' = ctrl
  /\ state' = [state EXCEPT ![ctrl] = "reset"]
  /\ IF skip_slow_init
       THEN ClearHart
       ELSE cpc' = "slow_init" /\ UNCHANGED <<hart, single, mem>>
  /\ Yield(ctrl)
  /\ UNCHANGED <<workerVars, skip_slow_init, switches>>

SlowInit ==
  /\ cur = ctrl /\ cpc = "slow_init"
  /\ skip_slow_init' = TRUE
  /\ ClearHart
  /\ Yield(ctrl)
  /\ UNCHANGED <<prev_proc, state, workerVars, switches>>

(* Start the workers; the rest is next_tick's wait.                        *)
StartWorkers ==
  /\ cur = ctrl /\ cpc = "start"
  /\ prev_proc' = ctrl
  /\ state' = [state EXCEPT ![ctrl] = "running"]
  /\ cpc' = "next_tick"
  /\ Yield(ctrl)
  /\ UNCHANGED <<hart, single, workerVars, mem, skip_slow_init, switches>>

(* fetch_variables into the controller.                                    *)
FetchedHart == [hart EXCEPT ![ctrl] = hart[prev_proc]]
FetchedSingle == [single EXCEPT ![ctrl] = single[prev_proc]]

(* Mutant: halt does not go on to reset. *)
HaltSwitchesOnly ==
  /\ power' = FALSE /\ pause' = FALSE /\ step' = FALSE
  /\ UNCHANGED <<prev_proc, state, cpc>>

(* halt: the switches off, then reset with the power switch read as off.   *)
Halt ==
  /\ power' = FALSE /\ pause' = FALSE /\ step' = FALSE
  /\ prev_proc' = ctrl
  /\ state' = [state EXCEPT ![ctrl] = "halt"]
  /\ cpc' = "reset"

(* next_tick, a worker asked for a halt.                                   *)
WorkerHalts ==
  /\ cur = ctrl /\ cpc = "next_tick" /\ state[prev_proc] = "halt"
  /\ Halt
  /\ hart' = FetchedHart /\ single' = FetchedSingle
  /\ Yield(ctrl)
  /\ UNCHANGED <<workerVars, mem, skip_slow_init>>

(* Mutant: straight to the start, without the ticks of a reset. *)
WorkerRebootsAtOnce ==
  /\ cur = ctrl /\ cpc = "next_tick" /\ state[prev_proc] = "reset"
  /\ prev_proc' = ctrl
  /\ state' = [state EXCEPT ![ctrl] = "reset"]
  /\ cpc' = "start"
  /\ hart' = FetchedHart /\ single' = FetchedSingle
  /\ Yield(ctrl)
  /\ UNCHANGED <<workerVars, mem, skip_slow_init, switches>>

(* next_tick, a worker asked for a reboot: reset, the power switch as is.  *)
WorkerReboots ==
  /\ cur = ctrl /\ cpc = "next_tick" /\ state[prev_proc] = "reset"
  /\ prev_proc' = ctrl
  /\ state' = [state EXCEPT ![ctrl] = "halt"]
  /\ cpc' = IF power THEN "init" ELSE "reset"
  /\ hart' = FetchedHart /\ single' = FetchedSingle
  /\ Yield(ctrl)
  /\ UNCHANGED <<workerVars, mem, skip_slow_init, switches>>

(* next_tick, a worker is at a breakpoint: the switches show it.           *)
EnterBreakpoint ==
  /\ cur = ctrl /\ cpc = "next_tick" /\ state[prev_proc] = "breakpoint"
  /\ step' = TRUE /\ pause' = TRUE
  /\ cpc' = "breakpoint"
  /\ state' = [state EXCEPT ![ctrl] = "breakpoint"]
  /\ hart' = FetchedHart /\ single' = FetchedSingle
  /\ Yield(ctrl)
  /\ UNCHANGED <<prev_proc, workerVars, mem, skip_slow_init, power>>

(* state->halt: the power switch is off, restart the executing processor;  *)
(* if no worker has taken the hart over yet, that is the controller itself. *)
PowerLost ==
  /\ cur = ctrl /\ ~power
  /\ \/ cpc = "next_tick" /\ state[prev_proc] \in {"running", "pause"}
     \/ cpc = "breakpoint"
  /\ counter' = [w \in Workers |-> IF w = prev_proc THEN "reset" ELSE counter[w]]
  /\ Halt
  /\ skip_slow_init' = (skip_slow_init /\ prev_proc # ctrl)
  /\ hart' = FetchedHart /\ single' = FetchedSingle
  /\ Yield(ctrl)
  /\ UNCHANGED <<at, textbuf, mem>>

(* The normal tick: the hart goes on with the new breakpoint address.      *)
ControllerTick ==
  /\ cur = ctrl /\ cpc = "next_tick" /\ power
  /\ state[prev_proc] \in {"running", "pause"}
  /\ hart' = FetchedHart
  /\ single' = [single EXCEPT ![ctrl] = pause \/ step, ![prev_proc] = pause \/ step]
  /\ state' = [state EXCEPT ![ctrl] = state[prev_proc]]
  /\ Yield(ctrl)
  /\ UNCHANGED <<prev_proc, workerVars, mem, ctrlVars, switches>>

BreakpointLoop ==
  /\ cur = ctrl /\ cpc = "breakpoint" /\ power /\ step /\ pause
  /\ Yield(ctrl)
  /\ UNCHANGED <<prev_proc, state, hart, single, workerVars, mem, ctrlVars, switches>>

(* Mutant: @counter still points at the stop instruction. *)
LeaveBreakpointAtStop ==
  /\ cur = ctrl /\ cpc = "breakpoint" /\ power /\ ~(step /\ pause)
  /\ pause' = FALSE
  /\ state' = [state EXCEPT ![ctrl] = "running", ![prev_proc] = "running"]
  /\ single' = [single EXCEPT ![ctrl] = step, ![prev_proc] = step]
  /\ cpc' = "next_tick"
  /\ Yield(ctrl)
  /\ UNCHANGED <<prev_proc, hart, workerVars, mem, skip_slow_init, power, step>>

(* breakpoint__end_loop: past the stop, running again, on with the tick.   *)
LeaveBreakpoint ==
  /\ cur = ctrl /\ cpc = "breakpoint" /\ power /\ ~(step /\ pause)
  /\ pause' = FALSE
  /\ counter' = [counter EXCEPT ![prev_proc] = "handler"]
  /\ state' = [state EXCEPT ![ctrl] = "running", ![prev_proc] = "running"]
  /\ single' = [single EXCEPT ![ctrl] = step, ![prev_proc] = step]
  /\ cpc' = "next_tick"
  /\ Yield(ctrl)
  /\ UNCHANGED <<prev_proc, hart, at, textbuf, mem, skip_slow_init, power, step>>

ControllerStep ==
  \/ WaitForPower \/ Initialize \/ SlowInit \/ StartWorkers
  \/ WorkerHalts \/ WorkerReboots \/ EnterBreakpoint \/ PowerLost
  \/ ControllerTick \/ BreakpointLoop \/ LeaveBreakpoint

(* A player, or the server plugin, operates a switch between two turns.    *)
OperateSwitch ==
  /\ cur = nobody
  /\ \/ power' = ~power /\ UNCHANGED <<pause, step>>
     \/ pause' = ~pause /\ UNCHANGED <<power, step>>
     \/ step' = ~step /\ UNCHANGED <<power, pause>>
  /\ UNCHANGED <<prev_proc, state, hart, single, workerVars, mem, ctrlVars, cur, ran, worked>>

-----------------------------------------------------------------------------
Init ==
  /\ prev_proc = ctrl
  /\ state = [p \in Procs |-> "halt"]
  /\ hart = [p \in Procs |-> 0]
  /\ single = [p \in Procs |-> FALSE]
  /\ counter = [w \in Workers |-> "reset"]
  /\ at = [w \in Workers |-> 0]
  /\ textbuf = {}
  /\ mem = 0
  /\ cpc = "reset" /\ skip_slow_init = FALSE
  /\ power = FALSE /\ pause = FALSE /\ step = FALSE
  /\ cur = nobody /\ ran = {} /\ worked = FALSE

Turn(p) == StartTurn(p) \/ (IF p = ctrl THEN ControllerStep ELSE WorkerStep(p))

Next == (\E p \in Procs : Turn(p)) \/ NextGameTick \/ OperateSwitch

Spec == Init /\ [][Next]_vars
===============================================================================
