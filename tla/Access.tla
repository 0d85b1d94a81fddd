--------------------------------- MODULE Access ---------------------------------
(***************************************************************************)
(* The scripts that drive the computer over a socket (riscof and debug),   *)
(* the server plugin that serves their requests, and the machine as they   *)
(* see it: three switches that the controller polls once per tick.         *)
(*                                                                         *)
(* The server runs the body of a request on the main thread of the game,   *)
(* at the start of a frame; then the processors are updated.  A frame is   *)
(* one step, in which the hart moves before the controller, after it, or   *)
(* both: one worker is updated earlier than the controller, another later. *)
(* The game is not paused and one script runs at a time.  Module Server    *)
(* says when the server is there.                                          *)
(*                                                                         *)
(* A program is a test with Length[t] instructions, the last of which      *)
(* halts; it fails if it prints to ERROR_OUTPUT first.  An instruction is  *)
(* fetched and then executed, unless a trap or an interrupt comes first.   *)
(* run is the history of what has been executed since the reset, and so    *)
(* stands for what the program has left in the RAM.                        *)
(***************************************************************************)
EXTENDS Integers, Sequences

CONSTANTS Tests, Length, Fails,
          Traps,         \* bound: traps that a run of the test takes
          BadFiles,      \* tests whose binary flashRom refuses
          BadSignatures, \* tests whose signature is no range of words in the RAM
          Skipped,       \* tests whose name holds an entry of skip_tests
          TestLists,     \* test_list.yaml as RISCOF writes it
          Machines,      \* states of the machine when the script connects
          InitTicks      \* ticks that a part of the controller's initialisation may take

ASSUME TestsAssumption ==
  /\ Length \in [Tests -> Nat \ {0}] /\ Fails \in [Tests -> BOOLEAN] /\ Traps \in [Tests -> Nat]
  /\ BadFiles \subseteq Tests /\ BadSignatures \subseteq Tests /\ Skipped \subseteq Tests
  /\ TestLists \subseteq Seq(Tests) /\ InitTicks \subseteq Nat

(* The switches; the controller and how long it stays there; the hart and  *)
(* its breakpoints: stepping is breakpoint_address = "*", address says     *)
(* that BREAKPOINT_ADDRESS is configured; the instruction that is due; the *)
(* program and what has been executed of it.  Histories: steps counts the  *)
(* instructions fetched and the traps taken, seen is what the controller   *)
(* shows of them, unheard says that the latest stop request came when the  *)
(* controller would not look at the power switch again before the hart     *)
(* could stop (between get_breakpoint_address and the first next_tick).    *)
MachineStates ==
  [power : BOOLEAN, single : BOOLEAN, pause : BOOLEAN,
   ctl : {"waiting", "init", "ready", "run", "break"}, ticks : Nat,
   state : {"halt", "reset", "running", "breakpoint", "trap_breakpoint"},
   stepping : BOOLEAN, address : BOOLEAN, due : BOOLEAN, fetched : Tests, traps : Nat,
   rom : Tests, run : Seq(Tests), error : BOOLEAN, steps : Nat, seen : Nat, unheard : BOOLEAN]

AtBreakpoint(m) == m.state \in {"breakpoint", "trap_breakpoint"}

(* Where the controller is, as the hart's state tells                      *)
Consistent(m) ==
  /\ m.ctl = "waiting" => m.state = "halt"
  /\ m.ctl = "init" => m.state = "reset"
  /\ m.ctl = "ready" => /\ m.state = "reset" /\ m.run = <<>> /\ ~m.due /\ ~m.error
                        /\ m.steps = 0 /\ m.seen = 0 /\ m.traps = 0
  /\ m.ctl = "break" => AtBreakpoint(m) /\ m.seen = m.steps

(* The controller has seen the switches: it stays at a breakpoint only     *)
(* while both of them are on.                                              *)
Settled(m) == m.ctl = "break" => m.single /\ m.pause

ASSUME MachinesAssumption ==
  \A m \in Machines : m \in MachineStates /\ Consistent(m) /\ Settled(m)

VARIABLES machine,   \* switches, controller, hart, ROM, run
          script,    \* "riscof" or "debug"
          tests,     \* the tests left to run
          call,      \* the request being made
          channel,   \* "idle", "sent", "posted", "answered"
          response,
          results,   \* debug: the statuses recorded
          signatures,\* riscof: <<test, what was dumped, was the stop unheard?>>
          outcome    \* "" while the script runs

scriptVars == <<script, tests, results, signatures, outcome>>
accessVars == <<machine, scriptVars, call, channel, response>>

-----------------------------------------------------------------------------
(* The controller, once per tick                                           *)
Off(m) ==
  [m EXCEPT !.ctl = "waiting", !.state = "halt",
            !.power = FALSE, !.pause = FALSE, !.single = FALSE]

Stepping(m) == m.single \/ m.pause

(* reset: the controller goes on as soon as the power switch is on.        *)
PowerUp(m) ==
  IF m.power THEN {[m EXCEPT !.ctl = "init", !.state = "reset", !.ticks = n] : n \in InitTicks}
  ELSE {[m EXCEPT !.ctl = "waiting", !.state = "halt"]}

(* Mutant: the error of the last run is kept. *)
ResetHartKeepsError(m) ==
  [m EXCEPT !.ctl = "ready", !.run = <<>>, !.due = FALSE, !.traps = 0,
            !.steps = 0, !.seen = 0, !.stepping = Stepping(m)]

(* ERROR_OUTPUT is cleared, the switches are read, the hart is reset.      *)
ResetHart(m) ==
  [m EXCEPT !.ctl = "ready", !.run = <<>>, !.due = FALSE, !.traps = 0, !.error = FALSE,
            !.steps = 0, !.seen = 0, !.stepping = Stepping(m)]

(* After a wait the workers are started, whatever the switches are now.    *)
StartHart(m) == [m EXCEPT !.ctl = "run", !.state = "running"]

(* Mutant: the breakpoint is left without a new stop. *)
EndBreakpointRunsOn(m) ==
  [m EXCEPT !.ctl = "run", !.state = "running", !.pause = FALSE, !.stepping = FALSE]

(* end_breakpoint: @counter of the worker is moved past the stop.          *)
EndBreakpoint(m) ==
  [m EXCEPT !.ctl = "run", !.state = "running", !.pause = FALSE, !.stepping = m.single]

(* next_tick, where the controller fetches the variables of the hart       *)
NextTick(m) ==
  CASE AtBreakpoint(m) ->
         {[m EXCEPT !.ctl = "break", !.single = TRUE, !.pause = TRUE, !.seen = m.steps]}
    [] m.state = "reset" -> PowerUp([m EXCEPT !.seen = m.steps])
    [] m.state = "halt" \/ (m.state = "running" /\ ~m.power) -> {[Off(m) EXCEPT !.seen = m.steps]}
    [] m.state = "running" /\ m.power -> {[m EXCEPT !.stepping = Stepping(m), !.seen = m.steps]}

ControllerTick(m) ==
  CASE m.ctl = "waiting" -> PowerUp(m)
    [] m.ctl \in {"init", "ready"} /\ m.ticks > 0 -> {[m EXCEPT !.ticks = @ - 1]}
    [] m.ctl = "init" /\ m.ticks = 0 -> {[ResetHart(m) EXCEPT !.ticks = n] : n \in InitTicks}
    [] m.ctl = "ready" /\ m.ticks = 0 -> {StartHart(m)}
    [] m.ctl = "run" -> NextTick(m)
    [] m.ctl = "break" /\ ~m.power -> {Off(m)}
    [] m.ctl = "break" /\ m.power /\ ~(m.single /\ m.pause) -> {EndBreakpoint(m)}
    [] OTHER -> {m}

(* The hart stops at every instruction and trap, or where pc is the        *)
(* configured address, which may be any.                                   *)
StopsHere(m) == IF m.stepping THEN {TRUE} ELSE IF m.address THEN BOOLEAN ELSE {FALSE}

(* An instruction is fetched, then the breakpoint is checked.              *)
Fetch(m) ==
  {[m EXCEPT !.due = TRUE, !.fetched = m.rom, !.steps = @ + 1,
             !.state = IF stop THEN "breakpoint" ELSE @] : stop \in StopsHere(m)}

(* An interrupt before the fetch, a fault of the fetch or an exception of  *)
(* the instruction: trap__common checks the breakpoint too.                *)
TakeTrap(m) ==
  {[m EXCEPT !.due = FALSE, !.traps = @ + 1, !.steps = @ + 1,
             !.state = IF stop THEN "trap_breakpoint" ELSE @] : stop \in StopsHere(m)}

(* The instruction that was fetched is executed; the last one halts.       *)
Complete(m) ==
  LET n == Len(m.run) + 1
      t == m.fetched
  IN  {[m EXCEPT !.run = Append(@, t), !.due = FALSE,
                 !.error = @ \/ (n = Length[t] /\ Fails[t]),
                 !.state = IF n >= Length[t] THEN "halt" ELSE @]}

HartStep(m) ==
  IF m.state # "running" THEN {m}
  ELSE (IF m.due THEN Complete(m) ELSE Fetch(m))
         \union (IF m.traps < Traps[m.rom] THEN TakeTrap(m) ELSE {})

(* One step or two of the workers that are updated on one side of the      *)
(* controller                                                              *)
WorkerTick(m) == HartStep(m) \union UNION {HartStep(n) : n \in HartStep(m)}

(* The hart moves at least once in a tick.                                 *)
Tick(m) ==
  LET before == WorkerTick(m) IN
    UNION ({WorkerTick(n) : n \in UNION {ControllerTick(k) : k \in before \union {m}}}
             \union {ControllerTick(k) : k \in before})

-----------------------------------------------------------------------------
(* The bodies of the requests: <<machine afterwards, response>>            *)
Success == [type |-> "success"]
Failure == [type |-> "error"]

Flash(m, t) == IF t \in BadFiles THEN <<m, Failure>> ELSE <<[m EXCEPT !.rom = t], Success>>

StartRequest(m, singleStep) == <<[m EXCEPT !.single = singleStep, !.power = TRUE], Success>>

(* Mutant: a stop leaves the pause switch on. *)
StopRequestPowerOnly(m) == <<[m EXCEPT !.power = FALSE, !.unheard = FALSE], Success>>

StopRequest(m) ==
  <<[m EXCEPT !.power = FALSE, !.pause = FALSE, !.single = FALSE,
              !.unheard = \/ m.ctl = "ready" /\ m.stepping
                          \/ m.ctl \in {"init", "ready"} /\ m.address], Success>>

UnpauseRequest(m) == IF m.power THEN <<[m EXCEPT !.pause = FALSE], Success>> ELSE <<m, Failure>>

StatusRequest(m) ==
  <<m, [type |-> "status", running |-> m.power, paused |-> m.pause,
        error |-> m.error, steps |-> m.seen]>>

(* dumpRam.  unheard is a history that the script does not see.            *)
DumpRequest(m, t) ==
  <<m, IF t \in BadSignatures THEN Failure
       ELSE [type |-> "dump", run |-> m.run, unheard |-> m.unheard]>>

(* WaitRequest, polled from the tick after it was received on.             *)
WaitOver(m, c) == (c.stopped /\ ~m.power) \/ (c.paused /\ m.pause)

Handled(m, c) ==
  CASE c.type = "flash" -> Flash(m, c.test)
    [] c.type = "dump" -> DumpRequest(m, c.test)
    [] c.type = "start" -> StartRequest(m, c.singleStep)
    [] c.type = "stop" -> StopRequest(m)
    [] c.type = "unpause" -> UnpauseRequest(m)
    [] c.type = "status" -> StatusRequest(m)
    [] c.type = "wait" -> <<m, Success>>

(* handleClient reads the line, and for a wait sleeps one tick.            *)
Post ==
  /\ channel = "sent" /\ channel' = "posted"
  /\ UNCHANGED <<machine, scriptVars, call, response>>

(* A frame of the game, in which the machine was m: what was posted, if    *)
(* its coroutine is there (open), then the processors.                     *)
Frame(m, open) ==
  /\ IF open /\ channel = "posted"
     THEN LET result == Handled(m, call)
              again == call.type = "wait" /\ ~WaitOver(m, call)
          IN  /\ machine' \in Tick(result[1])
              /\ channel' = IF again THEN "sent" ELSE "answered"
              /\ response' = IF again THEN response ELSE result[2]
     ELSE machine' \in Tick(m) /\ UNCHANGED <<channel, response>>
  /\ UNCHANGED <<scriptVars, call>>

-----------------------------------------------------------------------------
(* The scripts.  A call is _send_request and _recv_response: the next one  *)
(* is made when the response is there, and an ErrorResponse is raised,     *)
(* which ends the script.                                                  *)
StatusCall == [type |-> "status"]
StopCall == [type |-> "stop"]
UnpauseCall == [type |-> "unpause"]
StartCall(step) == [type |-> "start", singleStep |-> step]
FlashCall(t) == [type |-> "flash", test |-> t]
DumpCall(t) == [type |-> "dump", test |-> t]
WaitCall(s, p) == [type |-> "wait", stopped |-> s, paused |-> p]

SendCall(c) == call' = c /\ channel' = "sent" /\ UNCHANGED response
End(o) == outcome' = o /\ channel' = "idle" /\ UNCHANGED <<call, response>>

(* filter_test_list.py *)
FilterTests(list) ==
  LET kept[n \in 0..Len(list)] ==
        IF n = 0 THEN <<>>
        ELSE IF list[n] \in Skipped THEN kept[n - 1] ELSE Append(kept[n - 1], list[n])
  IN  kept[Len(list)]

(* What a script does first: debug asks for the status, riscof stops the   *)
(* machine, or is done if there is nothing to test.                        *)
FirstCall(sc) == IF sc = "debug" THEN StatusCall ELSE StopCall
NothingToDo(sc, list) == sc = "riscof" /\ list = <<>>
Scripts == {<<"debug", <<>>>>} \union {<<"riscof", FilterTests(list)>> : list \in TestLists}

AccessInit ==
  /\ machine \in Machines
  /\ results = <<>> /\ signatures = <<>>
  /\ response = Success
  /\ \E s \in Scripts : script = s[1] /\ tests = s[2]
  /\ call = FirstCall(script)
  /\ channel = IF NothingToDo(script, tests) THEN "idle" ELSE "sent"
  /\ outcome = IF NothingToDo(script, tests) THEN "done" ELSE ""

(* A script is killed between two calls or while it waits, or has ended,   *)
(* and one is started.  The server's wait for the old one goes on, but it  *)
(* only reads the switches.                                                *)
Replaceable == outcome # "" \/ channel = "answered" \/ call.type = "wait"

Restart ==
  /\ Replaceable
  /\ \E s \in Scripts :
       /\ script' = s[1] /\ tests' = s[2]
       /\ call' = FirstCall(s[1])
       /\ channel' = IF NothingToDo(s[1], s[2]) THEN "idle" ELSE "sent"
       /\ outcome' = IF NothingToDo(s[1], s[2]) THEN "done" ELSE ""
  /\ results' = <<>> /\ signatures' = <<>>
  /\ UNCHANGED <<machine, response>>

(* Mutant: the signature is dumped without waiting. *)
AfterCallSkipsWait(t) ==
  CASE call.type = "stop" -> FlashCall(t)
    [] call.type = "flash" -> StartCall(FALSE)
    [] call.type \in {"start", "wait"} -> DumpCall(t)
    [] call.type = "dump" -> StatusCall

(* run_test, after the answer to each of its calls.                        *)
AfterCall(t) ==
  CASE call.type = "stop" -> FlashCall(t)
    [] call.type = "flash" -> StartCall(FALSE)
    [] call.type = "start" -> WaitCall(TRUE, FALSE)
    [] call.type = "wait" -> DumpCall(t)
    [] call.type = "dump" -> StatusCall

RunTest ==
  /\ script = "riscof" /\ channel = "answered" /\ response.type # "error"
  /\ \/ /\ call.type # "status"
        /\ SendCall(AfterCall(Head(tests)))
        /\ signatures' = IF call.type # "dump" THEN signatures
                         ELSE Append(signatures, <<Head(tests), response.run, response.unheard>>)
        /\ UNCHANGED <<tests, outcome>>
     \/ /\ call.type = "status" /\ response.error
        /\ End("failed")
        /\ UNCHANGED <<tests, signatures>>
     \/ /\ call.type = "status" /\ ~response.error
        /\ tests' = Tail(tests)
        /\ IF tests' = <<>> THEN End("done") ELSE SendCall(StopCall) /\ UNCHANGED outcome
        /\ UNCHANGED signatures
  /\ UNCHANGED <<machine, script, results>>

(* The loop of debug: wait, record the status, unpause.                    *)
Debug ==
  /\ script = "debug" /\ channel = "answered" /\ response.type # "error"
  /\ \/ /\ call.type = "status"
        /\ results' = Append(results, response)
        /\ IF results # <<>> /\ ~response.running
           THEN End("done")
           ELSE SendCall(IF response.running THEN UnpauseCall ELSE StartCall(TRUE)) /\ UNCHANGED outcome
     \/ /\ call.type \in {"unpause", "start"}
        /\ SendCall(WaitCall(TRUE, TRUE)) /\ UNCHANGED <<results, outcome>>
     \/ /\ call.type = "wait"
        /\ SendCall(StatusCall) /\ UNCHANGED <<results, outcome>>
  /\ UNCHANGED <<machine, script, tests, signatures>>

(* ProcessorError, or the exception of an answer that is no JSON because   *)
(* the connection was closed                                               *)
Raise ==
  /\ channel = "answered" /\ response.type = "error"
  /\ End("raised")
  /\ UNCHANGED <<machine, script, tests, results, signatures>>

Script == RunTest \/ Debug \/ Raise
=================================================================================
