------------------------------- MODULE AccessProps -------------------------------
(* What a user of the scripts may rely on.                                 *)
EXTENDS Server

Full(t) == [n \in 1..Length[t] |-> t]

(* The signature that run_test dumps is what the test under its name left  *)
(* in the RAM: it was flashed before it was started, it ran from the reset *)
(* to its end on that ROM alone, and the dump was taken afterwards, in     *)
(* whatever state the machine was found.  (Unless its stop came after the  *)
(* controller had chosen a breakpoint for the hart it was about to start:  *)
(* the controller then sees the breakpoint before the power switch, start  *)
(* turns the switch on again in time, and the hart goes on with what it    *)
(* has fetched from the old ROM.)                                          *)
SignatureIsOwn ==
  \A n \in DOMAIN signatures : signatures[n][2] = Full(signatures[n][1]) \/ signatures[n][3]

Unheard == signatures # <<>> /\ signatures[Len(signatures)][3]

(* run_test raises an error for a test exactly if this test printed one:   *)
(* no test is blamed for what was printed before it.  (With the exception  *)
(* of SignatureIsOwn.)                                                     *)
ErrorIsOwn ==
  script = "riscof" =>
    /\ outcome = "failed" => Fails[Head(tests)] \/ Unheard
    /\ \A n \in DOMAIN signatures :
         Fails[signatures[n][1]] /\ ~signatures[n][3] =>
           outcome # "done" /\ Head(tests) = signatures[n][1]

(* debug records every step of the hart: between two statuses that it      *)
(* recorded after a wait, while the machine was paused, exactly one        *)
(* instruction was fetched or one trap taken.  (Unless the pause switch    *)
(* was on before the power was: start does not clear it, so the first wait *)
(* is over before the machine has started, and the same state is recorded  *)
(* twice.)                                                                 *)
EveryStepRecorded ==
  \/ results # <<>> /\ results[1].paused /\ ~results[1].running
  \/ \A n \in 2..(Len(results) - 1) :
       LET a == results[n] b == results[n + 1] IN
         a.running /\ a.paused /\ b.running /\ b.paused => b.steps = a.steps + 1

(* riscof waits for the machine to stop, which stands at a breakpoint that *)
(* nobody but a user will end: BREAKPOINT_ADDRESS is configured, or a      *)
(* single step was left over when the stop went unheard.                   *)
Stuck ==
  /\ script = "riscof" /\ outcome = "" /\ call.type = "wait"
  /\ machine.ctl = "break" /\ machine.power /\ (machine.address \/ machine.unheard)

(* Every script ends: each wait is answered, whether the machine halts by  *)
(* itself, runs into a breakpoint of debug or was off already.  If the     *)
(* server is stopped it ends with an error: the main thread, which joins   *)
(* the server thread, does not wait for a request that waits for it.       *)
(* (Unless riscof is stuck at a breakpoint, or the main thread is hung     *)
(* because the server was stopped before it had a job to cancel.)          *)
ScriptEnds == []<>(outcome # "" \/ Stuck \/ Hung)

(* A server that accepts scripts can be stopped, and is the only one: its  *)
(* thread and its job are in the fields, although a thread that has ended  *)
(* by itself clears them while the next one is started.                    *)
ServerStoppable ==
  main = "free" => \A t \in Threads : thread[t] = "serving" => serverThread = t /\ serverJob = t
=================================================================================
