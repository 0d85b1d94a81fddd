----------------------------- MODULE HandoffProps -----------------------------
(***************************************************************************)
(* What the controller/worker hand-over is checked for.                    *)
(***************************************************************************)
EXTENDS Handoff

(* Code that executes the hart, and code that leaves it for good.          *)
Executing == {"main", "handler", "stop", "pause"}
Leaving == {"print", "flush", "jump_reset"}
Parked == {"reset", "next_tick"}

(* Every variable holds a value of its kind.                               *)
TypeOK ==
  /\ prev_proc \in Procs
  /\ state \in [Procs -> States]
  /\ hart \in [Procs -> 0..(Modulus - 1)]
  /\ single \in [Procs -> BOOLEAN]
  /\ counter \in [Workers -> Executing \union Leaving \union Parked]
  /\ at \in [Workers -> 0..(Modulus - 1)]
  /\ textbuf \subseteq Workers
  /\ mem \in 0..(Modulus - 1)
  /\ cpc \in {"reset", "init", "slow_init", "start", "next_tick", "breakpoint"}
  /\ skip_slow_init \in BOOLEAN
  /\ power \in BOOLEAN /\ pause \in BOOLEAN /\ step \in BOOLEAN
  /\ cur \in Procs \union {nobody}
  /\ ran \subseteq Procs
  /\ worked \in BOOLEAN

(* At most one worker is inside the hart's code, and it is the one the     *)
(* controller and the other workers take for the owner (prev_proc), in any *)
(* order of turns: the README's "build-order-independent".                 *)
SingleOwner == \A w \in Workers : counter[w] \in Executing => prev_proc = w

(* The owner's copy of the hart's variables and its @counter agree with    *)
(* the memory that all workers share: no hand-over, stall or breakpoint    *)
(* loses, repeats or tears a step of the hart.                             *)
Coherent ==
  \A w \in Workers :
    counter[w] \in Executing => hart[w] = mem /\ at[w] = mem

(* default_xtvec_handler's comment: "if we set state before printing,      *)
(* atomicity should be guaranteed".  The worker that flushes the message   *)
(* is the one that printed it, although its turn may end in between.       *)
MessageIntact == \A w \in Workers : counter[w] = "flush" => w \in textbuf

(* A worker still leaving the hart never overlaps with a hart that has     *)
(* been started again.                                                     *)
NoZombie ==
  (\E w \in Workers : counter[w] \in Leaving) => state[prev_proc] # "running"

(* The system implements the one hart software sees.                       *)
OneHart == INSTANCE Hart WITH mode <- state[prev_proc], instret <- hart[prev_proc]
ImplementsHart == OneHart!Spec

(* Every processor gets its turn and a turn ends; the game keeps ticking.  *)
(* Players owe nothing.                                                    *)
Fairness ==
  /\ \A p \in Procs : WF_vars(Turn(p))
  /\ WF_vars(NextGameTick)

FairSpec == Spec /\ Fairness

On == state[prev_proc] \in {"running", "pause"}

(* A hart that is on executes: the workers never all wait for each other,  *)
(* in a stall neither.  PAUSE and WFI come back, and what follows them is  *)
(* executed, unless the hart is halted, reset or stopped at a breakpoint.  *)
RunningHartExecutes ==
  \A n \in 0..(Modulus - 1) : (On /\ mem = n) ~> (~On \/ mem # n)

(* A halt or reboot requested by software hands the hart back to the       *)
(* controller, whatever the switches do meanwhile: the requesting worker   *)
(* keeps prev_proc no longer than until the controller's next tick.        *)
StopIsHonoured ==
  (prev_proc \in Workers /\ state[prev_proc] \in {"halt", "reset"}) ~> (prev_proc = ctrl)
===============================================================================
