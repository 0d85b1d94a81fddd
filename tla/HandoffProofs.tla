----------------------------- MODULE HandoffProofs -----------------------------
(***************************************************************************)
(* The hand-over is correct for every number of workers and every order of *)
(* their turns.                                                            *)
(***************************************************************************)
EXTENDS HandoffProps, TLAPS

(* The owner's state variable tells the others where its @counter is.      *)
OwnerInv ==
  prev_proc \in Workers =>
    /\ state[prev_proc] = "running" => counter[prev_proc] \in {"main", "handler"}
    /\ state[prev_proc] = "pause" => counter[prev_proc] = "pause"
    /\ state[prev_proc] = "breakpoint" => counter[prev_proc] = "stop"
    /\ state[prev_proc] \in {"halt", "reset"} =>
         counter[prev_proc] \in Leaving \union {"next_tick"}

(* While the controller is the owner no hart runs; it starts from zero.    *)
ControllerInv ==
  /\ cpc \in {"reset", "init"} => prev_proc = ctrl /\ state[ctrl] = "halt"
  /\ cpc \in {"slow_init", "start"} => prev_proc = ctrl /\ state[ctrl] = "reset"
  /\ cpc = "breakpoint" => prev_proc \in Workers /\ state[prev_proc] = "breakpoint"
  /\ (cpc = "next_tick" /\ prev_proc = ctrl) => state[ctrl] = "running"
  /\ (cpc = "start" \/ (cpc = "next_tick" /\ prev_proc = ctrl)) =>
       hart[ctrl] = 0 /\ mem = 0

HandoffInv ==
  TypeOK /\ SingleOwner /\ Coherent /\ MessageIntact /\ OwnerInv /\ ControllerInv

(* Counting an instruction stays within the modulus.                       *)
LEMMA SuccType ==
  ASSUME NEW n \in 0..(Modulus - 1) PROVE Succ(n) \in 0..(Modulus - 1)
BY ModulusAssumption DEF Succ

(* Zero is a count, and the controller is not a worker.                    *)
LEMMA ConstantFacts == 0 \in 0..(Modulus - 1) /\ ctrl \notin Workers /\ ctrl \in Procs
BY ModulusAssumption, WorkersAssumption DEF Procs

(* The initial state.                                                      *)
LEMMA InitInv == Init => HandoffInv
<1> SUFFICES ASSUME Init PROVE HandoffInv OBVIOUS
<1>1. TypeOK
  BY ConstantFacts DEF Init, TypeOK, States, Parked, Procs
<1> QED
  BY <1>1, ConstantFacts
  DEF Init, HandoffInv, SingleOwner, Coherent, MessageIntact, OwnerInv, ControllerInv,
      Executing, Procs

(* Turns come and go without touching the hart.                            *)
LEMMA SchedulerInv ==
  ASSUME HandoffInv,
         UNCHANGED <<prev_proc, state, hart, single, workerVars, mem, ctrlVars>>,
         power' \in BOOLEAN, pause' \in BOOLEAN, step' \in BOOLEAN,
         cur' \in Procs \union {nobody}, ran' \subseteq Procs, worked' \in BOOLEAN
  PROVE  HandoffInv'
BY DEF HandoffInv, TypeOK, SingleOwner, Coherent, MessageIntact, OwnerInv, ControllerInv,
       workerVars, ctrlVars

(* A worker's turn.                                                        *)
LEMMA WorkerInv ==
  ASSUME HandoffInv, NEW w \in Workers, WorkerStep(w)
  PROVE  HandoffInv'
<1> USE ConstantFacts DEF HandoffInv, workerVars, ctrlVars, switches
<1>a. w \in Procs /\ ran \union {w} \subseteq Procs /\ nobody \in Procs \union {nobody}
  BY DEF TypeOK, Procs
<1>b. counter[w] \in Executing => prev_proc = w /\ hart[w] = mem /\ at[w] = mem
  BY DEF SingleOwner, Coherent
<1>c. hart[w] \in 0..(Modulus - 1) /\ at[w] \in 0..(Modulus - 1) /\ mem \in 0..(Modulus - 1)
  BY <1>a DEF TypeOK
<1>1. CASE WorkerReset(w)
  <2>1. TypeOK' BY <1>1, <1>a DEF WorkerReset, Yield, TypeOK, Parked
  <2> QED BY <1>1, <2>1
      DEF WorkerReset, TypeOK, SingleOwner, Coherent, MessageIntact, OwnerInv,
          ControllerInv, Executing, Leaving
<1>2. CASE WorkerIdle(w)
  <2>1. TypeOK' BY <1>2, <1>a DEF WorkerIdle, Yield, TypeOK
  <2> QED BY <1>2, <1>a, <2>1
      DEF WorkerIdle, TypeOK, SingleOwner, Coherent, MessageIntact, OwnerInv,
          ControllerInv, Executing, Leaving
<1>3. CASE WorkerTakesOver(w)
  <2>0. w # prev_proc /\ (prev_proc # ctrl => prev_proc \in Workers)
        /\ (prev_proc # ctrl => counter[prev_proc] \in {"main", "handler"})
    BY <1>3 DEF WorkerTakesOver, OwnerInv, TypeOK, Procs
  <2>c. cpc = "next_tick"
    BY <1>3, <2>0 DEF WorkerTakesOver, ControllerInv, TypeOK
  <2>1. TypeOK'
    <3>1. counter' \in [Workers -> Executing \union Leaving \union Parked]
      BY <1>3, <2>0 DEF WorkerTakesOver, TypeOK, Parked, Executing
    <3>2. at' \in [Workers -> 0..(Modulus - 1)]
      BY <1>3, <2>0 DEF WorkerTakesOver, TypeOK
    <3> QED BY <1>3, <1>a, <3>1, <3>2 DEF WorkerTakesOver, TypeOK, States
  <2>2. \A v \in Workers \ {w} : counter'[v] \notin Executing
    BY <1>3, <2>0 DEF WorkerTakesOver, SingleOwner, TypeOK, Executing, Procs
  <2>3. counter'[w] \in {"main", "handler"} /\ hart'[w] = mem /\ at'[w] = mem
    <3>1. CASE prev_proc = ctrl
      BY <1>3, <1>a, <2>c, <3>1 DEF WorkerTakesOver, ControllerInv, TypeOK
    <3>2. CASE prev_proc # ctrl
      BY <1>3, <1>a, <2>0, <3>2 DEF WorkerTakesOver, Coherent, TypeOK, Executing
    <3> QED BY <3>1, <3>2
  <2>4. SingleOwner' /\ Coherent'
    BY <1>3, <2>2, <2>3 DEF WorkerTakesOver, SingleOwner, Coherent
  <2>5. MessageIntact'
    BY <1>3, <2>0, <2>3 DEF WorkerTakesOver, MessageIntact, TypeOK
  <2>6. OwnerInv'
    BY <1>3, <1>a, <2>3 DEF WorkerTakesOver, OwnerInv, TypeOK
  <2>7. ControllerInv'
    BY <1>3, <2>c DEF WorkerTakesOver, ControllerInv
  <2> QED BY <2>1, <2>4, <2>5, <2>6, <2>7
<1>4. CASE Fetch(w)
  <2>1. TypeOK' BY <1>4, <1>a DEF Fetch, TypeOK, Executing
  <2> QED BY <1>4, <1>b, <2>1
      DEF Fetch, TypeOK, SingleOwner, Coherent, MessageIntact, OwnerInv,
          ControllerInv, Executing, Leaving
<1>5. CASE Breakpoint(w)
  <2>1. TypeOK' BY <1>5, <1>a DEF Breakpoint, TypeOK, Executing, States
  <2> QED BY <1>5, <1>a, <1>b, <2>1
      DEF Breakpoint, TypeOK, SingleOwner, Coherent, MessageIntact, OwnerInv,
          ControllerInv, Executing, Leaving
<1>6. CASE Stopped(w)
  <2>1. cur' \in Procs \union {nobody} /\ ran' \subseteq Procs /\ worked' \in BOOLEAN
    BY <1>6, <1>a DEF Stopped, Yield, TypeOK
  <2> QED BY <1>6, <2>1, SchedulerInv DEF Stopped, TypeOK
<1>7. CASE Execute(w)
  <2>1. TypeOK' BY <1>7, <1>a, <1>c, SuccType DEF Execute, Retire, TypeOK, Executing
  <2> QED BY <1>7, <1>a, <1>b, <2>1
      DEF Execute, Retire, TypeOK, SingleOwner, Coherent, MessageIntact, OwnerInv,
          ControllerInv, Executing, Leaving
<1>8. CASE Pause(w)
  <2>1. TypeOK' BY <1>8, <1>a DEF Pause, Yield, TypeOK, Executing, States
  <2> QED BY <1>8, <1>a, <1>b, <2>1
      DEF Pause, TypeOK, SingleOwner, Coherent, MessageIntact, OwnerInv,
          ControllerInv, Executing, Leaving
<1>9. CASE EndPause(w)
  <2>1. TypeOK' BY <1>9, <1>a, <1>c, SuccType DEF EndPause, Retire, TypeOK, Executing, States
  <2> QED BY <1>9, <1>a, <1>b, <2>1
      DEF EndPause, Retire, TypeOK, SingleOwner, Coherent, MessageIntact, OwnerInv,
          ControllerInv, Executing, Leaving
<1>10. ASSUME NEW s \in {"halt", "reset"}, Syscon(w, s) PROVE HandoffInv'
  <2>1. TypeOK' BY <1>10, <1>a DEF Syscon, TypeOK, Leaving, States
  <2> QED BY <1>10, <1>a, <1>b, <2>1
      DEF Syscon, TypeOK, SingleOwner, Coherent, MessageIntact, OwnerInv,
          ControllerInv, Executing, Leaving
<1>11. CASE UnhandledTrap(w)
  <2>1. TypeOK' BY <1>11, <1>a DEF UnhandledTrap, TypeOK, Leaving, States
  <2> QED BY <1>11, <1>a, <1>b, <2>1
      DEF UnhandledTrap, TypeOK, SingleOwner, Coherent, MessageIntact, OwnerInv,
          ControllerInv, Executing, Leaving
<1>12. CASE PrintText(w)
  <2>1. TypeOK' BY <1>12, <1>a DEF PrintText, TypeOK, Leaving
  <2> QED BY <1>12, <2>1
      DEF PrintText, TypeOK, SingleOwner, Coherent, MessageIntact, OwnerInv,
          ControllerInv, Executing, Leaving
<1>13. CASE FlushText(w)
  <2>1. TypeOK' BY <1>13, <1>a DEF FlushText, TypeOK, Leaving
  <2> QED BY <1>13, <2>1
      DEF FlushText, TypeOK, SingleOwner, Coherent, MessageIntact, OwnerInv,
          ControllerInv, Executing, Leaving
<1>14. CASE JumpReset(w)
  <2>1. TypeOK' BY <1>14, <1>a DEF JumpReset, Yield, TypeOK, Parked
  <2> QED BY <1>14, <2>1
      DEF JumpReset, TypeOK, SingleOwner, Coherent, MessageIntact, OwnerInv,
          ControllerInv, Executing, Leaving
<1>15. CASE QuotaExhausted(w)
  <2>1. cur' \in Procs \union {nobody} /\ ran' \subseteq Procs /\ worked' \in BOOLEAN
    BY <1>15, <1>a DEF QuotaExhausted, Yield, TypeOK
  <2> QED BY <1>15, <2>1, SchedulerInv DEF QuotaExhausted, TypeOK
<1> QED
  BY <1>1, <1>2, <1>3, <1>4, <1>5, <1>6, <1>7, <1>8, <1>9, <1>10, <1>11, <1>12, <1>13,
     <1>14, <1>15 DEF WorkerStep

(* The controller's turn.                                                  *)
LEMMA ControllerTurnInv ==
  ASSUME HandoffInv, ControllerStep
  PROVE  HandoffInv'
<1> USE ConstantFacts DEF HandoffInv, workerVars, ctrlVars, switches
<1>a. ran \union {ctrl} \subseteq Procs /\ nobody \in Procs \union {nobody}
  BY DEF TypeOK
<1>b. prev_proc \in Procs /\ (prev_proc # ctrl => prev_proc \in Workers)
  BY DEF TypeOK, Procs
<1>1. CASE WaitForPower
  <2>1. TypeOK' BY <1>1, <1>a DEF WaitForPower, Yield, TypeOK, States
  <2>2. \A w \in Workers : counter[w] \notin Executing
    BY <1>1 DEF WaitForPower, SingleOwner, ControllerInv
  <2> QED BY <1>1, <2>1, <2>2
      DEF WaitForPower, TypeOK, SingleOwner, Coherent, MessageIntact, OwnerInv, ControllerInv
<1>2. CASE Initialize
  <2>1. TypeOK' BY <1>2, <1>a DEF Initialize, ClearHart, Yield, TypeOK, States
  <2>2. \A w \in Workers : counter[w] \notin Executing
    BY <1>2 DEF Initialize, SingleOwner, ControllerInv
  <2> QED BY <1>2, <2>1, <2>2
      DEF Initialize, ClearHart, TypeOK, SingleOwner, Coherent, MessageIntact, OwnerInv,
          ControllerInv
<1>3. CASE SlowInit
  <2>1. TypeOK' BY <1>3, <1>a DEF SlowInit, ClearHart, Yield, TypeOK
  <2>2. \A w \in Workers : counter[w] \notin Executing
    BY <1>3 DEF SlowInit, SingleOwner, ControllerInv
  <2> QED BY <1>3, <2>1, <2>2
      DEF SlowInit, ClearHart, TypeOK, SingleOwner, Coherent, MessageIntact, OwnerInv,
          ControllerInv
<1>4. CASE StartWorkers
  <2>1. TypeOK' BY <1>4, <1>a DEF StartWorkers, Yield, TypeOK, States
  <2>2. \A w \in Workers : counter[w] \notin Executing
    BY <1>4 DEF StartWorkers, SingleOwner, ControllerInv
  <2> QED BY <1>4, <2>1, <2>2
      DEF StartWorkers, TypeOK, SingleOwner, Coherent, MessageIntact, OwnerInv, ControllerInv
<1>5. CASE WorkerHalts
  <2>1. TypeOK'
    BY <1>5, <1>a, <1>b DEF WorkerHalts, Halt, FetchedHart, FetchedSingle, Yield, TypeOK, States
  <2>2. \A w \in Workers : counter[w] \notin Executing
    BY <1>5, <1>b
    DEF WorkerHalts, SingleOwner, OwnerInv, ControllerInv, Executing, Leaving
  <2> QED BY <1>5, <2>1, <2>2
      DEF WorkerHalts, Halt, TypeOK, SingleOwner, Coherent, MessageIntact, OwnerInv,
          ControllerInv
<1>6. CASE WorkerReboots
  <2>1. TypeOK'
    BY <1>6, <1>a, <1>b DEF WorkerReboots, FetchedHart, FetchedSingle, Yield, TypeOK, States
  <2>2. \A w \in Workers : counter[w] \notin Executing
    BY <1>6, <1>b
    DEF WorkerReboots, SingleOwner, OwnerInv, ControllerInv, Executing, Leaving
  <2> QED BY <1>6, <2>1, <2>2
      DEF WorkerReboots, TypeOK, SingleOwner, Coherent, MessageIntact, OwnerInv, ControllerInv
<1>7. CASE EnterBreakpoint
  <2>1. TypeOK'
    BY <1>7, <1>a, <1>b DEF EnterBreakpoint, FetchedHart, FetchedSingle, Yield, TypeOK, States
  <2>2. prev_proc \in Workers
    BY <1>7, <1>b DEF EnterBreakpoint, ControllerInv
  <2> QED BY <1>7, <2>1, <2>2
      DEF EnterBreakpoint, FetchedHart, TypeOK, SingleOwner, Coherent, MessageIntact,
          OwnerInv, ControllerInv
<1>8. CASE PowerLost
  <2>1. TypeOK'
    BY <1>8, <1>a, <1>b
    DEF PowerLost, Halt, FetchedHart, FetchedSingle, Yield, TypeOK, States, Parked
  <2>2. \A w \in Workers : counter'[w] \notin Executing /\ (counter'[w] = "flush" => counter[w] = "flush")
    BY <1>8, <1>b DEF PowerLost, SingleOwner, Executing
  <2> QED BY <1>8, <2>1, <2>2
      DEF PowerLost, Halt, TypeOK, SingleOwner, Coherent, MessageIntact, OwnerInv, ControllerInv
<1>9. CASE ControllerTick
  <2>1. TypeOK'
    BY <1>9, <1>a, <1>b DEF ControllerTick, FetchedHart, Yield, TypeOK, States
  <2> QED BY <1>9, <1>b, <2>1
      DEF ControllerTick, FetchedHart, TypeOK, SingleOwner, Coherent, MessageIntact,
          OwnerInv, ControllerInv
<1>10. CASE BreakpointLoop
  <2>1. cur' \in Procs \union {nobody} /\ ran' \subseteq Procs /\ worked' \in BOOLEAN
    BY <1>10, <1>a DEF BreakpointLoop, Yield, TypeOK
  <2> QED BY <1>10, <2>1, SchedulerInv DEF BreakpointLoop, TypeOK
<1>11. CASE LeaveBreakpoint
  <2>1. prev_proc \in Workers /\ counter[prev_proc] = "stop"
    BY <1>11, <1>b DEF LeaveBreakpoint, OwnerInv, ControllerInv
  <2>2. TypeOK'
    BY <1>11, <1>a, <2>1 DEF LeaveBreakpoint, Yield, TypeOK, States, Executing
  <2> QED BY <1>11, <1>b, <2>1, <2>2
      DEF LeaveBreakpoint, TypeOK, SingleOwner, Coherent, MessageIntact, OwnerInv,
          ControllerInv, Executing
<1> QED
  BY <1>1, <1>2, <1>3, <1>4, <1>5, <1>6, <1>7, <1>8, <1>9, <1>10, <1>11 DEF ControllerStep

(* HandoffInv is inductive.                                                *)
LEMMA NextInv == HandoffInv /\ [Next]_vars => HandoffInv'
<1> SUFFICES ASSUME HandoffInv, [Next]_vars PROVE HandoffInv' OBVIOUS
<1>1. ASSUME NEW p \in Procs, StartTurn(p) PROVE HandoffInv'
  <2>1. cur' \in Procs \union {nobody} /\ ran' \subseteq Procs /\ worked' \in BOOLEAN
    BY <1>1 DEF HandoffInv, StartTurn, TypeOK
  <2> QED BY <1>1, <2>1, SchedulerInv DEF StartTurn, HandoffInv, TypeOK, switches
<1>2. ASSUME NEW p \in Procs, Turn(p), ~StartTurn(p) PROVE HandoffInv'
  BY <1>2, WorkerInv, ControllerTurnInv DEF Turn, Procs
<1>3. CASE NextGameTick
  <2>1. cur' \in Procs \union {nobody} /\ ran' \subseteq Procs /\ worked' \in BOOLEAN
    BY <1>3 DEF HandoffInv, NextGameTick, TypeOK
  <2> QED BY <1>3, <2>1, SchedulerInv DEF NextGameTick, HandoffInv, TypeOK, switches
<1>4. CASE OperateSwitch
  <2>1. power' \in BOOLEAN /\ pause' \in BOOLEAN /\ step' \in BOOLEAN
    BY <1>4 DEF HandoffInv, OperateSwitch, TypeOK
  <2> QED BY <1>4, <2>1, SchedulerInv DEF OperateSwitch, HandoffInv, TypeOK
<1>5. CASE UNCHANGED vars
  BY <1>5, SchedulerInv DEF vars, switches, HandoffInv, TypeOK
<1> QED BY <1>1, <1>2, <1>3, <1>4, <1>5 DEF Next

(* The inductive invariant holds in every reachable state.                 *)
THEOREM HandoffInvariant == Spec => []HandoffInv
BY InitInv, NextInv, PTL DEF Spec

(* Every variable of the workers and the controller keeps its kind.        *)
THEOREM TypeCorrect == Spec => []TypeOK
<1>1. HandoffInv => TypeOK BY DEF HandoffInv
<1> QED BY <1>1, HandoffInvariant, PTL

(* For any number of workers and any order of their turns, at most one     *)
(* worker is inside the hart's code, and it is prev_proc.                  *)
THEOREM OneOwner == Spec => []SingleOwner
<1>1. HandoffInv => SingleOwner BY DEF HandoffInv
<1> QED BY <1>1, HandoffInvariant, PTL

(* fetch_variables and the @counter swap never lose, repeat or tear a step *)
(* of the hart.                                                            *)
THEOREM OwnerIsCoherent == Spec => []Coherent
<1>1. HandoffInv => Coherent BY DEF HandoffInv
<1> QED BY <1>1, HandoffInvariant, PTL

(* default_xtvec_handler's message is flushed by the worker that printed   *)
(* it, wherever its turn ends.                                             *)
THEOREM MessageStaysWhole == Spec => []MessageIntact
<1>1. HandoffInv => MessageIntact BY DEF HandoffInv
<1> QED BY <1>1, HandoffInvariant, PTL

-----------------------------------------------------------------------------
(* A worker's turn is a step, or none, of the hart that software sees.     *)
LEMMA WorkerRefines ==
  ASSUME HandoffInv, NEW w \in Workers, WorkerStep(w)
  PROVE  [OneHart!Next]_<<state[prev_proc], hart[prev_proc]>>
<1> USE ConstantFacts DEF HandoffInv, workerVars, ctrlVars, switches
<1>a. w \in Procs /\ prev_proc \in Procs /\ state[w] \in States
  BY DEF TypeOK, Procs
<1>b. counter[w] \in {"main", "handler"} => prev_proc = w /\ state[w] = "running"
  BY <1>a DEF SingleOwner, OwnerInv, Executing, Leaving, States
<1>c. counter[w] = "pause" => prev_proc = w /\ state[w] = "pause"
  BY <1>a DEF SingleOwner, OwnerInv, Executing, Leaving, States
<1>1. CASE \/ WorkerReset(w) \/ Fetch(w) \/ Stopped(w) \/ PrintText(w) \/ FlushText(w)
           \/ JumpReset(w) \/ QuotaExhausted(w)
  <2>1. UNCHANGED <<prev_proc, state, hart>>
    BY <1>1 DEF WorkerReset, Fetch, Stopped, PrintText, FlushText, JumpReset, QuotaExhausted
  <2> QED BY <2>1
<1>2. CASE WorkerIdle(w)
  BY <1>2, <1>a DEF WorkerIdle, TypeOK
<1>3. CASE WorkerTakesOver(w)
  BY <1>3, <1>a DEF WorkerTakesOver, TypeOK
<1>4. CASE Breakpoint(w)
  <2>1. OneHart!Suspend BY <1>4, <1>a, <1>b DEF Breakpoint, TypeOK, OneHart!Suspend
  <2> QED BY <2>1 DEF OneHart!Next
<1>5. CASE Execute(w)
  <2>1. OneHart!Execute BY <1>5, <1>a, <1>b DEF Execute, Retire, Succ, TypeOK, OneHart!Execute
  <2> QED BY <2>1 DEF OneHart!Next
<1>6. CASE Pause(w)
  <2>1. OneHart!Suspend BY <1>6, <1>a, <1>b DEF Pause, TypeOK, OneHart!Suspend
  <2> QED BY <2>1 DEF OneHart!Next
<1>7. CASE EndPause(w)
  <2>1. OneHart!Resume BY <1>7, <1>a, <1>c DEF EndPause, Retire, Succ, TypeOK, OneHart!Resume
  <2> QED BY <2>1 DEF OneHart!Next
<1>8. ASSUME NEW s \in {"halt", "reset"}, Syscon(w, s)
      PROVE  [OneHart!Next]_<<state[prev_proc], hart[prev_proc]>>
  <2>1. OneHart!Stop BY <1>8, <1>a, <1>b DEF Syscon, TypeOK, OneHart!Stop
  <2> QED BY <2>1 DEF OneHart!Next
<1>9. CASE UnhandledTrap(w)
  <2>1. OneHart!Stop BY <1>9, <1>a, <1>b DEF UnhandledTrap, TypeOK, OneHart!Stop
  <2> QED BY <2>1 DEF OneHart!Next
<1> QED
  BY <1>1, <1>2, <1>3, <1>4, <1>5, <1>6, <1>7, <1>8, <1>9 DEF WorkerStep

(* So is a turn of the controller.                                         *)
LEMMA ControllerRefines ==
  ASSUME HandoffInv, ControllerStep
  PROVE  [OneHart!Next]_<<state[prev_proc], hart[prev_proc]>>
<1> USE ConstantFacts DEF HandoffInv, workerVars, ctrlVars, switches
<1>a. prev_proc \in Procs
  BY DEF TypeOK
<1>1. CASE WaitForPower
  BY <1>1, <1>a DEF WaitForPower, TypeOK, ControllerInv
<1>2. CASE Initialize
  <2>1. OneHart!Boot
    BY <1>2, <1>a DEF Initialize, ClearHart, TypeOK, ControllerInv, OneHart!Boot
  <2> QED BY <2>1 DEF OneHart!Next
<1>3. CASE SlowInit
  <2>1. OneHart!Boot
    BY <1>3, <1>a DEF SlowInit, ClearHart, TypeOK, ControllerInv, OneHart!Boot
  <2> QED BY <2>1 DEF OneHart!Next
<1>4. CASE StartWorkers
  <2>1. OneHart!Start
    BY <1>4, <1>a DEF StartWorkers, TypeOK, ControllerInv, OneHart!Start
  <2> QED BY <2>1 DEF OneHart!Next
<1>5. CASE WorkerHalts \/ WorkerReboots \/ PowerLost
  <2>1. OneHart!Stop
    BY <1>5, <1>a
    DEF WorkerHalts, WorkerReboots, PowerLost, Halt, FetchedHart, TypeOK, OneHart!Stop
  <2> QED BY <2>1 DEF OneHart!Next
<1>6. CASE EnterBreakpoint
  BY <1>6, <1>a DEF EnterBreakpoint, FetchedHart, TypeOK
<1>7. CASE ControllerTick
  BY <1>7, <1>a DEF ControllerTick, FetchedHart, TypeOK
<1>8. CASE BreakpointLoop
  BY <1>8 DEF BreakpointLoop
<1>9. CASE LeaveBreakpoint
  <2>1. OneHart!Resume
    BY <1>9, <1>a DEF LeaveBreakpoint, TypeOK, ControllerInv, OneHart!Resume
  <2> QED BY <2>1 DEF OneHart!Next
<1> QED
  BY <1>1, <1>2, <1>3, <1>4, <1>5, <1>6, <1>7, <1>8, <1>9 DEF ControllerStep

(* The workers and the controller together implement the one hart of       *)
(* module Hart: seen through prev_proc it executes one instruction after   *)
(* the other, whoever executes it, and restarts only from a reset.         *)
THEOREM Refinement == Spec => ImplementsHart
<1>1. Init => OneHart!Init
  BY ConstantFacts DEF Init, OneHart!Init
<1>2. HandoffInv /\ [Next]_vars => [OneHart!Next]_<<state[prev_proc], hart[prev_proc]>>
  <2> SUFFICES ASSUME HandoffInv, [Next]_vars
               PROVE  [OneHart!Next]_<<state[prev_proc], hart[prev_proc]>>
    OBVIOUS
  <2>1. CASE UNCHANGED <<prev_proc, state, hart>>
    BY <2>1
  <2>2. ASSUME NEW p \in Procs, Turn(p), ~StartTurn(p)
        PROVE  [OneHart!Next]_<<state[prev_proc], hart[prev_proc]>>
    BY <2>2, WorkerRefines, ControllerRefines DEF Turn, Procs
  <2> QED
    BY <2>1, <2>2 DEF Next, StartTurn, NextGameTick, OperateSwitch, vars
<1> QED
  BY <1>1, <1>2, HandoffInvariant, PTL DEF Spec, ImplementsHart, OneHart!Spec

-----------------------------------------------------------------------------
(* A worker that leaves the hart's code is the owner, or the controller    *)
(* took the hart back before the worker's turn came: then that turn comes  *)
(* before the controller's next but one.                                   *)
LeaveInv ==
  /\ cur \in Procs => cur \notin ran
  /\ \A w \in Workers : counter[w] \in Leaving =>
       /\ prev_proc \in {w, ctrl}
       /\ prev_proc = ctrl =>
            /\ cpc # "next_tick"
            /\ cur = w => ~worked
            /\ (cpc = "init" /\ ctrl \notin ran) => w \notin ran
            /\ cpc \in {"slow_init", "start"} => ctrl \in ran /\ w \notin ran

(* LeaveInv holds at the start.                                            *)
LEMMA InitLeave == Init => LeaveInv
BY NobodyAssumption DEF Init, LeaveInv, Leaving

(* A worker's turn keeps LeaveInv.                                         *)
LEMMA WorkerLeave ==
  ASSUME HandoffInv, LeaveInv, NEW w \in Workers, WorkerStep(w)
  PROVE  LeaveInv'
<1> USE ConstantFacts, NobodyAssumption DEF HandoffInv, workerVars, ctrlVars, switches
<1>a. /\ w \in Procs /\ w # ctrl /\ prev_proc \in Procs
      /\ counter \in [Workers -> Executing \union Leaving \union Parked]
      /\ nobody \notin Procs /\ \A v \in Workers : v # nobody
  BY DEF TypeOK, Procs
<1>b. counter[w] \in {"main", "handler", "stop", "pause"} => prev_proc = w
  BY DEF SingleOwner, Executing
<1>1. CASE WorkerReset(w) \/ JumpReset(w)
  BY <1>1, <1>a DEF WorkerReset, JumpReset, Yield, LeaveInv, Leaving
<1>2. CASE WorkerIdle(w)
  BY <1>2, <1>a DEF WorkerIdle, Yield, LeaveInv, Leaving
<1>3. CASE WorkerTakesOver(w)
  <2>1. \A v \in Workers : counter[v] \notin Leaving
    <3> SUFFICES ASSUME NEW v \in Workers, counter[v] \in Leaving PROVE FALSE OBVIOUS
    <3>1. prev_proc = v \/ prev_proc = ctrl BY DEF LeaveInv
    <3>2. CASE prev_proc = v BY <1>3, <3>2 DEF WorkerTakesOver, OwnerInv, Leaving
    <3>3. CASE prev_proc = ctrl
      BY <1>3, <3>3 DEF WorkerTakesOver, ControllerInv, LeaveInv, TypeOK
    <3> QED BY <3>1, <3>2, <3>3
  <2>2. counter'[w] \notin Leaving /\ \A v \in Workers : counter'[v] \notin Leaving
    <3>1. CASE prev_proc = ctrl
      BY <1>3, <1>a, <2>1, <3>1 DEF WorkerTakesOver, Leaving
    <3>2. CASE prev_proc # ctrl
      <4>1. prev_proc \in Workers /\ counter[prev_proc] \notin Leaving
        BY <1>a, <2>1, <3>2 DEF Procs
      <4> QED BY <1>3, <1>a, <2>1, <3>2, <4>1 DEF WorkerTakesOver, Leaving
    <3> QED BY <3>1, <3>2
  <2> QED BY <1>3, <2>2 DEF WorkerTakesOver, LeaveInv
<1>4. CASE Fetch(w) \/ Breakpoint(w) \/ Execute(w) \/ EndPause(w)
  BY <1>4, <1>a, <1>b DEF Fetch, Breakpoint, Execute, EndPause, Retire, LeaveInv, Leaving
<1>5. CASE Stopped(w) \/ Pause(w)
  BY <1>5, <1>a, <1>b DEF Stopped, Pause, Yield, LeaveInv, Leaving
<1>6. ASSUME NEW s \in {"halt", "reset"}, Syscon(w, s) PROVE LeaveInv'
  BY <1>6, <1>a, <1>b DEF Syscon, LeaveInv, Leaving
<1>7. CASE UnhandledTrap(w) \/ PrintText(w) \/ FlushText(w)
  BY <1>7, <1>a, <1>b DEF UnhandledTrap, PrintText, FlushText, LeaveInv, Leaving
<1>8. CASE QuotaExhausted(w)
  BY <1>8, <1>a DEF QuotaExhausted, Yield, LeaveInv
<1> QED
  BY <1>1, <1>2, <1>3, <1>4, <1>5, <1>6, <1>7, <1>8 DEF WorkerStep

(* So does the controller's turn.                                          *)
LEMMA ControllerLeave ==
  ASSUME HandoffInv, LeaveInv, ControllerStep
  PROVE  LeaveInv'
<1> USE ConstantFacts, NobodyAssumption DEF HandoffInv, workerVars, ctrlVars, switches
<1>a. nobody \notin Procs /\ \A w \in Workers : w # ctrl /\ w # nobody
  BY DEF Procs
<1>b. cur = ctrl => ctrl \notin ran
  BY DEF LeaveInv
<1>1. CASE WaitForPower
  BY <1>1, <1>a DEF WaitForPower, Yield, LeaveInv
<1>2. CASE Initialize
  BY <1>2, <1>a, <1>b DEF Initialize, ClearHart, Yield, LeaveInv, ControllerInv
<1>3. CASE SlowInit
  BY <1>3, <1>a, <1>b DEF SlowInit, Yield, LeaveInv, ControllerInv
<1>4. CASE StartWorkers
  BY <1>4, <1>a, <1>b DEF StartWorkers, Yield, LeaveInv, ControllerInv
<1>5. CASE WorkerHalts \/ WorkerReboots
  BY <1>5, <1>a DEF WorkerHalts, WorkerReboots, Halt, Yield, LeaveInv
<1>6. CASE PowerLost
  BY <1>6, <1>a DEF PowerLost, Halt, Yield, LeaveInv, Leaving
<1>7. CASE EnterBreakpoint \/ ControllerTick \/ BreakpointLoop
  BY <1>7, <1>a DEF EnterBreakpoint, ControllerTick, BreakpointLoop, Yield, LeaveInv,
     ControllerInv
<1>8. CASE LeaveBreakpoint
  <2>1. prev_proc \in Workers
    BY <1>8 DEF LeaveBreakpoint, ControllerInv
  <2> QED BY <1>8, <1>a, <2>1 DEF LeaveBreakpoint, Yield, LeaveInv, Leaving, TypeOK
<1> QED
  BY <1>1, <1>2, <1>3, <1>4, <1>5, <1>6, <1>7, <1>8 DEF ControllerStep

(* LeaveInv is inductive relative to HandoffInv.                           *)
LEMMA NextLeave == HandoffInv /\ LeaveInv /\ [Next]_vars => LeaveInv'
<1> SUFFICES ASSUME HandoffInv, LeaveInv, [Next]_vars PROVE LeaveInv' OBVIOUS
<1> USE ConstantFacts, NobodyAssumption DEF workerVars, ctrlVars, switches
<1>1. ASSUME NEW p \in Procs, StartTurn(p) PROVE LeaveInv'
  BY <1>1 DEF StartTurn, LeaveInv
<1>2. ASSUME NEW p \in Procs, Turn(p), ~StartTurn(p) PROVE LeaveInv'
  BY <1>2, WorkerLeave, ControllerLeave DEF Turn, Procs
<1>3. CASE NextGameTick
  BY <1>3 DEF NextGameTick, LeaveInv, Procs
<1>4. CASE OperateSwitch
  BY <1>4 DEF OperateSwitch, LeaveInv
<1>5. CASE UNCHANGED vars
  BY <1>5 DEF vars, LeaveInv
<1> QED BY <1>1, <1>2, <1>3, <1>4, <1>5 DEF Next

(* A worker that still prints or jumps to reset after a halt request never *)
(* meets a hart that the controller has started again: the controller's    *)
(* ticks between taking the hart back and starting it are enough.          *)
THEOREM ZombieFree == Spec => []NoZombie
<1>1. HandoffInv /\ LeaveInv => NoZombie
  BY ConstantFacts
  DEF HandoffInv, LeaveInv, NoZombie, OwnerInv, ControllerInv, TypeOK, Leaving
<1> QED BY <1>1, InitLeave, NextLeave, HandoffInvariant, PTL DEF Spec
===============================================================================
