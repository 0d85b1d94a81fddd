----------------------------- MODULE AccessProofs -----------------------------
(***************************************************************************)
(* Proofs about the server plugin and the scripts, for every number of     *)
(* server threads and of scripts, all programs, all lists of tests.        *)
(***************************************************************************)
EXTENDS AccessProps, SequenceTheorems, WellFoundedInduction, TLAPS

-----------------------------------------------------------------------------
(* The server                                                              *)

ThreadStates ==
  {"none", "started", "binding", "serving", "draining", "ending", "jobless", "threadless", "ended"}

(* A thread that may still use the fields it shares with the others.       *)
Active(t) == thread[t] \in {"started", "binding", "serving", "draining", "ending", "jobless"}

(* At most one thread is active, and the main thread knows it: it is in    *)
(* serverThread or, while it is started, joined.  Its job is serverJob.    *)
ServerInv ==
  /\ thread \in [Threads -> ThreadStates]
  /\ main \in {"free", "stopping", "restarting", "starting"}
  /\ \A t, u \in Threads : Active(t) /\ Active(u) => t = u
  /\ \A t \in Threads : Active(t) => t = IF main = "starting" THEN joined ELSE serverThread
  /\ main \in {"stopping", "restarting"} => serverThread \in {joined, None}
  /\ \A t \in Threads : thread[t] \in {"binding", "serving", "draining", "ending"} => serverJob = t

(* No thread has the number that stands for "no thread".                   *)
LEMMA ThreadsType == None \notin Threads
BY ServerAssumption DEF None, Threads

(* A new thread is started only when no other one is active.               *)
LEMMA NewThreadKeeps ==
  ASSUME ServerInv, NewThread, \A t \in Threads : ~Active(t)
  PROVE  ServerInv'
<1>1. PICK t \in Threads : thread[t] = "none" /\ thread' = [thread EXCEPT ![t] = "started"]
                           /\ joined' = t /\ main' = "starting"
                           /\ UNCHANGED <<serverThread, serverJob>>
  BY DEF NewThread
<1>2. \A u \in Threads : thread'[u] = IF u = t THEN "started" ELSE thread[u]
  BY <1>1 DEF ServerInv
<1>3. thread' \in [Threads -> ThreadStates]
  BY <1>1 DEF ServerInv, ThreadStates
<1> QED BY <1>1, <1>2, <1>3 DEF ServerInv, Active

(* Stopping: the thread that is joined is the active one, if there is one. *)
LEMMA CancelKeeps ==
  ASSUME ServerInv, main = "free", NEW next \in {"stopping", "restarting"}, CancelAndJoin(next)
  PROVE  ServerInv'
BY DEF CancelAndJoin, ServerInv, Active, fields

(* A server thread gives up the fields one after the other.                *)
LEMMA ThreadKeeps ==
  ASSUME ServerInv, NEW t \in Threads, ServerThread(t)
  PROVE  ServerInv'
<1> USE DEF ServerInv, fields, ThreadStates
<1>1. ASSUME NEW from, NEW to, At(t, from, to)
      PROVE  thread[t] = from /\ \A u \in Threads : thread'[u] = IF u = t THEN to ELSE thread[u]
  BY <1>1 DEF At
<1>2. CASE Launch(t) BY <1>2, <1>1 DEF Launch, At, Active
<1>3. CASE Bind(t) BY <1>3, <1>1 DEF Bind, At, Active
<1>4. CASE BindFails(t) BY <1>4, <1>1 DEF BindFails, At, Active
<1>5. CASE EndJob(t) BY <1>5, <1>1 DEF EndJob, At, Active
<1>6. CASE Cleanup(t) BY <1>6, <1>1, ThreadsType DEF Cleanup, At, Active
<1> QED BY <1>2, <1>3, <1>4, <1>5, <1>6 DEF ServerThread

(* One step of the plugin.                                                 *)
LEMMA ServerNext == ASSUME ServerInv, [Next]_vars PROVE ServerInv'
<1>0. ASSUME UNCHANGED <<thread, serverThread, serverJob, main, joined>> PROVE ServerInv'
  BY <1>0 DEF ServerInv, Active
<1>1. ASSUME NEW t \in Threads, ServerThread(t) PROVE ServerInv' BY <1>1, ThreadKeeps
<1>2. CASE stopServer BY <1>2, CancelKeeps DEF stopServer, Event
<1>3. CASE startServer
  <2>1. CASE CancelAndJoin("restarting") BY <1>3, <2>1, CancelKeeps DEF startServer, Event
  <2>2. CASE serverThread = None /\ NewThread
    <3>1. main = "free" BY <1>3 DEF startServer, Event
    <3>2. \A t \in Threads : ~Active(t) BY <2>2, <3>1, ThreadsType DEF ServerInv
    <3> QED BY <2>2, <3>2, NewThreadKeeps
  <2> QED BY <1>3, <2>1, <2>2 DEF startServer
<1>4. CASE Join
  <2>1. CASE main = "stopping" /\ main' = "free" /\ UNCHANGED <<thread, fields>>
    BY <2>1 DEF ServerInv, Active, fields
  <2>2. CASE main = "restarting" /\ NewThread
    <3>1. thread[joined] = "ended" BY <1>4 DEF Join
    <3>2. \A t \in Threads : ~Active(t) BY <2>2, <3>1, ThreadsType DEF ServerInv, Active
    <3> QED BY <2>2, <3>2, NewThreadKeeps
  <2> QED BY <1>4, <2>1, <2>2 DEF Join
<1>5. CASE AssignThread
  BY <1>5 DEF AssignThread, ServerInv, Active
<1>6. CASE GameFrame \/ Served \/ ConnectionClosed \/ RunScript \/ Connect
  BY <1>0, <1>6 DEF GameFrame, Served, ConnectionClosed, RunScript, Connect, serverVars, fields
<1>7. CASE TurnAway
  <2>1. PICK t \in Threads : At(t, "serving", "draining") BY <1>7 DEF TurnAway
  <2>2. \A u \in Threads : thread'[u] = IF u = t THEN "draining" ELSE thread[u]
    BY <2>1 DEF At, ServerInv
  <2>3. thread' \in [Threads -> ThreadStates] BY <2>1 DEF At, ServerInv, ThreadStates
  <2> QED BY <1>7, <2>1, <2>2, <2>3 DEF TurnAway, At, ServerInv, Active
<1>8. CASE UNCHANGED vars BY <1>0, <1>8 DEF vars, serverVars, fields
<1> QED BY <1>1, <1>2, <1>3, <1>4, <1>5, <1>6, <1>7, <1>8 DEF Next, User, Button, MainThread

(* A serving server can be stopped: the fields name its thread and its job *)
(* whenever the main thread may look, though threads write the fields one  *)
(* by one and clear them late, when the next one may have been started.    *)
THEOREM ServerCanBeStopped == Spec => []ServerStoppable
<1>1. Init => ServerInv
  <2> SUFFICES ASSUME Init PROVE ServerInv OBVIOUS
  <2>1. 1 \in Threads BY ServerAssumption DEF Threads
  <2>2. PICK s \in {"started", "binding", "serving"} :
          /\ thread = [t \in Threads |-> IF t = 1 THEN s ELSE "none"]
          /\ serverJob = IF s = "started" THEN None ELSE 1
    BY DEF Init
  <2> QED BY <2>1, <2>2 DEF Init, ServerInv, Active, ThreadStates
<1>2. ServerInv /\ [Next]_vars => ServerInv' BY ServerNext
<1>3. ServerInv => ServerStoppable BY DEF ServerInv, ServerStoppable, Active
<1> QED BY <1>1, <1>2, <1>3, PTL DEF Spec

-----------------------------------------------------------------------------
(* The scripts and the machine                                             *)

(* Types: a request, an answer to it                                       *)
Statuses ==
  [type : {"status"}, running : BOOLEAN, paused : BOOLEAN, error : BOOLEAN, steps : Nat]
Dumps == [type : {"dump"}, run : Seq(Tests), unheard : BOOLEAN]
RiscofCalls ==
  {StopCall, StartCall(FALSE), WaitCall(TRUE, FALSE), StatusCall}
    \union {FlashCall(t) : t \in Tests} \union {DumpCall(t) : t \in Tests}
DebugCalls == {StatusCall, UnpauseCall, StartCall(TRUE), WaitCall(TRUE, TRUE)}
Calls == RiscofCalls \union DebugCalls
Signatures == Tests \X Seq(Tests) \X BOOLEAN

Answer(c, r) ==
  \/ r = Failure
  \/ c.type = "status" /\ r \in Statuses
  \/ c.type = "dump" /\ r \in Dumps
  \/ c.type \notin {"status", "dump"} /\ r = Success

(* riscof: the states of the machine between the calls for test t.  A      *)
(* machine that has heard the stop request                                 *)
Halting(m) ==
  /\ ~m.power
  /\ m.ctl # "break" => ~m.pause /\ ~m.single
  /\ m.ctl \in {"init", "ready"} => ~m.address
  /\ m.ctl = "ready" => ~m.stepping

(* has been seen by the controller since, but may still be starting a hart *)
(* that will meet no breakpoint.                                           *)
Stopped(m) ==
  /\ Halting(m)
  /\ m.ctl = "run" => ~m.stepping /\ ~m.address /\ m.state \in {"running", "halt"}

(* The run is one of t alone, from the reset on.                           *)
OwnRun(m, t) ==
  /\ m.run = [n \in 1..Len(m.run) |-> t]
  /\ m.due => m.fetched = t
  /\ IF m.state = "halt" THEN Len(m.run) = Length[t] /\ m.error = Fails[t]
     ELSE m.state # "reset" /\ Len(m.run) < Length[t] /\ ~m.error

(* It has not begun or goes on, or it has stopped at a breakpoint, which   *)
(* cannot be before the start.                                             *)
OnItsWay(m, t) ==
  /\ m.rom = t
  /\ IF m.ctl = "break" THEN m.power /\ m.single /\ m.pause ELSE ~m.pause /\ ~m.single
  /\ m.ctl \in {"ready", "run"} => ~m.stepping
  /\ m.ctl \in {"run", "break"} => OwnRun(m, t)
  /\ ~m.power /\ m.ctl # "waiting" => ~m.address
  /\ ~m.power /\ m.ctl = "run" => ~AtBreakpoint(m)

Flashed(m, t) == ~m.power /\ OnItsWay(m, t)
Started(m, t) == m.power /\ OnItsWay(m, t)
Finished(m, t) == ~m.power /\ m.ctl = "waiting" /\ m.run = Full(t) /\ m.error = Fails[t]

RiscofPhase(m, c, answered, t) ==
  ~m.unheard =>
    /\ c = "stop" => (answered => Stopped(m))
    /\ c = "flash" => IF answered THEN Flashed(m, t) ELSE Stopped(m)
    /\ c = "start" => IF answered THEN Started(m, t) \/ Finished(m, t) ELSE Flashed(m, t)
    /\ c = "wait" => IF answered THEN Finished(m, t) ELSE Started(m, t) \/ Finished(m, t)
    /\ c \in {"dump", "status"} => Finished(m, t)

(* u: was the stop of the last recorded signature unheard?                 *)
RiscofAnswer(c, r, t, u) ==
  /\ c = "dump" /\ ~r.unheard => r.run = Full(t)
  /\ c = "status" /\ ~u => r.error = Fails[t]

(* debug: the states of the machine between the calls, where the last      *)
(* status that was recorded showed e steps.                                *)
PauseIsStop(m) == m.pause => m.ctl = "break"
AtStop(m) == m.power => m.ctl = "break"
Held(m, e) == m.ctl = "break" /\ m.power /\ m.steps = e
Gone(m, e) ==
  m.power =>
    \/ m.ctl = "break" /\ m.steps = e + 1
    \/ /\ m.ctl = "run" /\ m.single /\ m.stepping /\ ~m.pause
       /\ \/ m.state = "running" /\ m.steps = e
          \/ AtBreakpoint(m) /\ m.steps = e + 1
          \/ m.state = "halt"

(* The excepted case of EveryStepRecorded                                  *)
Odd(res) == res # <<>> /\ res[1].paused /\ ~res[1].running
LastStep(res) == res[Len(res)].steps
Stepped(m, res) == Len(res) > 1 => Gone(m, LastStep(res))

DebugPhase(m, c, answered, r, res) ==
  IF res = <<>> THEN answered /\ ~r.paused => PauseIsStop(m)
  ELSE
    /\ c = "status" => /\ PauseIsStop(m)
                       /\ IF answered THEN r.running => Held(m, r.steps)
                          ELSE AtStop(m) /\ Stepped(m, res)
    /\ c = "start" => PauseIsStop(m) /\ Len(res) = 1
    /\ c = "unpause" => IF answered THEN PauseIsStop(m) /\ Stepped(m, res)
                        ELSE IF Len(res) > 1 THEN Held(m, LastStep(res))
                        ELSE res[1].paused \/ PauseIsStop(m)
    /\ c = "wait" => PauseIsStop(m) /\ Stepped(m, res) /\ (answered => AtStop(m))

DebugAnswer(c, r, res) ==
  c = "status" /\ res # <<>> /\ r.running =>
    r.paused /\ (Len(res) > 1 => r.steps = LastStep(res) + 1)

(* The inductive invariant                                                 *)
AccessType ==
  /\ machine \in MachineStates /\ Consistent(machine) /\ Settled(machine)
  /\ script \in {"riscof", "debug"}
  /\ tests \in Seq(Tests) /\ results \in Seq(Statuses) /\ signatures \in Seq(Signatures)
  /\ channel \in {"idle", "sent", "posted", "answered"}
  /\ call \in IF script = "riscof" THEN RiscofCalls ELSE DebugCalls
  /\ channel = "answered" => Answer(call, response)
  /\ late \in Seq(Calls)
  /\ outcome # "" <=> channel = "idle"
  /\ outcome = "" /\ script = "riscof" => tests # <<>> /\ (call.type = "flash" => call.test = Head(tests))
  /\ outcome = "" /\ script = "debug" /\ results = <<>> => call = StatusCall

(* A body that has outlived its connection runs in a frame in which the    *)
(* next script has made its first call at most.                            *)
LateInv ==
  connection # None /\ late # <<>> =>
    call = FirstCall(script) /\ results = <<>> /\ channel # "answered"

(* The script is under way and has not been answered with an error.        *)
Good == outcome = "" /\ (channel = "answered" => response # Failure)

(* The machine is in the state that the phase of the script promises, as   *)
(* long as the connection is there: without one, nothing the script does   *)
(* will reach the machine any more.                                        *)
PhaseInv ==
  Good /\ connection # None =>
    /\ script = "riscof" => RiscofPhase(machine, call.type, channel = "answered", Head(tests))
    /\ script = "debug" /\ ~Odd(results) =>
         DebugPhase(machine, call.type, channel = "answered", response, results)

(* The signature last recorded, or about to be, has the exception of the   *)
(* machine it was dumped from.                                             *)
UnheardInv ==
  Good /\ connection # None /\ script = "riscof" =>
    /\ call.type = "status" => Unheard = machine.unheard
    /\ call.type = "dump" /\ channel = "answered" => response.unheard = machine.unheard

(* An answer that is on its way is right, whatever happens to the machine  *)
(* or to the connection before the script reads it.                        *)
AnswerInv ==
  Good /\ channel = "answered" =>
    /\ script = "riscof" => RiscofAnswer(call.type, response, Head(tests), Unheard)
    /\ script = "debug" /\ ~Odd(results) => DebugAnswer(call.type, response, results)

(* What riscof has recorded: its own signatures, and a failing test at     *)
(* most as the last one, before its error has been read.                   *)
SignatureInv ==
  /\ SignatureIsOwn
  /\ script = "riscof" =>
       /\ outcome = "failed" => Fails[Head(tests)] \/ Unheard
       /\ \A n \in DOMAIN signatures :
            Fails[signatures[n][1]] /\ ~signatures[n][3] =>
              /\ call.type = "status" /\ tests # <<>> /\ Head(tests) = signatures[n][1]
              /\ n = Len(signatures) /\ outcome # "done"

(* What debug has recorded.                                                *)
StepsInv ==
  \/ Odd(results)
  \/ \A n \in 2..(Len(results) - 1) :
       results[n].running /\ results[n].paused /\ results[n + 1].running /\ results[n + 1].paused =>
         results[n + 1].steps = results[n].steps + 1

AccessInv ==
  AccessType /\ LateInv /\ PhaseInv /\ UnheardInv /\ AnswerInv /\ SignatureInv /\ StepsInv

(* Induction over the naturals, for a set: the least number that is not in *)
(* S cannot be 0 and cannot be a successor.                                *)
LEMMA SetInduction ==
  ASSUME NEW S, 0 \in S, \A n \in Nat : n \in S => n + 1 \in S
  PROVE  Nat \subseteq S
<1> SUFFICES ASSUME Nat \ S # {} PROVE FALSE OBVIOUS
<1> DEFINE R == OpToRel(<, Nat)
<1>1. \A x, y \in Nat : <<x, y>> \in R <=> x < y BY DEF OpToRel
<1>2. IsWellFoundedOn(R, Nat) BY NatLessThanWellFounded
<1> HIDE DEF R
<1>3. PICK x \in Nat \ S : \A y \in Nat \ S : ~ (<<y, x>> \in R)
  BY <1>2, WFMin
<1>4. x # 0 /\ x - 1 \in Nat /\ (x - 1) + 1 = x /\ x - 1 < x OBVIOUS
<1>5. x - 1 \in S BY <1>1, <1>3, <1>4
<1> QED BY <1>4, <1>5

(* The filtered list is a list of tests. The recursive function exists,    *)
(* because one that is defined up to n can be extended to n + 1.           *)
LEMMA FilterType ==
  ASSUME NEW list \in Seq(Tests)
  PROVE  FilterTests(list) \in Seq(Tests)
<1> DEFINE Body(g, n) ==
             IF n = 0 THEN <<>>
             ELSE IF list[n] \in Skipped THEN g[n - 1] ELSE Append(g[n - 1], list[n])
           kept == CHOOSE g : g = [n \in 0..Len(list) |-> Body(g, n)]
           Upto(k) == \E g \in [0..k -> Seq(Tests)] : \A n \in 0..k : g[n] = Body(g, n)
           S == {k \in Nat : k <= Len(list) => Upto(k)}
<1>1. FilterTests(list) = kept[Len(list)] BY DEF FilterTests
<1>2. 0 \in S
  <2> DEFINE z == [n \in 0..0 |-> <<>>]
  <2>1. z \in [0..0 -> Seq(Tests)] OBVIOUS
  <2>2. \A n \in 0..0 : z[n] = Body(z, n) OBVIOUS
  <2> HIDE DEF z, Body
  <2> QED BY <2>1, <2>2
<1>3. ASSUME NEW k \in Nat, k \in S PROVE k + 1 \in S
  <2> SUFFICES ASSUME k + 1 <= Len(list) PROVE Upto(k + 1)
    <3> HIDE DEF Upto
    <3> QED OBVIOUS
  <2>0. Upto(k)
    <3> HIDE DEF Upto
    <3> QED BY <1>3
  <2>1. PICK g \in [0..k -> Seq(Tests)] : \A n \in 0..k : g[n] = Body(g, n)
    <3> HIDE DEF Body
    <3> QED BY <2>0
  <2>2. list[k + 1] \in Tests /\ g[k] \in Seq(Tests) OBVIOUS
  <2> DEFINE v == IF list[k + 1] \in Skipped THEN g[k] ELSE Append(g[k], list[k + 1])
             h == [n \in 0..(k + 1) |-> IF n <= k THEN g[n] ELSE v]
  <2>3. v \in Seq(Tests) BY <2>2
  <2>4. h \in [0..(k + 1) -> Seq(Tests)]
    <3> HIDE DEF v
    <3> QED BY <2>3
  <2>5. ASSUME NEW n \in 0..(k + 1) PROVE h[n] = Body(h, n)
    <3>1. CASE n = k + 1
      <4>1. h[n] = v /\ h[n - 1] = g[k] BY <3>1
      <4> HIDE DEF h
      <4> QED BY <3>1, <4>1
    <3>2. CASE n <= k
      <4>1. h[n] = g[n] /\ (n # 0 => h[n - 1] = g[n - 1]) BY <3>2
      <4>2. g[n] = Body(g, n)
        <5> HIDE DEF Body
        <5> QED BY <2>1, <3>2
      <4> HIDE DEF h
      <4> QED BY <4>1, <4>2
    <3> QED BY <3>1, <3>2
  <2> HIDE DEF h, Body
  <2> QED BY <2>4, <2>5
<1>4. Nat \subseteq S
  <2> HIDE DEF S
  <2> QED BY <1>2, <1>3, SetInduction
<1>5. PICK f \in [0..Len(list) -> Seq(Tests)] : \A n \in 0..Len(list) : f[n] = Body(f, n)
  <2> HIDE DEF Body
  <2>1. Upto(Len(list))
    <3> HIDE DEF Upto
    <3> QED BY <1>4
  <2> QED BY <2>1
<1>6. f = [n \in 0..Len(list) |-> Body(f, n)]
  <2> HIDE DEF Body
  <2> QED BY <1>5
<1>7. kept = [n \in 0..Len(list) |-> Body(kept, n)]
  <2> HIDE DEF Body
  <2> QED BY <1>6
<1> DEFINE T == {k \in Nat : k <= Len(list) => kept[k] \in Seq(Tests)}
<1> HIDE DEF kept, S
<1>8. 0 \in T BY <1>7
<1>9. ASSUME NEW k \in Nat, k \in T PROVE k + 1 \in T
  <2> SUFFICES ASSUME k + 1 <= Len(list) PROVE kept[k + 1] \in Seq(Tests) OBVIOUS
  <2>1. kept[k] \in Seq(Tests) /\ list[k + 1] \in Tests BY <1>9
  <2>2. k + 1 \in 0..Len(list) OBVIOUS
  <2>3. kept[k + 1] = Body(kept, k + 1)
    <3> HIDE DEF Body
    <3> QED BY <1>7, <2>2
  <2> QED BY <2>1, <2>3
<1>10. Nat \subseteq T
  <2> HIDE DEF T
  <2> QED BY <1>8, <1>9, SetInduction
<1> QED BY <1>1, <1>10

(* One move of the controller and of the hart, as a relation between the   *)
(* fields before and after.                                                *)
SameSwitches(m, n) == n.power = m.power /\ n.single = m.single /\ n.pause = m.pause
SameRun(m, n) ==
  /\ n.run = m.run /\ n.error = m.error /\ n.steps = m.steps
  /\ n.due = m.due /\ n.fetched = m.fetched
Kept(m, n) == n.rom = m.rom /\ n.address = m.address /\ n.unheard = m.unheard

(* A state of the controller in which it only looks at the power switch    *)
Waits(m) == m.ctl = "waiting" \/ (m.ctl = "run" /\ m.state = "reset")

ControllerMoves(m, n) ==
  /\ Kept(m, n)
  /\ \/ n = m /\ m.ctl = "break" /\ m.power /\ m.single /\ m.pause
     \/ /\ Waits(m) /\ ~m.power
        /\ n.ctl = "waiting" /\ n.state = "halt" /\ SameSwitches(m, n) /\ SameRun(m, n)
     \/ /\ (Waits(m) /\ m.power) \/ m.ctl = "init"
        /\ n.ctl = "init" /\ n.state = "reset" /\ SameSwitches(m, n) /\ SameRun(m, n)
     \/ /\ m.ctl = "init" /\ n.ctl = "ready" /\ n.state = "reset" /\ SameSwitches(m, n)
        /\ n.run = <<>> /\ ~n.due /\ ~n.error /\ n.steps = 0 /\ n.seen = 0 /\ n.traps = 0
        /\ n.stepping = (m.single \/ m.pause)
     \/ /\ m.ctl = "ready" /\ n.ctl = "ready" /\ n.state = "reset" /\ SameSwitches(m, n) /\ SameRun(m, n)
        /\ n.stepping = m.stepping /\ n.seen = m.seen /\ n.traps = m.traps
     \/ /\ m.ctl = "ready" /\ n.ctl = "run" /\ n.state = "running" /\ SameSwitches(m, n) /\ SameRun(m, n)
        /\ n.stepping = m.stepping
     \/ /\ m.ctl = "run" /\ AtBreakpoint(m)
        /\ n.ctl = "break" /\ n.state = m.state /\ n.power = m.power /\ n.single /\ n.pause
        /\ n.seen = m.steps /\ SameRun(m, n)
     \/ /\ \/ m.ctl = "run" /\ (m.state = "halt" \/ (m.state = "running" /\ ~m.power))
           \/ m.ctl = "break" /\ ~m.power
        /\ n.ctl = "waiting" /\ n.state = "halt" /\ ~n.power /\ ~n.single /\ ~n.pause /\ SameRun(m, n)
     \/ /\ m.ctl = "run" /\ m.state = "running" /\ m.power
        /\ n.ctl = "run" /\ n.state = "running" /\ SameSwitches(m, n) /\ SameRun(m, n)
        /\ n.stepping = (m.single \/ m.pause)
     \/ /\ m.ctl = "break" /\ m.power /\ ~(m.single /\ m.pause)
        /\ n.ctl = "run" /\ n.state = "running" /\ n.power /\ n.single = m.single /\ ~n.pause
        /\ SameRun(m, n) /\ n.stepping = m.single

(* Where the hart is after a fetch or a trap                               *)
StopMoves(m, n, s) ==
  /\ n.state \in {m.state, s}
  /\ m.stepping => n.state = s
  /\ ~m.stepping /\ ~m.address => n.state = m.state

HartMoves(m, n) ==
  /\ SameSwitches(m, n) /\ Kept(m, n) /\ n.ctl = m.ctl /\ n.seen = m.seen /\ n.stepping = m.stepping
  /\ \/ n = m
     \/ /\ m.state = "running" /\ n.due /\ n.fetched = m.rom /\ n.steps = m.steps + 1
        /\ n.run = m.run /\ n.error = m.error /\ StopMoves(m, n, "breakpoint")
     \/ /\ m.state = "running" /\ ~n.due /\ n.steps = m.steps + 1
        /\ n.run = m.run /\ n.error = m.error /\ StopMoves(m, n, "trap_breakpoint")
     \/ /\ m.state = "running" /\ m.due /\ ~n.due /\ n.steps = m.steps
        /\ n.run = Append(m.run, m.fetched)
        /\ n.state = IF Len(m.run) + 1 >= Length[m.fetched] THEN "halt" ELSE m.state
        /\ n.error = (m.error \/ (Len(m.run) + 1 = Length[m.fetched] /\ Fails[m.fetched]))

(* reset: the power switch decides.                                        *)
LEMMA PowerUpCases ==
  ASSUME NEW m \in MachineStates, NEW n \in PowerUp(m)
  PROVE  /\ n \in MachineStates /\ SameSwitches(m, n) /\ SameRun(m, n) /\ Kept(m, n)
         /\ IF m.power THEN n.ctl = "init" /\ n.state = "reset" ELSE n.ctl = "waiting" /\ n.state = "halt"
<1> USE DEF MachineStates, SameSwitches, SameRun, Kept
<1>1. CASE m.power
  <2>1. PICK k \in InitTicks : n = [m EXCEPT !.ctl = "init", !.state = "reset", !.ticks = k]
    BY <1>1 DEF PowerUp
  <2>2. k \in Nat BY TestsAssumption
  <2> QED BY <1>1, <2>1, <2>2
<1>2. CASE ~m.power
  <2>1. n = [m EXCEPT !.ctl = "waiting", !.state = "halt"] BY <1>2 DEF PowerUp
  <2> QED BY <1>2, <2>1
<1> QED BY <1>1, <1>2

(* The controller makes one of these moves.                                *)
LEMMA ControllerCases ==
  ASSUME NEW m \in MachineStates, Consistent(m), NEW n \in ControllerTick(m)
  PROVE  n \in MachineStates /\ ControllerMoves(m, n)
<1> USE DEF SameSwitches, SameRun, Kept, Waits, AtBreakpoint
<1>0. /\ m.ctl \in {"waiting", "init", "ready", "run", "break"} /\ m.power \in BOOLEAN /\ m.ticks \in Nat
      /\ m.state \in {"halt", "reset", "running", "breakpoint", "trap_breakpoint"}
  BY DEF MachineStates
<1>1. CASE m.ctl = "waiting"
  <2>1. n \in PowerUp(m) BY <1>1 DEF ControllerTick
  <2> QED BY <1>0, <1>1, <2>1, PowerUpCases DEF ControllerMoves
<1>2. CASE m.ctl \in {"init", "ready"} /\ m.ticks > 0
  <2>1. n = [m EXCEPT !.ticks = m.ticks - 1] BY <1>2 DEF ControllerTick
  <2>2. m.ticks - 1 \in Nat BY <1>0, <1>2
  <2>3. /\ n \in MachineStates /\ n.ctl = m.ctl /\ n.state = m.state /\ SameSwitches(m, n) /\ SameRun(m, n)
        /\ Kept(m, n) /\ n.stepping = m.stepping /\ n.seen = m.seen /\ n.traps = m.traps
    BY <2>1, <2>2 DEF MachineStates
  <2>4. m.state = "reset" BY <1>2 DEF Consistent
  <2> QED BY <1>2, <2>3, <2>4 DEF ControllerMoves
<1>3. CASE m.ctl = "init" /\ ~(m.ticks > 0)
  <2>0. m.ticks = 0 BY <1>0, <1>3
  <2>1. PICK k \in InitTicks : n = [ResetHart(m) EXCEPT !.ticks = k] BY <1>3, <2>0 DEF ControllerTick
  <2>2. k \in Nat /\ <<>> \in Seq(Tests) BY TestsAssumption
  <2>3. Stepping(m) = (m.single \/ m.pause) /\ Stepping(m) \in BOOLEAN BY DEF Stepping, MachineStates
  <2>4. m.state = "reset" BY <1>3 DEF Consistent
  <2> QED BY <1>3, <2>1, <2>2, <2>3, <2>4 DEF ControllerMoves, ResetHart, MachineStates
<1>4. CASE m.ctl = "ready" /\ ~(m.ticks > 0)
  <2>0. m.ticks = 0 BY <1>0, <1>4
  <2>1. n = StartHart(m) BY <1>4, <2>0 DEF ControllerTick
  <2> QED BY <1>4, <2>1 DEF ControllerMoves, StartHart, MachineStates
<1>5. CASE m.ctl = "run"
  <2>0. n \in NextTick(m) BY <1>5 DEF ControllerTick
  <2>1. CASE AtBreakpoint(m)
    <3>1. n = [m EXCEPT !.ctl = "break", !.single = TRUE, !.pause = TRUE, !.seen = m.steps]
      BY <2>0, <2>1 DEF NextTick
    <3> QED BY <1>5, <2>1, <3>1 DEF ControllerMoves, MachineStates
  <2>2. CASE m.state = "reset"
    <3> DEFINE k == [m EXCEPT !.seen = m.steps]
    <3>1. n \in PowerUp(k) BY <2>0, <2>2 DEF NextTick
    <3>2. k \in MachineStates /\ SameSwitches(m, k) /\ SameRun(m, k) /\ Kept(m, k) BY DEF MachineStates
    <3> HIDE DEF k
    <3> QED BY <1>0, <1>5, <2>2, <3>1, <3>2, PowerUpCases DEF ControllerMoves
  <2>3. CASE m.state = "halt" \/ (m.state = "running" /\ ~m.power)
    <3>1. n = [Off(m) EXCEPT !.seen = m.steps] BY <2>0, <2>3 DEF NextTick
    <3> QED BY <1>5, <2>3, <3>1 DEF ControllerMoves, MachineStates, Off
  <2>4. CASE m.state = "running" /\ m.power
    <3>1. n = [m EXCEPT !.stepping = Stepping(m), !.seen = m.steps] BY <2>0, <2>4 DEF NextTick
    <3>2. Stepping(m) = (m.single \/ m.pause) /\ Stepping(m) \in BOOLEAN BY DEF Stepping, MachineStates
    <3> QED BY <1>5, <2>4, <3>1, <3>2 DEF ControllerMoves, MachineStates
  <2> QED BY <1>0, <2>1, <2>2, <2>3, <2>4
<1>6. CASE m.ctl = "break" /\ ~m.power
  <2>1. n = Off(m) BY <1>6 DEF ControllerTick
  <2> QED BY <1>6, <2>1 DEF ControllerMoves, Off, MachineStates
<1>7. CASE m.ctl = "break" /\ m.power /\ ~(m.single /\ m.pause)
  <2>1. n = EndBreakpoint(m) BY <1>7 DEF ControllerTick
  <2> QED BY <1>7, <2>1 DEF ControllerMoves, EndBreakpoint, MachineStates
<1>8. CASE m.ctl = "break" /\ m.power /\ m.single /\ m.pause
  <2>1. n = m BY <1>8 DEF ControllerTick
  <2> QED BY <1>8, <2>1 DEF ControllerMoves
<1> QED BY <1>0, <1>1, <1>2, <1>3, <1>4, <1>5, <1>6, <1>7, <1>8

(* The hart makes one of these moves.                                      *)
LEMMA HartCases ==
  ASSUME NEW m \in MachineStates, NEW n \in HartStep(m)
  PROVE  n \in MachineStates /\ HartMoves(m, n)
<1> USE DEF SameSwitches, Kept
<1>1. CASE m.state # "running"
  <2>1. n = m BY <1>1 DEF HartStep
  <2> QED BY <2>1 DEF HartMoves
<1>2. CASE m.state = "running" /\ n \in Fetch(m)
  <2>1. PICK stop \in StopsHere(m) :
          n = [m EXCEPT !.due = TRUE, !.fetched = m.rom, !.steps = @ + 1,
                        !.state = IF stop THEN "breakpoint" ELSE @]
    BY <1>2 DEF Fetch
  <2>2. stop \in BOOLEAN /\ (m.stepping => stop) /\ (~m.stepping /\ ~m.address => ~stop)
    BY DEF StopsHere
  <2>3. n = [m EXCEPT !.due = TRUE, !.fetched = m.rom, !.steps = m.steps + 1,
                      !.state = IF stop THEN "breakpoint" ELSE m.state]
    BY <2>1
  <2>4. m.steps + 1 \in Nat BY DEF MachineStates
  <2> QED BY <1>2, <2>2, <2>3, <2>4 DEF HartMoves, StopMoves, MachineStates
<1>3. CASE m.state = "running" /\ n \in TakeTrap(m)
  <2>1. PICK stop \in StopsHere(m) :
          n = [m EXCEPT !.due = FALSE, !.traps = @ + 1, !.steps = @ + 1,
                        !.state = IF stop THEN "trap_breakpoint" ELSE @]
    BY <1>3 DEF TakeTrap
  <2>2. stop \in BOOLEAN /\ (m.stepping => stop) /\ (~m.stepping /\ ~m.address => ~stop)
    BY DEF StopsHere
  <2>3. n = [m EXCEPT !.due = FALSE, !.traps = m.traps + 1, !.steps = m.steps + 1,
                      !.state = IF stop THEN "trap_breakpoint" ELSE m.state]
    BY <2>1
  <2>4. m.steps + 1 \in Nat /\ m.traps + 1 \in Nat BY DEF MachineStates
  <2> QED BY <1>3, <2>2, <2>3, <2>4 DEF HartMoves, StopMoves, MachineStates
<1>4. CASE m.state = "running" /\ m.due /\ n \in Complete(m)
  <2> DEFINE k == Len(m.run) + 1
             t == m.fetched
             err == m.error \/ (k = Length[t] /\ Fails[t])
             s == IF k >= Length[t] THEN "halt" ELSE m.state
  <2>1. n = [m EXCEPT !.run = Append(m.run, t), !.due = FALSE, !.error = err, !.state = s]
    BY <1>4 DEF Complete
  <2>2. m.run \in Seq(Tests) /\ t \in Tests /\ m.error \in BOOLEAN BY DEF MachineStates
  <2>3. Length[t] \in Nat /\ Fails[t] \in BOOLEAN BY <2>2, TestsAssumption
  <2>4. Append(m.run, t) \in Seq(Tests) /\ err \in BOOLEAN BY <2>2, <2>3
  <2>5. s \in {"halt", "running"} BY <1>4
  <2>6. /\ n \in MachineStates /\ n.run = Append(m.run, t) /\ n.due = FALSE /\ n.error = err /\ n.state = s
        /\ n.steps = m.steps /\ SameSwitches(m, n) /\ Kept(m, n) /\ n.ctl = m.ctl /\ n.seen = m.seen
        /\ n.stepping = m.stepping
    <3> HIDE DEF err, s, t, k
    <3> QED BY <2>1, <2>2, <2>4, <2>5 DEF MachineStates
  <2> QED BY <1>4, <2>6 DEF HartMoves
<1> QED BY <1>1, <1>2, <1>3, <1>4 DEF HartStep
-----------------------------------------------------------------------------
(* A machine that the bodies of requests and the ticks may leave behind.   *)
Sound(m) == m \in MachineStates /\ Consistent(m)

(* After the controller has polled the switches they are settled.          *)
LEMMA ControllerSound ==
  ASSUME NEW m, Sound(m), NEW n \in ControllerTick(m)
  PROVE  Sound(n) /\ Settled(n) /\ ControllerMoves(m, n)
<1>1. n \in MachineStates /\ ControllerMoves(m, n) BY ControllerCases DEF Sound
<1> QED BY <1>1
    DEF Sound, Consistent, Settled, ControllerMoves, SameRun, SameSwitches, AtBreakpoint

(* The hart does not touch what the controller has settled.                *)
LEMMA HartSound ==
  ASSUME NEW m, Sound(m), NEW n \in HartStep(m)
  PROVE  Sound(n) /\ HartMoves(m, n) /\ (Settled(m) => Settled(n))
<1>1. n \in MachineStates /\ HartMoves(m, n) BY HartCases DEF Sound
<1>2. CASE n = m BY <1>1, <1>2 DEF Sound
<1>3. CASE m.state = "running"
  <2>1. m.ctl = "run"
    BY <1>3 DEF Sound, Consistent, AtBreakpoint, MachineStates
  <2> QED BY <1>1, <2>1 DEF HartMoves, Sound, Consistent, Settled
<1> QED BY <1>1, <1>2, <1>3 DEF HartMoves

(* In a tick the hart moves up to twice, then the controller moves, then   *)
(* the hart up to twice.                                                   *)
Path(m, a, b, c, d, n) ==
  /\ HartMoves(m, a) /\ HartMoves(a, b) /\ ControllerMoves(b, c) /\ HartMoves(c, d) /\ HartMoves(d, n)
  /\ Sound(a) /\ Sound(b) /\ Sound(c) /\ Sound(d) /\ Sound(n)
  /\ Settled(m) => Settled(a) /\ Settled(b)
  /\ Settled(c) /\ Settled(d) /\ Settled(n)

(* One or two steps of the hart                                            *)
LEMMA WorkerSound ==
  ASSUME NEW m, Sound(m), NEW n, n = m \/ n \in WorkerTick(m)
  PROVE  \E a : /\ HartMoves(m, a) /\ HartMoves(a, n) /\ Sound(a) /\ Sound(n)
                /\ Settled(m) => Settled(a) /\ Settled(n)
<1>0. \A k : HartMoves(k, k) BY DEF HartMoves, SameSwitches, Kept
<1>1. CASE n = m BY <1>0, <1>1
<1>2. CASE n \in HartStep(m) BY <1>0, <1>2, HartSound
<1>3. CASE n \in UNION {HartStep(k) : k \in HartStep(m)}
  <2>1. PICK k \in HartStep(m) : n \in HartStep(k) BY <1>3
  <2>2. Sound(k) /\ HartMoves(m, k) /\ (Settled(m) => Settled(k)) BY <2>1, HartSound
  <2>3. Sound(n) /\ HartMoves(k, n) /\ (Settled(k) => Settled(n)) BY <2>1, <2>2, HartSound
  <2> QED BY <2>2, <2>3
<1> QED BY <1>1, <1>2, <1>3 DEF WorkerTick

(* In a tick the workers come after the controller, before it, or both.    *)
LEMMA TickOrder ==
  ASSUME NEW m, NEW n \in Tick(m)
  PROVE  \E b : /\ b = m \/ b \in WorkerTick(m)
                /\ \E c \in ControllerTick(b) : n = c \/ n \in WorkerTick(c)
<1> DEFINE before == WorkerTick(m)
           C == UNION {ControllerTick(k) : k \in before \union {m}}
           A == {WorkerTick(k) : k \in C}
           B == {ControllerTick(k) : k \in before}
<1>0. Tick(m) = UNION (A \union B) BY Zenon DEF Tick
<1>1. n \in UNION A \/ n \in UNION B
  <2> HIDE DEF A, B
  <2> QED BY <1>0
<1>2. CASE n \in UNION A
  <2>1. PICK c \in C : n \in WorkerTick(c)
    <3> HIDE DEF C
    <3> QED BY <1>2
  <2>2. PICK b \in before \union {m} : c \in ControllerTick(b)
    <3> HIDE DEF before
    <3> QED OBVIOUS
  <2> QED BY <2>1, <2>2
<1>3. CASE n \in UNION B
  <2>1. PICK b \in before : n \in ControllerTick(b)
    <3> HIDE DEF before
    <3> QED BY <1>3
  <2> QED BY <2>1
<1> QED BY <1>1, <1>2, <1>3

(* A tick is such a path.                                                  *)
LEMMA TickPath ==
  ASSUME NEW m, Sound(m), NEW n \in Tick(m)
  PROVE  \E a, b, c, d : Path(m, a, b, c, d, n)
<1>1. PICK b : /\ b = m \/ b \in WorkerTick(m)
               /\ \E c \in ControllerTick(b) : n = c \/ n \in WorkerTick(c)
  BY TickOrder
<1>2. PICK c \in ControllerTick(b) : n = c \/ n \in WorkerTick(c) BY <1>1
<1>3. PICK a : /\ HartMoves(m, a) /\ HartMoves(a, b) /\ Sound(a) /\ Sound(b)
               /\ Settled(m) => Settled(a) /\ Settled(b)
  BY <1>1, WorkerSound
<1>4. Sound(c) /\ Settled(c) /\ ControllerMoves(b, c) BY <1>2, <1>3, ControllerSound
<1>5. PICK d : /\ HartMoves(c, d) /\ HartMoves(d, n) /\ Sound(d) /\ Sound(n)
               /\ Settled(c) => Settled(d) /\ Settled(n)
  BY <1>2, <1>4, WorkerSound
<1> QED BY <1>3, <1>4, <1>5 DEF Path

(* A tick settles the machine, and whether the last stop was heard does    *)
(* not change.                                                             *)
LEMMA TickSound ==
  ASSUME NEW m, Sound(m), NEW n \in Tick(m)
  PROVE  Sound(n) /\ Settled(n) /\ Kept(m, n)
<1>1. PICK a, b, c, d : Path(m, a, b, c, d, n) BY TickPath
<1> QED BY <1>1 DEF Path, HartMoves, ControllerMoves, Kept

-----------------------------------------------------------------------------
(* Once the pause switch is on only at breakpoints, this stays so.         *)
LEMMA PauseMoves ==
  ASSUME NEW m, NEW n, Sound(m), PauseIsStop(m), ControllerMoves(m, n) \/ HartMoves(m, n)
  PROVE  PauseIsStop(n)
BY DEF PauseIsStop, ControllerMoves, HartMoves, SameSwitches, Waits

(* The same for a tick.                                                    *)
LEMMA PauseTick ==
  ASSUME NEW m, Sound(m), PauseIsStop(m), NEW n \in Tick(m)
  PROVE  PauseIsStop(n)
<1>1. PICK a, b, c, d : Path(m, a, b, c, d, n) BY TickPath
<1>2. PauseIsStop(a) /\ PauseIsStop(b) BY <1>1, PauseMoves DEF Path
<1>3. PauseIsStop(c) /\ PauseIsStop(d) BY <1>1, <1>2, PauseMoves DEF Path
<1> QED BY <1>1, <1>3, PauseMoves DEF Path

(* A machine that is off or at a breakpoint stays so.                      *)
LEMMA AtStopMoves ==
  ASSUME NEW m, NEW n, Sound(m), Settled(m), AtStop(m), ControllerMoves(m, n) \/ HartMoves(m, n)
  PROVE  AtStop(n)
BY DEF AtStop, Settled, ControllerMoves, HartMoves, SameSwitches, Waits

(* The same for a tick.                                                    *)
LEMMA AtStopTick ==
  ASSUME NEW m, Sound(m), Settled(m), AtStop(m), NEW n \in Tick(m)
  PROVE  AtStop(n)
<1>1. PICK a, b, c, d : Path(m, a, b, c, d, n) BY TickPath
<1>2. AtStop(a) /\ AtStop(b) BY <1>1, AtStopMoves DEF Path
<1>3. AtStop(c) /\ AtStop(d) BY <1>1, <1>2, AtStopMoves DEF Path
<1> QED BY <1>1, <1>3, AtStopMoves DEF Path

(* At a breakpoint the hart takes no step.                                 *)
LEMMA HeldMoves ==
  ASSUME NEW m, NEW n, NEW e, Sound(m), Settled(m), Held(m, e), ControllerMoves(m, n) \/ HartMoves(m, n)
  PROVE  Held(n, e)
BY DEF Held, Settled, ControllerMoves, HartMoves, SameSwitches, Sound, Consistent, AtBreakpoint, Waits

(* The same for a tick.                                                    *)
LEMMA HeldTick ==
  ASSUME NEW m, NEW e, Sound(m), Settled(m), Held(m, e), NEW n \in Tick(m)
  PROVE  Held(n, e)
<1>1. PICK a, b, c, d : Path(m, a, b, c, d, n) BY TickPath
<1>2. Held(a, e) /\ Held(b, e) BY <1>1, HeldMoves DEF Path
<1>3. Held(c, e) /\ Held(d, e) BY <1>1, <1>2, HeldMoves DEF Path
<1> QED BY <1>1, <1>3, HeldMoves DEF Path

(* After the machine has left the breakpoint after e steps the hart takes  *)
(* one step and stops again, or halts.                                     *)
LEMMA GoneMoves ==
  ASSUME NEW m, NEW n, NEW e \in Nat, Sound(m), Settled(m), Gone(m, e), ControllerMoves(m, n) \/ HartMoves(m, n)
  PROVE  Gone(n, e)
<1>1. CASE ControllerMoves(m, n)
  BY <1>1 DEF Gone, Settled, ControllerMoves, SameSwitches, SameRun, Sound, Consistent, AtBreakpoint, Waits
<1>2. CASE HartMoves(m, n)
  <2>1. n.power = m.power BY <1>2 DEF HartMoves, SameSwitches
  <2>2. CASE n = m BY <2>2
  <2>3. CASE m.state = "running" /\ m.power
    <3>1. m.ctl = "run" /\ m.single /\ m.stepping /\ ~m.pause /\ m.steps = e
      BY <2>3 DEF Gone, Sound, Consistent, AtBreakpoint
    <3>2. n.ctl = "run" /\ n.single /\ n.stepping /\ ~n.pause BY <1>2, <3>1 DEF HartMoves, SameSwitches
    <3>3. \/ AtBreakpoint(n) /\ n.steps = e + 1
          \/ n.state = "running" /\ n.steps = e
          \/ n.state = "halt"
      BY <1>2, <2>3, <3>1 DEF HartMoves, StopMoves, AtBreakpoint
    <3> QED BY <3>2, <3>3 DEF Gone
  <2> QED BY <1>2, <2>1, <2>2, <2>3 DEF HartMoves, Gone
<1> QED BY <1>1, <1>2

(* The same for a tick.                                                    *)
LEMMA GoneTick ==
  ASSUME NEW m, NEW e \in Nat, Sound(m), Settled(m), Gone(m, e), NEW n \in Tick(m)
  PROVE  Gone(n, e)
<1>1. PICK a, b, c, d : Path(m, a, b, c, d, n) BY TickPath
<1>2. Gone(a, e) /\ Gone(b, e) BY <1>1, GoneMoves DEF Path
<1>3. Gone(c, e) /\ Gone(d, e) BY <1>1, <1>2, GoneMoves DEF Path
<1> QED BY <1>1, <1>3, GoneMoves DEF Path

(* The tick after unpause leaves the breakpoint.                           *)
LEMMA ResumeTick ==
  ASSUME NEW m, NEW e \in Nat, Sound(m), Held(m, e), m.single, ~m.pause, NEW n \in Tick(m)
  PROVE  Gone(n, e)
<1>1. PICK a, b, c, d : Path(m, a, b, c, d, n) BY TickPath
<1>2. a = m /\ b = m
  BY <1>1 DEF Path, Held, HartMoves, Sound, Consistent, AtBreakpoint
<1>3. Gone(c, e)
  BY <1>1, <1>2 DEF Path, Held, ControllerMoves, Gone, SameRun, Waits, AtBreakpoint
<1>4. Gone(d, e) BY <1>1, <1>3, GoneMoves DEF Path
<1> QED BY <1>1, <1>4, GoneMoves DEF Path

-----------------------------------------------------------------------------
(* One more instruction of the same program.                               *)
LEMMA AppendConstant ==
  ASSUME NEW k \in Nat, NEW t
  PROVE  Append([n \in 1..k |-> t], t) = [n \in 1..(k + 1) |-> t]
<1> DEFINE s == [n \in 1..k |-> t]
<1>1. s \in Seq({t}) /\ Len(s) = k OBVIOUS
<1>2. Append(s, t) = [n \in 1..(k + 1) |-> IF n <= k THEN s[n] ELSE t]
  BY <1>1
<1> QED BY <1>2

(* A hart that starts from the reset runs its own program.                 *)
LEMMA FreshRun ==
  ASSUME NEW m, NEW t \in Tests, m.run = <<>>, ~m.due, ~m.error, m.state = "running"
  PROVE  OwnRun(m, t)
<1>1. Length[t] \in Nat \ {0} BY TestsAssumption
<1>2. Len(m.run) = 0 /\ m.run = [n \in 1..0 |-> t] OBVIOUS
<1> QED BY <1>1, <1>2 DEF OwnRun

(* The controller keeps a program that was started without stepping on its *)
(* way to its end or to a breakpoint, and turns the machine off at its end.*)
LEMMA WayController ==
  ASSUME NEW m, NEW n, NEW t \in Tests, Sound(m), OnItsWay(m, t), ControllerMoves(m, n)
  PROVE  IF m.power THEN Started(n, t) \/ Finished(n, t) ELSE Flashed(n, t)
<1> USE DEF OnItsWay, ControllerMoves, Kept, SameSwitches, SameRun, Waits, Started, Finished, Flashed, AtBreakpoint
<1>1. CASE m.ctl \in {"waiting", "init"}
  BY <1>1
<1>2. CASE m.ctl = "ready" /\ n.ctl = "ready"
  BY <1>2
<1>3. CASE m.ctl = "ready" /\ n.ctl # "ready"
  <2>1. n.run = <<>> /\ ~n.due /\ ~n.error /\ n.state = "running" BY <1>3 DEF Sound, Consistent
  <2>2. OwnRun(n, t) BY <2>1, FreshRun
  <2> QED BY <1>3, <2>1, <2>2
<1>4. CASE m.ctl = "run" /\ m.state = "running" /\ m.power
  BY <1>4 DEF OwnRun
<1>5. CASE m.ctl = "run" /\ (m.state = "halt" \/ (m.state = "running" /\ ~m.power))
  <2>1. m.state = "halt" => m.run = Full(t) BY <1>5 DEF OwnRun, Full
  <2> QED BY <1>5, <2>1 DEF OwnRun
<1>6. CASE m.ctl = "run" /\ AtBreakpoint(m)
  BY <1>6 DEF OwnRun
<1>7. CASE m.ctl = "break"
  BY <1>7
<1>8. m.ctl = "run" => m.state \in {"halt", "running", "breakpoint", "trap_breakpoint"}
  BY DEF OwnRun, Sound, MachineStates
<1>9. m.ctl \in {"waiting", "init", "ready", "run", "break"} BY DEF Sound, MachineStates
<1> QED BY <1>1, <1>2, <1>3, <1>4, <1>5, <1>6, <1>7, <1>8, <1>9

(* The hart executes a program that is on its way up to its end, where it  *)
(* prints its error, if any.                                               *)
LEMMA WayHart ==
  ASSUME NEW m, NEW n, NEW t \in Tests, Sound(m), OnItsWay(m, t), HartMoves(m, n)
  PROVE  OnItsWay(n, t) /\ n.power = m.power
<1>0. Length[t] \in Nat \ {0} /\ Fails[t] \in BOOLEAN /\ m.run \in Seq(Tests)
  BY TestsAssumption DEF Sound, MachineStates
<1>1. CASE n = m BY <1>1
<1>2. CASE m.state = "running" /\ n # m
  <2>1. m.ctl = "run" BY <1>2 DEF Sound, Consistent, AtBreakpoint, MachineStates
  <2>2. OwnRun(m, t) /\ m.rom = t /\ ~m.stepping BY <2>1 DEF OnItsWay
  <2>3. Len(m.run) \in Nat /\ Len(m.run) < Length[t] /\ ~m.error BY <1>0, <1>2, <2>2 DEF OwnRun
  <2>4. ASSUME n.run = m.run, n.error = m.error, n.due => n.fetched = t,
               n.state \in {"running", "breakpoint", "trap_breakpoint"}
        PROVE  OwnRun(n, t)
    BY <1>2, <2>2, <2>3, <2>4 DEF OwnRun
  <2>5. ASSUME m.due, n.run = Append(m.run, m.fetched), ~n.due,
               n.state = IF Len(m.run) + 1 >= Length[m.fetched] THEN "halt" ELSE m.state,
               n.error = (m.error \/ (Len(m.run) + 1 = Length[m.fetched] /\ Fails[m.fetched]))
        PROVE  OwnRun(n, t)
    <3>1. m.fetched = t BY <2>2, <2>5 DEF OwnRun
    <3>2. n.run = [i \in 1..(Len(m.run) + 1) |-> t] BY <2>2, <2>3, <2>5, <3>1, AppendConstant DEF OwnRun
    <3>3. Len(n.run) = Len(m.run) + 1 BY <1>0, <2>5
    <3>4. CASE Len(m.run) + 1 >= Length[t]
      <4>1. Len(m.run) + 1 = Length[t] BY <1>0, <2>3, <3>4
      <4>2. n.state = "halt" /\ n.error = Fails[t] BY <1>0, <2>3, <2>5, <3>1, <4>1
      <4> QED BY <2>5, <3>2, <3>3, <4>1, <4>2 DEF OwnRun
    <3>5. CASE ~(Len(m.run) + 1 >= Length[t])
      <4>1. Len(m.run) + 1 < Length[t] BY <1>0, <2>3, <3>5
      <4>2. ~(Len(m.run) + 1 >= Length[m.fetched]) /\ Len(m.run) + 1 # Length[m.fetched]
        BY <1>0, <2>3, <3>1, <4>1
      <4>3. n.state = "running" BY <1>2, <2>5, <4>2
      <4>4. ~n.error BY <2>3, <2>5, <4>2, Zenon
      <4> QED BY <2>5, <3>2, <3>3, <4>1, <4>3, <4>4 DEF OwnRun
    <3> QED BY <3>4, <3>5
  <2>6. OwnRun(n, t) BY <1>2, <2>2, <2>4, <2>5 DEF HartMoves, StopMoves
  <2>7. ~m.power => ~AtBreakpoint(n)
    BY <1>2, <2>1, <2>2 DEF OnItsWay, HartMoves, StopMoves, AtBreakpoint
  <2> QED BY <2>1, <2>6, <2>7 DEF OnItsWay, HartMoves, SameSwitches, Kept
<1> QED BY <1>1, <1>2 DEF HartMoves

(* A finished run stays as it is.                                          *)
LEMMA FinishedMoves ==
  ASSUME NEW m, NEW n, NEW t, Sound(m), Finished(m, t), ControllerMoves(m, n) \/ HartMoves(m, n)
  PROVE  Finished(n, t)
BY DEF Finished, Sound, Consistent, ControllerMoves, HartMoves, SameSwitches, SameRun, Waits

(* The same for a tick.                                                    *)
LEMMA FinishedTick ==
  ASSUME NEW m, NEW t, Sound(m), Finished(m, t), NEW n \in Tick(m)
  PROVE  Finished(n, t)
<1>1. PICK a, b, c, d : Path(m, a, b, c, d, n) BY TickPath
<1>2. Finished(a, t) /\ Finished(b, t) BY <1>1, FinishedMoves DEF Path
<1>3. Finished(c, t) /\ Finished(d, t) BY <1>1, <1>2, FinishedMoves DEF Path
<1> QED BY <1>1, <1>3, FinishedMoves DEF Path

(* Before it is started, the machine may still initialise itself with the  *)
(* new program, but it does not run another one.                           *)
LEMMA FlashedTick ==
  ASSUME NEW m, NEW t \in Tests, Sound(m), Flashed(m, t), NEW n \in Tick(m)
  PROVE  Flashed(n, t)
<1>1. PICK a, b, c, d : Path(m, a, b, c, d, n) BY TickPath
<1>2. Flashed(a, t) /\ Flashed(b, t) BY <1>1, WayHart DEF Path, Flashed
<1>3. Flashed(c, t) BY <1>1, <1>2, WayController DEF Path, Flashed
<1> QED BY <1>1, <1>3, WayHart DEF Path, Flashed

(* A started test is on its way or has finished.                           *)
LEMMA StartedMoves ==
  ASSUME NEW m, NEW n, NEW t \in Tests, Sound(m), Started(m, t) \/ Finished(m, t),
         ControllerMoves(m, n) \/ HartMoves(m, n)
  PROVE  Started(n, t) \/ Finished(n, t)
<1>1. CASE Finished(m, t) BY <1>1, FinishedMoves
<1>2. CASE Started(m, t) /\ ControllerMoves(m, n) BY <1>2, WayController DEF Started
<1>3. CASE Started(m, t) /\ HartMoves(m, n) BY <1>3, WayHart DEF Started
<1> QED BY <1>1, <1>2, <1>3

(* The same for a tick.                                                    *)
LEMMA StartedTick ==
  ASSUME NEW m, NEW t \in Tests, Sound(m), Started(m, t) \/ Finished(m, t), NEW n \in Tick(m)
  PROVE  Started(n, t) \/ Finished(n, t)
<1> DEFINE P(k) == Started(k, t) \/ Finished(k, t)
<1>1. PICK a, b, c, d : Path(m, a, b, c, d, n) BY TickPath
<1>2. P(a) BY <1>1, StartedMoves DEF Path
<1>3. P(b) BY <1>1, <1>2, StartedMoves DEF Path
<1>4. P(c) BY <1>1, <1>3, StartedMoves DEF Path
<1>5. P(d) BY <1>1, <1>4, StartedMoves DEF Path
<1> QED BY <1>1, <1>5, StartedMoves DEF Path

-----------------------------------------------------------------------------
(* When the stop was heard, the controller leaves a machine that is off or *)
(* about to be.                                                            *)
LEMMA StopController ==
  ASSUME NEW m, NEW n, Sound(m), Halting(m), ControllerMoves(m, n)
  PROVE  Stopped(n)
BY DEF Stopped, Halting, Sound, Consistent, ControllerMoves, SameSwitches, Kept, Waits

(* The hart does not turn it on again.                                     *)
LEMMA StopHart ==
  ASSUME NEW m, NEW n, Sound(m), HartMoves(m, n)
  PROVE  (Halting(m) => Halting(n)) /\ (Stopped(m) => Stopped(n))
<1>1. Halting(m) => Halting(n) BY DEF Halting, HartMoves, SameSwitches, Kept
<1>2. ASSUME Stopped(m), n.ctl = "run" PROVE ~n.stepping /\ ~n.address /\ n.state \in {"running", "halt"}
  BY <1>2 DEF Stopped, HartMoves, StopMoves, Kept
<1> QED BY <1>1, <1>2 DEF Stopped

(* The tick after stop, and those that follow.                             *)
LEMMA StoppedTick ==
  ASSUME NEW m, Sound(m), Halting(m), NEW n \in Tick(m)
  PROVE  Stopped(n)
<1>1. PICK a, b, c, d : Path(m, a, b, c, d, n) BY TickPath
<1>2. Halting(a) /\ Halting(b) BY <1>1, StopHart DEF Path
<1>3. Stopped(c) BY <1>1, <1>2, StopController DEF Path
<1> QED BY <1>1, <1>3, StopHart DEF Path

(* In the tick after flash, the controller turns off whatever ran the old  *)
(* program.                                                                *)
LEMMA FlashController ==
  ASSUME NEW m, NEW n, NEW t \in Tests, Sound(m), Stopped(m), m.rom = t, ControllerMoves(m, n)
  PROVE  Flashed(n, t)
<1> USE DEF OnItsWay, Stopped, Halting, ControllerMoves, Flashed, SameSwitches, Kept, Waits, AtBreakpoint
<1>1. CASE m.ctl = "ready" /\ n.ctl # "ready"
  <2>1. n.run = <<>> /\ ~n.due /\ ~n.error /\ n.state = "running"
    BY <1>1 DEF Sound, Consistent, SameRun
  <2>2. OwnRun(n, t) BY <2>1, FreshRun
  <2> QED BY <1>1, <2>1, <2>2
<1>2. CASE m.ctl = "ready" /\ n.ctl = "ready" BY <1>2
<1>3. CASE m.ctl \in {"waiting", "init"} BY <1>3
<1>4. CASE m.ctl \in {"run", "break"} BY <1>4
<1> QED BY <1>1, <1>2, <1>3, <1>4 DEF Sound, MachineStates

(* The tick after flash.                                                   *)
LEMMA FlashTick ==
  ASSUME NEW m, NEW t \in Tests, Sound(m), Stopped(m), m.rom = t, NEW n \in Tick(m)
  PROVE  Flashed(n, t)
<1>1. PICK a, b, c, d : Path(m, a, b, c, d, n) BY TickPath
<1>2. Stopped(a) /\ a.rom = t BY <1>1, StopHart DEF Path, HartMoves, Kept
<1>3. Stopped(b) /\ b.rom = t BY <1>1, <1>2, StopHart DEF Path, HartMoves, Kept
<1>4. Flashed(c, t) BY <1>1, <1>3, FlashController DEF Path
<1> QED BY <1>1, <1>4, WayHart DEF Path, Flashed
-----------------------------------------------------------------------------
(* The calls of riscof and their arguments.                                *)
LEMMA RiscofKinds ==
  ASSUME NEW c \in RiscofCalls
  PROVE  \/ c.type \in {"status", "stop"}
         \/ c.type = "start" /\ c.singleStep = FALSE
         \/ c.type \in {"flash", "dump"} /\ c.test \in Tests
         \/ c.type = "wait" /\ c.stopped = TRUE /\ c.paused = FALSE
BY DEF RiscofCalls, StatusCall, StopCall, DumpCall, StartCall, FlashCall, WaitCall

(* The calls of debug and their arguments.                                 *)
LEMMA DebugKinds ==
  ASSUME NEW c \in DebugCalls
  PROVE  \/ c.type \in {"status", "unpause"}
         \/ c.type = "start" /\ c.singleStep = TRUE
         \/ c.type = "wait" /\ c.stopped = TRUE /\ c.paused = TRUE
BY DEF DebugCalls, StatusCall, UnpauseCall, StartCall, WaitCall

(* All calls and their arguments.                                          *)
LEMMA CallKinds ==
  ASSUME NEW c \in Calls
  PROVE  \/ c.type \in {"status", "stop", "unpause"}
         \/ c.type = "start" /\ c.singleStep \in BOOLEAN
         \/ c.type \in {"flash", "dump"} /\ c.test \in Tests
         \/ c.type = "wait" /\ c.stopped = TRUE /\ c.paused \in BOOLEAN
BY RiscofKinds, DebugKinds DEF Calls

(* No request touches the controller, the hart and its run.                *)
SameHart(m, n) ==
  /\ n.ctl = m.ctl /\ n.state = m.state /\ n.stepping = m.stepping /\ n.address = m.address
  /\ n.traps = m.traps /\ n.seen = m.seen /\ SameRun(m, n)

(* So it remains consistent.                                               *)
LEMMA HartConsistent ==
  ASSUME NEW m, NEW n, Sound(m), n \in MachineStates, SameHart(m, n)
  PROVE  Sound(n)
BY DEF Sound, Consistent, SameHart, SameRun, AtBreakpoint

(* What the body of a stop request does to the machine, and its answer.    *)
LEMMA StopHandled ==
  ASSUME NEW m, Sound(m), NEW c, c.type = "stop"
  PROVE  LET r == Handled(m, c) IN
           Sound(r[1]) /\ r[2] = Success /\ (~r[1].unheard => Halting(r[1]))
<1> DEFINE u == \/ m.ctl = "ready" /\ m.stepping
                \/ m.ctl \in {"init", "ready"} /\ m.address
           n == [m EXCEPT !.power = FALSE, !.pause = FALSE, !.single = FALSE, !.unheard = u]
<1>1. Handled(m, c) = <<n, Success>> BY DEF Handled, StopRequest
<1>2. u \in BOOLEAN OBVIOUS
<1>3. n \in MachineStates /\ n.power = FALSE /\ n.pause = FALSE /\ n.single = FALSE /\ n.unheard = u
      /\ SameHart(m, n)
  <2> HIDE DEF u
  <2> QED BY <1>2 DEF Sound, MachineStates, SameHart, SameRun
<1> HIDE DEF n
<1>4. Sound(n) BY <1>3, HartConsistent
<1>5. ~n.unheard => Halting(n) BY <1>3 DEF Halting, SameHart
<1> QED BY <1>1, <1>4, <1>5

(* Likewise flash, which changes the program only.                         *)
LEMMA FlashHandled ==
  ASSUME NEW m, Sound(m), NEW t \in Tests, NEW c, c.type = "flash", c.test = t
  PROVE  LET r == Handled(m, c) IN
           \/ r = <<m, Failure>>
           \/ /\ Sound(r[1]) /\ r[2] = Success /\ r[1].rom = t /\ SameSwitches(m, r[1])
              /\ SameHart(m, r[1]) /\ r[1].unheard = m.unheard
<1>1. CASE t \in BadFiles BY <1>1 DEF Handled, Flash
<1>2. CASE t \notin BadFiles
  <2> DEFINE n == [m EXCEPT !.rom = t]
  <2>1. Handled(m, c) = <<n, Success>> BY <1>2 DEF Handled, Flash
  <2>2. n \in MachineStates /\ SameHart(m, n) /\ n.rom = t /\ SameSwitches(m, n) /\ n.unheard = m.unheard
    BY DEF Sound, MachineStates, SameSwitches, SameHart, SameRun
  <2> HIDE DEF n
  <2>3. Sound(n) BY <2>2, HartConsistent
  <2> QED BY <2>1, <2>2, <2>3
<1> QED BY <1>1, <1>2

(* Likewise start, which does not touch the pause switch.                  *)
LEMMA StartHandled ==
  ASSUME NEW m, Sound(m), NEW c, c.type = "start", c.singleStep \in BOOLEAN
  PROVE  LET r == Handled(m, c) IN
           /\ Sound(r[1]) /\ r[2] = Success /\ r[1].power /\ r[1].pause = m.pause
           /\ r[1].single = c.singleStep /\ SameHart(m, r[1]) /\ Kept(m, r[1])
<1> DEFINE n == [m EXCEPT !.single = c.singleStep, !.power = TRUE]
<1>1. Handled(m, c) = <<n, Success>> BY DEF Handled, StartRequest
<1>2. n \in MachineStates /\ SameHart(m, n) /\ Kept(m, n)
      /\ n.power = TRUE /\ n.pause = m.pause /\ n.single = c.singleStep
  BY DEF Sound, MachineStates, SameHart, SameRun, Kept
<1> HIDE DEF n
<1>3. Sound(n) BY <1>2, HartConsistent
<1> QED BY <1>1, <1>2, <1>3

(* Likewise unpause, which fails if the machine is off.                    *)
LEMMA UnpauseHandled ==
  ASSUME NEW m, Sound(m), NEW c, c.type = "unpause"
  PROVE  LET r == Handled(m, c) IN
           \/ r = <<m, Failure>>
           \/ /\ m.power /\ Sound(r[1]) /\ r[2] = Success /\ r[1].power /\ ~r[1].pause
              /\ r[1].single = m.single /\ SameHart(m, r[1]) /\ Kept(m, r[1])
<1>1. CASE ~m.power BY <1>1 DEF Handled, UnpauseRequest
<1>2. CASE m.power
  <2> DEFINE n == [m EXCEPT !.pause = FALSE]
  <2>1. Handled(m, c) = <<n, Success>> BY <1>2 DEF Handled, UnpauseRequest
  <2>2. n \in MachineStates /\ SameHart(m, n) /\ Kept(m, n) /\ n.power /\ ~n.pause /\ n.single = m.single
    BY <1>2 DEF Sound, MachineStates, SameHart, SameRun, Kept
  <2> HIDE DEF n
  <2>3. Sound(n) BY <2>2, HartConsistent
  <2> QED BY <2>1, <2>2, <2>3, <1>2
<1> QED BY <1>1, <1>2

(* A status reports the switches and the controller's view of the hart.    *)
LEMMA StatusHandled ==
  ASSUME NEW m, Sound(m), NEW c, c.type = "status"
  PROVE  LET r == Handled(m, c) IN
           /\ r[1] = m /\ r[2] \in Statuses /\ r[2].running = m.power /\ r[2].paused = m.pause
           /\ r[2].error = m.error /\ r[2].steps = m.seen
<1>1. Handled(m, c) = StatusRequest(m) BY DEF Handled
<1> QED BY <1>1 DEF StatusRequest, Statuses, Sound, MachineStates

(* A dump is what the last run left in the RAM.                            *)
LEMMA DumpHandled ==
  ASSUME NEW m, Sound(m), NEW c, c.type = "dump"
  PROVE  LET r == Handled(m, c) IN
           /\ r[1] = m
           /\ r[2] # Failure => r[2] \in Dumps /\ r[2].run = m.run /\ r[2].unheard = m.unheard
<1> DEFINE d == [type |-> "dump", run |-> m.run, unheard |-> m.unheard]
<1>1. Handled(m, c) = <<m, IF c.test \in BadSignatures THEN Failure ELSE d>> BY DEF Handled, DumpRequest
<1>2. d \in Dumps /\ d.run = m.run /\ d.unheard = m.unheard BY DEF Dumps, Sound, MachineStates
<1> HIDE DEF d
<1> QED BY <1>1, <1>2

(* A wait only reads.                                                      *)
LEMMA WaitHandled ==
  ASSUME NEW m, NEW c, c.type = "wait"
  PROVE  Handled(m, c) = <<m, Success>>
BY DEF Handled

(* No request leads out of the sound machines, every answer is of the type *)
(* that the script expects, and only a stop decides whether it was heard.  *)
LEMMA HandledSound ==
  ASSUME NEW m, Sound(m), NEW c \in Calls
  PROVE  /\ Sound(Handled(m, c)[1]) /\ Answer(c, Handled(m, c)[2])
         /\ c.type # "stop" => Handled(m, c)[1].unheard = m.unheard
<1> USE DEF Answer, Kept
<1>1. CASE c.type = "stop" BY <1>1, StopHandled
<1>2. CASE c.type = "flash"
  <2>1. c.test \in Tests BY <1>2, CallKinds
  <2> QED BY <1>2, <2>1, FlashHandled
<1>3. CASE c.type = "start"
  <2>1. c.singleStep \in BOOLEAN BY <1>3, CallKinds
  <2> QED BY <1>3, <2>1, StartHandled
<1>4. CASE c.type = "unpause" BY <1>4, UnpauseHandled
<1>5. CASE c.type = "status" BY <1>5, StatusHandled
<1>6. CASE c.type = "dump" BY <1>6, DumpHandled
<1>7. CASE c.type = "wait" BY <1>7, WaitHandled
<1> QED BY <1>1, <1>2, <1>3, <1>4, <1>5, <1>6, <1>7, CallKinds
-----------------------------------------------------------------------------
(* A tick without a request keeps the phase of riscof.                     *)
LEMMA RiscofTick ==
  ASSUME NEW m, NEW n, NEW t \in Tests, NEW c, NEW a, Sound(m), n \in Tick(m), RiscofPhase(m, c, a, t)
  PROVE  RiscofPhase(n, c, a, t) /\ n.unheard = m.unheard
<1>0. n.unheard = m.unheard BY TickSound DEF Kept
<1>1. Stopped(m) => Stopped(n) BY StoppedTick DEF Stopped
<1>2. Flashed(m, t) => Flashed(n, t) BY FlashedTick
<1>3. Started(m, t) \/ Finished(m, t) => Started(n, t) \/ Finished(n, t) BY StartedTick
<1>4. Finished(m, t) => Finished(n, t) BY FinishedTick
<1> QED BY <1>0, <1>1, <1>2, <1>3, <1>4 DEF RiscofPhase

(* A request and the tick after it lead to the next phase.                 *)
LEMMA RiscofHandled ==
  ASSUME NEW m, NEW n, NEW t \in Tests, NEW c \in RiscofCalls, Sound(m),
         c.type = "flash" => c.test = t,
         RiscofPhase(m, c.type, FALSE, t),
         c.type = "wait" => WaitOver(m, c),
         n \in Tick(Handled(m, c)[1]), Handled(m, c)[2] # Failure
  PROVE  /\ RiscofPhase(n, c.type, TRUE, t) /\ RiscofAnswer(c.type, Handled(m, c)[2], t, m.unheard)
         /\ c.type = "status" => m.unheard = n.unheard
         /\ c.type = "dump" => Handled(m, c)[2].unheard = n.unheard
<1> DEFINE r == Handled(m, c)
<1>0. c \in Calls BY DEF Calls
<1>a. Sound(r[1]) /\ (c.type # "stop" => r[1].unheard = m.unheard) BY <1>0, HandledSound
<1>b. n \in Tick(r[1]) /\ r[2] # Failure OBVIOUS
<1>c. n.unheard = r[1].unheard
  <2> HIDE DEF r
  <2> QED BY <1>a, <1>b, TickSound DEF Kept
<1>1. CASE c.type = "stop"
  <2>1. ~r[1].unheard => Halting(r[1]) BY <1>1, StopHandled
  <2> HIDE DEF r
  <2>2. ~n.unheard => Stopped(n) BY <1>a, <1>b, <1>c, <2>1, StoppedTick
  <2>3. RiscofPhase(n, c.type, TRUE, t) BY <1>1, <2>2 DEF RiscofPhase
  <2>4. RiscofAnswer(c.type, r[2], t, m.unheard) BY <1>1 DEF RiscofAnswer
  <2> QED BY <1>1, <2>3, <2>4 DEF r
<1>2. CASE c.type = "flash"
  <2>1. \/ r = <<m, Failure>>
        \/ r[1].rom = t /\ SameSwitches(m, r[1]) /\ SameHart(m, r[1])
    BY <1>2, FlashHandled
  <2> HIDE DEF r
  <2>2. r[1].rom = t /\ SameSwitches(m, r[1]) /\ SameHart(m, r[1]) BY <1>b, <2>1
  <2>3. ~n.unheard => Stopped(m) BY <1>2, <1>a, <1>c DEF RiscofPhase
  <2>4. Stopped(m) => Stopped(r[1]) BY <2>2 DEF Stopped, Halting, SameSwitches, SameHart
  <2>5. ~n.unheard => Flashed(n, t) BY <1>a, <1>b, <2>2, <2>3, <2>4, FlashTick
  <2>6. RiscofPhase(n, c.type, TRUE, t) BY <1>2, <2>5 DEF RiscofPhase
  <2>7. RiscofAnswer(c.type, r[2], t, m.unheard) BY <1>2 DEF RiscofAnswer
  <2> QED BY <1>2, <2>6, <2>7 DEF r
<1>3. CASE c.type = "start"
  <2>0. c.singleStep = FALSE BY <1>3, RiscofKinds
  <2>a. c.singleStep \in BOOLEAN BY <2>0
  <2>1. /\ r[1].power /\ r[1].pause = m.pause
        /\ r[1].single = c.singleStep /\ SameHart(m, r[1]) /\ Kept(m, r[1])
    BY <1>3, <2>a, StartHandled
  <2> HIDE DEF r
  <2>3. ~n.unheard => Flashed(m, t) BY <1>3, <1>a, <1>c DEF RiscofPhase
  <2>4. Flashed(m, t) => Started(r[1], t)
    BY <2>0, <2>1 DEF Started, Flashed, OnItsWay, SameHart, SameRun, OwnRun, Kept
  <2>5. ~n.unheard => Started(n, t) \/ Finished(n, t) BY <1>a, <1>b, <2>3, <2>4, StartedTick
  <2>6. RiscofPhase(n, c.type, TRUE, t) BY <1>3, <2>5 DEF RiscofPhase
  <2>7. RiscofAnswer(c.type, r[2], t, m.unheard) BY <1>3 DEF RiscofAnswer
  <2> QED BY <1>3, <2>6, <2>7 DEF r
<1>4. CASE c.type = "wait"
  <2>1. n \in Tick(m) BY <1>4, WaitHandled
  <2>2. ~m.power BY <1>4, RiscofKinds DEF WaitOver
  <2> HIDE DEF r
  <2>3. ~n.unheard => Finished(m, t) BY <1>4, <1>a, <1>c, <2>2 DEF RiscofPhase, Started
  <2>4. ~n.unheard => Finished(n, t) BY <2>1, <2>3, FinishedTick
  <2>6. RiscofPhase(n, c.type, TRUE, t) BY <1>4, <2>4 DEF RiscofPhase
  <2>7. RiscofAnswer(c.type, r[2], t, m.unheard) BY <1>4 DEF RiscofAnswer
  <2> QED BY <1>4, <2>6, <2>7 DEF r
<1>5. CASE c.type = "dump"
  <2>1. n \in Tick(m) /\ r[2].run = m.run /\ r[2].unheard = m.unheard BY <1>5, DumpHandled
  <2> HIDE DEF r
  <2>2. ~n.unheard => Finished(m, t) BY <1>5, <1>a, <1>c DEF RiscofPhase
  <2>3. ~n.unheard => Finished(n, t) BY <2>1, <2>2, FinishedTick
  <2>4. RiscofAnswer(c.type, r[2], t, m.unheard) BY <1>5, <1>a, <1>c, <2>1, <2>2 DEF RiscofAnswer, Finished
  <2>5. RiscofPhase(n, c.type, TRUE, t) BY <1>5, <2>3 DEF RiscofPhase
  <2> QED BY <1>5, <1>a, <1>c, <2>1, <2>4, <2>5 DEF r
<1>6. CASE c.type = "status"
  <2>1. n \in Tick(m) /\ r[2].error = m.error BY <1>6, StatusHandled
  <2> HIDE DEF r
  <2>2. ~n.unheard => Finished(m, t) BY <1>6, <1>a, <1>c DEF RiscofPhase
  <2>3. ~n.unheard => Finished(n, t) BY <2>1, <2>2, FinishedTick
  <2>4. RiscofAnswer(c.type, r[2], t, m.unheard) BY <1>6, <1>a, <1>c, <2>1, <2>2 DEF RiscofAnswer, Finished
  <2>5. RiscofPhase(n, c.type, TRUE, t) BY <1>6, <2>3 DEF RiscofPhase
  <2> QED BY <1>6, <1>a, <1>c, <2>4, <2>5 DEF r
<1> QED BY <1>1, <1>2, <1>3, <1>4, <1>5, <1>6, RiscofKinds

(* The count of the last status is a number.                               *)
LEMMA LastStepType ==
  ASSUME NEW res \in Seq(Statuses), res # <<>>
  PROVE  LastStep(res) \in Nat
<1>1. Len(res) \in 1..Len(res) OBVIOUS
<1>2. res[Len(res)] \in Statuses BY <1>1
<1> QED BY <1>2 DEF LastStep, Statuses

(* A tick without a request keeps the phase of debug.                      *)
LEMMA DebugTick ==
  ASSUME NEW m, NEW n, NEW c, NEW a, NEW r, NEW res \in Seq(Statuses),
         Sound(m), res # <<>> => Settled(m), n \in Tick(m), DebugPhase(m, c, a, r, res),
         res # <<>> /\ c = "status" /\ a => r \in Statuses
  PROVE  DebugPhase(n, c, a, r, res)
<1>1. PauseIsStop(m) => PauseIsStop(n) BY PauseTick
<1>2. CASE res = <<>> BY <1>1, <1>2 DEF DebugPhase
<1>3. CASE res # <<>>
  <2>1. LastStep(res) \in Nat BY <1>3, LastStepType
  <2>2. AtStop(m) => AtStop(n) BY <1>3, AtStopTick
  <2>3. \A e : Held(m, e) => Held(n, e) BY <1>3, HeldTick
  <2>4. Stepped(m, res) => Stepped(n, res) BY <1>3, <2>1, GoneTick DEF Stepped
  <2> QED BY <1>1, <1>3, <2>2, <2>3, <2>4 DEF DebugPhase
<1> QED BY <1>2, <1>3

(* A request and the tick after it lead to the next phase; a status that   *)
(* shows a running machine shows one step more than the last.              *)
LEMMA DebugHandled ==
  ASSUME NEW m, NEW n, NEW c \in DebugCalls, NEW q, NEW res \in Seq(Statuses),
         Sound(m), res = <<>> => c.type = "status", res # <<>> => Settled(m),
         DebugPhase(m, c.type, FALSE, q, res),
         c.type = "wait" => WaitOver(m, c),
         n \in Tick(Handled(m, c)[1]), Handled(m, c)[2] # Failure
  PROVE  /\ DebugPhase(n, c.type, TRUE, Handled(m, c)[2], res)
         /\ DebugAnswer(c.type, Handled(m, c)[2], res)
<1> DEFINE r == Handled(m, c)
<1>0. n \in Tick(r[1]) /\ r[2] # Failure OBVIOUS
<1>1. CASE c.type = "status"
  <2>1. r[1] = m /\ r[2].running = m.power /\ r[2].paused = m.pause /\ r[2].steps = m.seen
    BY <1>1, StatusHandled
  <2> HIDE DEF r
  <2>2. n \in Tick(m) BY <1>0, <2>1
  <2>3. PauseIsStop(m) => PauseIsStop(n) BY <2>2, PauseTick
  <2>4. CASE res = <<>>
    <3>1. ~r[2].paused => PauseIsStop(m) BY <2>1 DEF PauseIsStop
    <3>2. DebugPhase(n, c.type, TRUE, r[2], res) BY <2>3, <2>4, <3>1 DEF DebugPhase
    <3>3. DebugAnswer(c.type, r[2], res) BY <2>4 DEF DebugAnswer
    <3> QED BY <3>2, <3>3 DEF r
  <2>5. CASE res # <<>>
    <3>1. Settled(m) /\ PauseIsStop(m) /\ AtStop(m) /\ Stepped(m, res)
      BY <1>1, <2>5 DEF DebugPhase
    <3>2. r[2].running => Held(m, m.seen) /\ r[2].paused
      BY <2>1, <3>1 DEF AtStop, Held, Settled, Sound, Consistent
    <3>3. r[2].running => Held(n, r[2].steps)
      BY <2>1, <2>2, <3>1, <3>2, HeldTick
    <3>4. Len(res) > 1 /\ r[2].running => r[2].steps = LastStep(res) + 1
      BY <2>1, <3>1, <3>2 DEF Stepped, Gone, Held, Sound, Consistent
    <3>5. DebugPhase(n, c.type, TRUE, r[2], res) BY <1>1, <2>3, <2>5, <3>1, <3>3 DEF DebugPhase
    <3>6. DebugAnswer(c.type, r[2], res) BY <3>2, <3>4 DEF DebugAnswer
    <3> QED BY <3>5, <3>6 DEF r
  <2> QED BY <2>4, <2>5
<1>2. CASE c.type = "start"
  <2>0. res # <<>> /\ c.singleStep = TRUE BY <1>2, DebugKinds
  <2>a. c.singleStep \in BOOLEAN BY <2>0
  <2>1. Sound(r[1]) /\ r[1].pause = m.pause /\ r[1].ctl = m.ctl BY <1>2, <2>a, StartHandled DEF SameHart
  <2> HIDE DEF r
  <2>2. PauseIsStop(m) /\ Len(res) = 1 BY <1>2, <2>0 DEF DebugPhase
  <2>3. PauseIsStop(r[1]) BY <2>1, <2>2 DEF PauseIsStop
  <2>4. PauseIsStop(n) BY <1>0, <2>1, <2>3, PauseTick
  <2>5. DebugPhase(n, c.type, TRUE, r[2], res) BY <1>2, <2>0, <2>2, <2>4 DEF DebugPhase
  <2>6. DebugAnswer(c.type, r[2], res) BY <1>2 DEF DebugAnswer
  <2> QED BY <2>5, <2>6 DEF r
<1>3. CASE c.type = "unpause"
  <2>0. res # <<>> BY <1>3
  <2>a. LastStep(res) \in Nat BY <2>0, LastStepType
  <2>1. \/ r = <<m, Failure>>
        \/ /\ m.power /\ Sound(r[1]) /\ r[1].power /\ ~r[1].pause
           /\ r[1].single = m.single /\ r[1].ctl = m.ctl /\ r[1].steps = m.steps
    BY <1>3, UnpauseHandled DEF SameHart, SameRun
  <2> HIDE DEF r
  <2>2. /\ m.power /\ Sound(r[1]) /\ r[1].power /\ ~r[1].pause
        /\ r[1].single = m.single /\ r[1].ctl = m.ctl /\ r[1].steps = m.steps
    BY <1>0, <2>1
  <2>3. PauseIsStop(r[1]) BY <2>2 DEF PauseIsStop
  <2>4. PauseIsStop(n) BY <1>0, <2>2, <2>3, PauseTick
  <2>5. ASSUME Len(res) > 1 PROVE Gone(n, LastStep(res))
    <3>1. Held(m, LastStep(res)) BY <1>3, <2>0, <2>5 DEF DebugPhase
    <3>2. Held(r[1], LastStep(res)) /\ r[1].single BY <2>0, <2>2, <3>1 DEF Held, Settled
    <3> QED BY <1>0, <2>a, <2>2, <3>2, ResumeTick
  <2>6. DebugPhase(n, c.type, TRUE, r[2], res)
    BY <1>3, <2>0, <2>4, <2>5 DEF DebugPhase, Stepped
  <2>7. DebugAnswer(c.type, r[2], res) BY <1>3 DEF DebugAnswer
  <2> QED BY <2>6, <2>7 DEF r
<1>4. CASE c.type = "wait"
  <2>0. res # <<>> BY <1>4
  <2>a. LastStep(res) \in Nat BY <2>0, LastStepType
  <2>1. n \in Tick(m) BY <1>4, WaitHandled
  <2>2. Settled(m) /\ PauseIsStop(m) /\ Stepped(m, res) BY <1>4, <2>0 DEF DebugPhase
  <2>3. AtStop(m) BY <1>4, <2>2, DebugKinds DEF WaitOver, AtStop, PauseIsStop
  <2>4. PauseIsStop(n) /\ AtStop(n) BY <2>1, <2>2, <2>3, PauseTick, AtStopTick
  <2>5. Stepped(n, res) BY <2>a, <2>1, <2>2, GoneTick DEF Stepped
  <2> HIDE DEF r
  <2>6. DebugPhase(n, c.type, TRUE, r[2], res) BY <1>4, <2>0, <2>4, <2>5 DEF DebugPhase
  <2>7. DebugAnswer(c.type, r[2], res) BY <1>4 DEF DebugAnswer
  <2> QED BY <2>6, <2>7 DEF r
<1> QED BY <1>1, <1>2, <1>3, <1>4, DebugKinds
-----------------------------------------------------------------------------
(* The first element of a sequence.                                        *)
LEMMA HeadType ==
  ASSUME NEW S, NEW s \in Seq(S), s # <<>>
  PROVE  s[1] \in S /\ Head(s) = s[1] /\ Tail(s) \in Seq(S)
<1>1. 1 \in 1..Len(s) OBVIOUS
<1> QED BY <1>1

(* The calls of a script are among all calls.                              *)
LEMMA CallType ==
  ASSUME AccessType
  PROVE  /\ call \in Calls
         /\ script = "riscof" => call \in RiscofCalls
         /\ script = "debug" => call \in DebugCalls
BY DEF AccessType, Calls

(* The machine in which a frame runs the posted body.                      *)
LEMMA LatestSound ==
  ASSUME AccessType
  PROVE  Sound(machine) /\ Settled(machine) /\ Sound(Latest) /\ (late = <<>> => Latest = machine)
<1>1. Sound(machine) /\ Settled(machine) BY DEF AccessType, Sound
<1>2. CASE late = <<>> BY <1>1, <1>2 DEF Latest
<1>3. CASE late # <<>>
  <2>0. late \in Seq(Calls) BY DEF AccessType
  <2>1. late[1] \in Calls BY <1>3, <2>0, HeadType
  <2> QED BY <1>1, <1>3, <2>1, HandledSound DEF Latest
<1> QED BY <1>1, <1>2, <1>3

(* What the scripts call first.                                            *)
LEMMA FirstTypes ==
  /\ FirstCall("riscof").type = "stop" /\ FirstCall("debug").type = "status"
  /\ FirstCall("riscof") \in RiscofCalls /\ FirstCall("debug") \in DebugCalls
  /\ FirstCall("debug") = StatusCall
BY DEF FirstCall, StopCall, StatusCall, RiscofCalls, DebugCalls

(* A frame that answers nobody keeps the invariant.                        *)
LEMMA QuietFrame ==
  ASSUME AccessInv, machine' \in Tick(Latest), UNCHANGED <<scriptVars, call, connection>>,
         late' = <<>>, response' = response, channel' = channel \/ (channel = "posted" /\ channel' = "sent"),
         connection # None /\ late # <<>> => channel # "answered"
  PROVE  AccessInv'
<1> USE DEF scriptVars
<1>1. Sound(machine) /\ Settled(machine) /\ Sound(Latest) /\ (late = <<>> => Latest = machine)
  BY LatestSound DEF AccessInv
<1>2. Sound(machine') /\ Settled(machine') BY <1>1, TickSound
<1>3. (channel' = "answered") = (channel = "answered") /\ (channel' = "idle") = (channel = "idle")
      /\ channel' \in {"idle", "sent", "posted", "answered"}
  BY DEF AccessInv, AccessType
<1>4. AccessType'
  <2>1. <<>> \in Seq(Calls) OBVIOUS
  <2> QED BY <1>2, <1>3, <2>1 DEF AccessInv, AccessType, Sound
<1>5. LateInv' BY DEF LateInv
<1>6. SignatureInv' /\ StepsInv' BY DEF AccessInv, SignatureInv, SignatureIsOwn, Unheard, StepsInv
<1>7. AnswerInv' BY <1>3 DEF AccessInv, AnswerInv, Good, Unheard
<1>8. ASSUME Good, connection # None, script = "riscof"
      PROVE  /\ RiscofPhase(machine', call.type, channel = "answered", Head(tests))
             /\ call.type # "stop" => machine'.unheard = machine.unheard
  <2>0. tests \in Seq(Tests) /\ tests # <<>> BY <1>8 DEF AccessInv, AccessType, Good
  <2>1. Head(tests) \in Tests BY <2>0, HeadType
  <2>2. CASE late = <<>>
    <3>1. RiscofPhase(machine, call.type, channel = "answered", Head(tests))
      BY <1>8 DEF AccessInv, PhaseInv
    <3> QED BY <1>1, <2>1, <2>2, <3>1, RiscofTick
  <2>3. CASE late # <<>>
    <3>1. call.type = "stop" /\ channel # "answered"
      BY <1>8, <2>3, FirstTypes DEF AccessInv, LateInv
    <3> QED BY <3>1 DEF RiscofPhase
  <2> QED BY <2>2, <2>3
<1>9. ASSUME Good, connection # None, script = "debug", ~Odd(results)
      PROVE  DebugPhase(machine', call.type, channel = "answered", response, results)
  <2>2. CASE late = <<>>
    <3>1. DebugPhase(machine, call.type, channel = "answered", response, results)
      BY <1>9 DEF AccessInv, PhaseInv
    <3>2. results \in Seq(Statuses) BY DEF AccessInv, AccessType
    <3>3. call.type = "status" /\ channel = "answered" => response \in Statuses
      BY <1>9 DEF AccessInv, AccessType, Answer, Good, Success
    <3> QED BY <1>1, <2>2, <3>1, <3>2, <3>3, DebugTick
  <2>3. CASE late # <<>>
    <3>1. results = <<>> /\ channel # "answered"
      BY <1>9, <2>3 DEF AccessInv, LateInv
    <3> QED BY <3>1 DEF DebugPhase
  <2> QED BY <2>2, <2>3
<1>10. PhaseInv' BY <1>3, <1>8, <1>9 DEF PhaseInv, Good
<1>11. UnheardInv' BY <1>3, <1>8 DEF AccessInv, UnheardInv, Good, Unheard
<1> QED BY <1>4, <1>5, <1>6, <1>7, <1>10, <1>11 DEF AccessInv

(* A frame that answers the script keeps the invariant.                    *)
LEMMA AnsweringFrame ==
  ASSUME AccessInv, connection # None, channel = "posted", call.type = "wait" => WaitOver(Latest, call),
         machine' \in Tick(Handled(Latest, call)[1]), response' = Handled(Latest, call)[2],
         channel' = "answered", late' = <<>>, UNCHANGED <<scriptVars, call, connection>>
  PROVE  AccessInv'
<1> USE DEF scriptVars
<1>0. AccessType BY DEF AccessInv
<1>1. Sound(machine) /\ Settled(machine) /\ Sound(Latest) /\ (late = <<>> => Latest = machine)
  BY <1>0, LatestSound
<1>a. call \in Calls /\ (script = "riscof" => call \in RiscofCalls) /\ (script = "debug" => call \in DebugCalls)
  BY <1>0, CallType
<1>2. Sound(machine') /\ Settled(machine') BY <1>a, <1>1, HandledSound, TickSound
<1>3. Answer(call, response') BY <1>a, <1>1, HandledSound
<1>4. AccessType'
  <2>1. <<>> \in Seq(Calls) OBVIOUS
  <2> QED BY <1>0, <1>2, <1>3, <2>1 DEF AccessType, Sound
<1>5. LateInv' BY DEF LateInv
<1>6. SignatureInv' /\ StepsInv' BY DEF AccessInv, SignatureInv, SignatureIsOwn, Unheard, StepsInv
<1>b. outcome = "" /\ Good BY <1>0 DEF AccessType, Good
<1>7. ASSUME response' # Failure, script = "riscof"
      PROVE  /\ RiscofPhase(machine', call.type, TRUE, Head(tests))
             /\ RiscofAnswer(call.type, response', Head(tests), Unheard)
             /\ call.type = "status" => Unheard = machine'.unheard
             /\ call.type = "dump" => response'.unheard = machine'.unheard
  <2>0. tests \in Seq(Tests) /\ tests # <<>> /\ (call.type = "flash" => call.test = Head(tests))
    BY <1>7, <1>b, <1>0 DEF AccessType
  <2>1. Head(tests) \in Tests /\ (call.type = "flash" => call.test = Head(tests)) BY <2>0, HeadType
  <2>2. RiscofPhase(machine, call.type, FALSE, Head(tests))
    BY <1>7, <1>b DEF AccessInv, PhaseInv
  <2>3. CASE late = <<>>
    <3>1. call.type = "status" => Unheard = machine.unheard
      BY <1>7, <1>b DEF AccessInv, UnheardInv
    <3> DEFINE r == Handled(machine, call)
    <3>a. /\ machine' \in Tick(r[1]) /\ response' = r[2] /\ r[2] # Failure
          /\ call.type = "wait" => WaitOver(machine, call)
      BY <1>1, <1>7, <2>3
    <3>b. /\ RiscofPhase(machine', call.type, TRUE, Head(tests))
          /\ RiscofAnswer(call.type, r[2], Head(tests), machine.unheard)
          /\ call.type = "status" => machine.unheard = machine'.unheard
          /\ call.type = "dump" => r[2].unheard = machine'.unheard
      BY <1>1, <1>a, <1>7, <2>1, <2>2, <3>a, RiscofHandled
    <3> HIDE DEF r
    <3>2. /\ RiscofPhase(machine', call.type, TRUE, Head(tests))
          /\ RiscofAnswer(call.type, response', Head(tests), machine.unheard)
          /\ call.type = "status" => machine.unheard = machine'.unheard
          /\ call.type = "dump" => response'.unheard = machine'.unheard
      BY <3>a, <3>b
    <3> QED BY <3>1, <3>2 DEF RiscofAnswer
  <2>4. CASE late # <<>>
    <3>1. call.type = "stop" BY <1>7, <2>4, FirstTypes DEF AccessInv, LateInv
    <3>2. RiscofPhase(Latest, call.type, FALSE, Head(tests)) BY <3>1 DEF RiscofPhase
    <3>3. RiscofPhase(machine', call.type, TRUE, Head(tests)) BY <1>1, <1>a, <1>7, <2>1, <3>1, <3>2, RiscofHandled
    <3> QED BY <3>1, <3>3 DEF RiscofAnswer
  <2> QED BY <2>3, <2>4
<1>8. ASSUME response' # Failure, script = "debug", ~Odd(results)
      PROVE  /\ DebugPhase(machine', call.type, TRUE, response', results)
             /\ DebugAnswer(call.type, response', results)
  <2>1. results \in Seq(Statuses) BY <1>0 DEF AccessType
  <2>2. results = <<>> => call.type = "status"
    <3>1. results = <<>> => call = StatusCall BY <1>0, <1>8, <1>b DEF AccessType
    <3> QED BY <3>1 DEF StatusCall
  <2>3. DebugPhase(machine, call.type, FALSE, response, results)
    BY <1>8, <1>b DEF AccessInv, PhaseInv
  <2>4. CASE late = <<>>
    BY <1>1, <1>a, <1>8, <2>1, <2>2, <2>3, <2>4, DebugHandled
  <2>5. CASE late # <<>>
    <3>1. results = <<>> BY <2>5 DEF AccessInv, LateInv
    <3>2. DebugPhase(Latest, call.type, FALSE, response, results) BY <3>1 DEF DebugPhase
    <3> QED BY <1>1, <1>a, <1>8, <2>1, <2>2, <3>1, <3>2, DebugHandled
  <2> QED BY <2>4, <2>5
<1>c. Unheard' = Unheard BY DEF Unheard
<1>9. PhaseInv' BY <1>7, <1>8 DEF PhaseInv, Good
<1>10. AnswerInv' BY <1>7, <1>8, <1>c DEF AnswerInv, Good
<1>11. UnheardInv' BY <1>7, <1>c DEF UnheardInv, Good
<1> QED BY <1>4, <1>5, <1>6, <1>9, <1>10, <1>11 DEF AccessInv

(* A frame of the game keeps the invariant.                                *)
LEMMA FrameKeeps == ASSUME AccessInv, GameFrame PROVE AccessInv'
<1> USE DEF scriptVars
<1>1. UNCHANGED <<script, tests, results, signatures, outcome, call, connection>> /\ late' = <<>>
  BY DEF GameFrame, Frame
<1>2. CASE ~(connection # None /\ channel = "posted")
  <2>1. machine' \in Tick(Latest) /\ UNCHANGED <<channel, response>>
    BY <1>2 DEF GameFrame, Frame
  <2> QED BY <1>1, <2>1, QuietFrame DEF AccessInv, LateInv
<1>3. CASE connection # None /\ channel = "posted" /\ call.type = "wait" /\ ~WaitOver(Latest, call)
  <2>1. machine' \in Tick(Handled(Latest, call)[1]) /\ channel' = "sent" /\ response' = response
    BY <1>3 DEF GameFrame, Frame
  <2>2. Handled(Latest, call)[1] = Latest BY <1>3, WaitHandled
  <2> QED BY <1>1, <1>3, <2>1, <2>2, QuietFrame
<1>4. CASE connection # None /\ channel = "posted" /\ ~(call.type = "wait" /\ ~WaitOver(Latest, call))
  <2>1. machine' \in Tick(Handled(Latest, call)[1]) /\ channel' = "answered"
        /\ response' = Handled(Latest, call)[2]
    BY <1>4 DEF GameFrame, Frame
  <2> QED BY <1>1, <1>4, <2>1, AnsweringFrame
<1> QED BY <1>2, <1>3, <1>4
-----------------------------------------------------------------------------
(* So does the server when it posts a body,                                *)
LEMMA PostKeeps == ASSUME AccessInv, Served PROVE AccessInv'
<1> USE DEF AccessInv, Served, Post, scriptVars, serverVars
<1>1. AccessType' BY DEF AccessType
<1>2. LateInv' BY DEF LateInv
<1>3. PhaseInv' /\ UnheardInv' BY DEF PhaseInv, UnheardInv, Good, Unheard
<1>4. AnswerInv' BY DEF AnswerInv, Good
<1>5. SignatureInv' /\ StepsInv' BY DEF SignatureInv, SignatureIsOwn, Unheard, StepsInv
<1> QED BY <1>1, <1>2, <1>3, <1>4, <1>5

(* a closed connection,                                                    *)
LEMMA ClosedKeeps == ASSUME AccessInv, ConnectionClosed PROVE AccessInv'
<1> USE DEF AccessInv, ConnectionClosed, scriptVars, serverVars
<1>1. AccessType' BY DEF AccessType, Answer
<1>2. LateInv' BY DEF LateInv
<1>3. PhaseInv' /\ UnheardInv' BY DEF PhaseInv, UnheardInv
<1>4. AnswerInv' BY DEF AnswerInv, Good
<1>5. SignatureInv' /\ StepsInv' BY DEF SignatureInv, SignatureIsOwn, Unheard, StepsInv
<1> QED BY <1>1, <1>2, <1>3, <1>4, <1>5

(* and a step of the server that concerns neither script nor machine, but  *)
(* may close the connection.                                               *)
LEMMA ServerKeeps ==
  ASSUME AccessInv, UNCHANGED accessVars,
         \/ UNCHANGED <<connection, late>>
         \/ UNCHANGED connection /\ late' = <<>>
         \/ connection' = None /\ late' \in {late, Append(late, call)}
  PROVE  AccessInv'
<1> USE DEF accessVars, scriptVars
<1>0. call \in Calls BY CallType DEF AccessInv
<1>1. late' \in Seq(Calls)
  <2>1. late \in Seq(Calls) BY DEF AccessInv, AccessType
  <2>2. Append(late, call) \in Seq(Calls) /\ <<>> \in Seq(Calls) BY <1>0, <2>1
  <2> QED BY <2>1, <2>2
<1>2. AccessType' BY <1>1 DEF AccessInv, AccessType
<1>3. LateInv' BY DEF AccessInv, LateInv
<1>4. PhaseInv' /\ UnheardInv' BY DEF AccessInv, PhaseInv, UnheardInv, Good, Unheard
<1>5. AnswerInv' BY DEF AccessInv, AnswerInv, Good, Unheard
<1>6. SignatureInv' /\ StepsInv' BY DEF AccessInv, SignatureInv, SignatureIsOwn, Unheard, StepsInv
<1> QED BY <1>2, <1>3, <1>4, <1>5, <1>6 DEF AccessInv

(* An exception ends the script.                                           *)
LEMMA RaiseKeeps == ASSUME AccessInv, Raise, UNCHANGED serverVars PROVE AccessInv'
<1> USE DEF AccessInv, Raise, End, serverVars
<1>1. AccessType' BY DEF AccessType
<1>2. LateInv' BY DEF LateInv
<1>3. PhaseInv' /\ UnheardInv' BY DEF PhaseInv, UnheardInv, Good, Unheard
<1>4. AnswerInv' BY DEF AnswerInv, Good
<1>5. SignatureInv' /\ StepsInv' BY DEF SignatureInv, SignatureIsOwn, Unheard, StepsInv
<1> QED BY <1>1, <1>2, <1>3, <1>4, <1>5

(* The scripts and their tests.                                            *)
LEMMA ScriptsType ==
  ASSUME NEW s \in Scripts
  PROVE  (s[1] = "debug" /\ s[2] = <<>>) \/ (s[1] = "riscof" /\ s[2] \in Seq(Tests))
<1>1. CASE s = <<"debug", <<>>>> BY <1>1
<1>2. CASE \E list \in TestLists : s = <<"riscof", FilterTests(list)>>
  <2>1. PICK list \in TestLists : s = <<"riscof", FilterTests(list)>> BY <1>2
  <2>2. FilterTests(list) \in Seq(Tests) BY TestsAssumption, FilterType
  <2> QED BY <2>1, <2>2
<1> QED BY <1>1, <1>2, Zenon DEF Scripts

(* A new script expects nothing of the machine.                            *)
LEMMA RestartKeeps ==
  ASSUME AccessInv, Restart, UNCHANGED late, connection' = None \/ channel' = "sent"
  PROVE  AccessInv'
<1>1. PICK s \in Scripts :
        /\ script' = s[1] /\ tests' = s[2] /\ call' = FirstCall(s[1])
        /\ channel' = IF NothingToDo(s[1], s[2]) THEN "idle" ELSE "sent"
        /\ outcome' = IF NothingToDo(s[1], s[2]) THEN "done" ELSE ""
  BY Zenon DEF Restart
<1>2. results' = <<>> /\ signatures' = <<>> /\ UNCHANGED <<machine, response>> BY DEF Restart
<1>3. script' \in {"riscof", "debug"} /\ tests' \in Seq(Tests)
  <2>1. <<>> \in Seq(Tests) OBVIOUS
  <2> QED BY <1>1, <2>1, ScriptsType
<1>4. call' \in (IF script' = "riscof" THEN RiscofCalls ELSE DebugCalls) /\ call' = FirstCall(script')
      /\ (script' = "riscof" => call'.type = "stop") /\ (script' = "debug" => call' = StatusCall)
  BY <1>1, <1>3, FirstTypes
<1>5. outcome' = "" => script' = "debug" \/ tests' # <<>> BY <1>1, <1>3 DEF NothingToDo
<1>a. channel' \in {"idle", "sent"} /\ (outcome' # "" <=> channel' = "idle") /\ outcome' # "failed"
  BY <1>1 DEF NothingToDo
<1>6. AccessType'
  <2>1. <<>> \in Seq(Statuses) /\ <<>> \in Seq(Signatures) OBVIOUS
  <2> QED BY <1>2, <1>3, <1>4, <1>5, <1>a, <2>1 DEF AccessInv, AccessType
<1>7. LateInv' BY <1>2, <1>4, <1>a DEF LateInv
<1>8. PhaseInv'
  <2>1. script' = "riscof" => RiscofPhase(machine', call'.type, channel' = "answered", Head(tests'))
    BY <1>4, <1>a DEF RiscofPhase
  <2>2. script' = "debug" => DebugPhase(machine', call'.type, channel' = "answered", response', results')
    BY <1>2, <1>a DEF DebugPhase
  <2> QED BY <2>1, <2>2 DEF PhaseInv
<1>9. AnswerInv' /\ UnheardInv' BY <1>4, <1>a DEF AnswerInv, UnheardInv
<1>10. SignatureInv'
  <2>1. DOMAIN signatures' = {} BY <1>2
  <2> QED BY <2>1, <1>a DEF SignatureInv, SignatureIsOwn
<1>11. StepsInv' BY <1>2 DEF StepsInv
<1> QED BY <1>6, <1>7, <1>8, <1>9, <1>10, <1>11 DEF AccessInv

(* Nor does one that is refused.                                           *)
LEMMA RefusedKeeps ==
  ASSUME AccessInv, Refused, connection' = None, UNCHANGED late, machine' \in Machines \union {machine}
  PROVE  AccessInv'
<1> USE DEF Refused
<1>0. <<>> \in Seq(Statuses) /\ <<>> \in Seq(Signatures) /\ <<>> \in Seq(Tests) OBVIOUS
<1>1. machine' \in MachineStates /\ Consistent(machine') /\ Settled(machine')
  BY MachinesAssumption DEF AccessInv, AccessType
<1>2. AccessType' BY <1>0, <1>1 DEF AccessInv, AccessType, DebugCalls
<1>3. LateInv' /\ PhaseInv' /\ UnheardInv' BY DEF LateInv, PhaseInv, UnheardInv
<1>4. AnswerInv' BY DEF AnswerInv
<1>5. SignatureInv'
  <2>1. DOMAIN signatures' = {} OBVIOUS
  <2> QED BY <2>1 DEF SignatureInv, SignatureIsOwn
<1>6. StepsInv' BY DEF StepsInv
<1> QED BY <1>2, <1>3, <1>4, <1>5, <1>6 DEF AccessInv

(* A script connects, is refused or turned away.                           *)
LEMMA ConnectKeeps == ASSUME AccessInv, Connect \/ TurnAway PROVE AccessInv'
<1>1. CASE Restart /\ UNCHANGED late /\ \E t \in Threads : connection' = IF channel' = "sent" THEN t ELSE None
  BY <1>1, RestartKeeps
<1>2. CASE Refused /\ connection' = None /\ UNCHANGED <<machine, late>>
  BY <1>2, RefusedKeeps
<1>3. CASE TurnAway
  BY <1>3, RefusedKeeps DEF TurnAway
<1> QED BY <1>1, <1>2, <1>3 DEF Connect
-----------------------------------------------------------------------------
(* What run_test calls next, and what it may rely on then.                 *)
LEMMA NextCall ==
  ASSUME NEW t \in Tests, NEW m, call \in RiscofCalls, call.type # "status"
  PROVE  /\ AfterCall(t) \in RiscofCalls
         /\ AfterCall(t).type = "flash" => AfterCall(t).test = t
         /\ AfterCall(t).type = "status" <=> call.type = "dump"
         /\ RiscofPhase(m, call.type, TRUE, t) => RiscofPhase(m, AfterCall(t).type, FALSE, t)
<1> USE DEF RiscofPhase
<1>1. CASE call.type = "stop"
  <2>1. AfterCall(t) = FlashCall(t) BY <1>1 DEF AfterCall
  <2>2. FlashCall(t).type = "flash" /\ FlashCall(t).test = t BY DEF FlashCall
  <2>3. FlashCall(t) \in RiscofCalls BY DEF RiscofCalls
  <2> QED BY <1>1, <2>1, <2>2, <2>3
<1>2. CASE call.type = "flash"
  <2>1. AfterCall(t) = StartCall(FALSE) BY <1>2 DEF AfterCall
  <2>2. StartCall(FALSE).type = "start" BY DEF StartCall
  <2>3. StartCall(FALSE) \in RiscofCalls BY DEF RiscofCalls
  <2> QED BY <1>2, <2>1, <2>2, <2>3
<1>3. CASE call.type = "start"
  <2>1. AfterCall(t) = WaitCall(TRUE, FALSE) BY <1>3 DEF AfterCall
  <2>2. WaitCall(TRUE, FALSE).type = "wait" BY DEF WaitCall
  <2>3. WaitCall(TRUE, FALSE) \in RiscofCalls BY DEF RiscofCalls
  <2> QED BY <1>3, <2>1, <2>2, <2>3
<1>4. CASE call.type = "wait"
  <2>1. AfterCall(t) = DumpCall(t) BY <1>4 DEF AfterCall
  <2>2. DumpCall(t).type = "dump" BY DEF DumpCall
  <2>3. DumpCall(t) \in RiscofCalls BY DEF RiscofCalls
  <2> QED BY <1>4, <2>1, <2>2, <2>3
<1>5. CASE call.type = "dump"
  <2>1. AfterCall(t) = StatusCall BY <1>5 DEF AfterCall
  <2>2. StatusCall.type = "status" BY DEF StatusCall
  <2>3. StatusCall \in RiscofCalls BY DEF RiscofCalls
  <2> QED BY <1>5, <2>1, <2>2, <2>3
<1> QED BY <1>1, <1>2, <1>3, <1>4, <1>5, RiscofKinds

(* Appending to a list of records.                                         *)
LEMMA AppendFacts ==
  ASSUME NEW S, NEW s \in Seq(S), NEW e \in S
  PROVE  /\ Append(s, e) \in Seq(S) /\ Len(Append(s, e)) = Len(s) + 1 /\ Append(s, e) # <<>>
         /\ Append(s, e)[Len(s) + 1] = e
         /\ \A k \in 1..Len(s) : Append(s, e)[k] = s[k]
         /\ Append(s, e)[1] = IF s = <<>> THEN e ELSE s[1]
<1>1. Append(s, e) \in Seq(S) /\ Len(Append(s, e)) = Len(s) + 1 OBVIOUS
<1>2. Append(s, e)[Len(s) + 1] = e /\ \A k \in 1..Len(s) : Append(s, e)[k] = s[k] OBVIOUS
<1>3. Append(s, e) # <<>>
  <2>1. Len(s) + 1 # 0 OBVIOUS
  <2> QED BY <1>1, <2>1
<1>4. CASE s = <<>>
  <2>1. Len(s) = 0 BY <1>4
  <2> QED BY <1>1, <1>2, <1>3, <1>4, <2>1
<1>5. CASE s # <<>>
  <2>1. 1 \in 1..Len(s) BY <1>5
  <2> QED BY <1>1, <1>2, <1>3, <1>5, <2>1
<1> QED BY <1>4, <1>5

(* A step of run_test keeps the invariant.                                 *)
LEMMA RunTestKeeps == ASSUME AccessInv, RunTest, UNCHANGED serverVars PROVE AccessInv'
<1>0. AccessType BY DEF AccessInv
<1> DEFINE t == Head(tests)
<1>1. /\ script = "riscof" /\ channel = "answered" /\ response # Failure /\ outcome = "" /\ Good
      /\ tests \in Seq(Tests) /\ tests # <<>> /\ call \in RiscofCalls
  <2>1. script = "riscof" /\ channel = "answered" /\ response.type # "error" BY DEF RunTest
  <2>2. response # Failure BY <2>1 DEF Failure
  <2> QED BY <1>0, <2>1, <2>2 DEF AccessType, Good
<1>2. t \in Tests /\ Tail(tests) \in Seq(Tests) BY <1>1, HeadType
<1>3. connection # None => RiscofPhase(machine, call.type, TRUE, t) BY <1>1 DEF AccessInv, PhaseInv
<1>4. RiscofAnswer(call.type, response, t, Unheard) BY <1>1 DEF AccessInv, AnswerInv
<1>5. connection # None => late = <<>> BY <1>1 DEF AccessInv, LateInv
<1>6. UNCHANGED <<machine, script, results, connection, late>> BY DEF RunTest, serverVars
<1>7. LateInv' BY <1>5, <1>6 DEF LateInv
<1>8. StepsInv' BY <1>6 DEF AccessInv, StepsInv
<1>a. signatures \in Seq(Signatures) BY <1>0 DEF AccessType
<1>b. SignatureIsOwn BY DEF AccessInv, SignatureInv
<1>9. CASE /\ call.type # "status" /\ SendCall(AfterCall(t))
           /\ signatures' = (IF call.type # "dump" THEN signatures
                             ELSE Append(signatures, <<t, response.run, response.unheard>>))
           /\ UNCHANGED <<tests, outcome>>
  <2>1. call' = AfterCall(t) /\ channel' = "sent" /\ response' = response BY <1>9 DEF SendCall
  <2>2. /\ call' \in RiscofCalls
        /\ call'.type = "flash" => call'.test = t
        /\ call'.type = "status" <=> call.type = "dump"
        /\ connection # None => RiscofPhase(machine, call'.type, FALSE, t)
    BY <1>1, <1>2, <1>3, <1>9, <2>1, NextCall
  <2> DEFINE e == <<t, response.run, response.unheard>>
  <2>4. call.type = "dump" => response \in Dumps BY <1>0, <1>1 DEF AccessType, Answer
  <2>5. call.type = "dump" => e \in Signatures BY <1>2, <2>4 DEF Dumps, Signatures
  <2>6. signatures' \in Seq(Signatures)
    <3> HIDE DEF e
    <3>1. signatures' = (IF call.type # "dump" THEN signatures ELSE Append(signatures, e)) BY <1>9 DEF e
    <3> QED BY <1>a, <2>5, <3>1
  <2>7. AccessType'
    <3>1. UNCHANGED <<machine, script, results, late, tests, outcome>> BY <1>6, <1>9
    <3> QED BY <1>0, <1>1, <2>1, <2>2, <2>6, <3>1 DEF AccessType
  <2>8. PhaseInv'
    <3>1. (channel' = "answered") = FALSE BY <2>1
    <3> QED BY <1>1, <1>6, <1>9, <2>2, <3>1 DEF PhaseInv
  <2>9. AnswerInv' BY <2>1 DEF AnswerInv
  <2>10. \A n \in DOMAIN signatures : ~(Fails[signatures[n][1]] /\ ~signatures[n][3])
    BY <1>1, <1>9 DEF AccessInv, SignatureInv
  <2>12. CASE call.type # "dump"
    <3>1. signatures' = signatures BY <1>9, <2>12
    <3>2. UnheardInv' BY <2>1, <2>2, <2>12 DEF UnheardInv
    <3> QED BY <1>1, <1>6, <1>7, <1>8, <1>9, <1>b, <2>7, <2>8, <2>9, <2>10, <3>1, <3>2
        DEF AccessInv, SignatureInv, SignatureIsOwn, Unheard
  <2>13. CASE call.type = "dump"
    <3>1. signatures' = Append(signatures, e) /\ e \in Signatures BY <1>9, <2>5, <2>13
    <3>2. ~e[3] => e[2] = Full(e[1]) BY <1>4, <2>13 DEF RiscofAnswer
    <3>3. e[1] = t /\ e[3] = response.unheard OBVIOUS
    <3> HIDE DEF e
    <3>4. /\ Len(signatures') = Len(signatures) + 1 /\ signatures' # <<>>
          /\ signatures'[Len(signatures) + 1] = e /\ DOMAIN signatures' = 1..(Len(signatures) + 1)
          /\ \A n \in 1..Len(signatures) : signatures'[n] = signatures[n]
      <4>1. Append(signatures, e) # <<>> /\ Len(Append(signatures, e)) = Len(signatures) + 1
            /\ Append(signatures, e)[Len(signatures) + 1] = e
            /\ \A n \in 1..Len(signatures) : Append(signatures, e)[n] = signatures[n]
        BY <1>a, <3>1, AppendFacts
      <4> QED BY <1>a, <3>1, <4>1
    <3>5. ASSUME NEW n \in DOMAIN signatures'
          PROVE  \/ n \in DOMAIN signatures /\ signatures'[n] = signatures[n]
                 \/ n = Len(signatures') /\ signatures'[n] = e
      BY <1>a, <3>4
    <3>6. SignatureIsOwn'
      <4> SUFFICES ASSUME NEW n \in DOMAIN signatures'
                   PROVE  signatures'[n][2] = Full(signatures'[n][1]) \/ signatures'[n][3]
        BY DEF SignatureIsOwn
      <4> QED BY <1>b, <3>2, <3>5 DEF SignatureIsOwn
    <3>7. ASSUME NEW n \in DOMAIN signatures', Fails[signatures'[n][1]], ~signatures'[n][3]
          PROVE  signatures'[n][1] = t /\ n = Len(signatures')
      BY <2>10, <3>3, <3>5, <3>7
    <3>8. SignatureInv'
      <4>1. outcome' = "" /\ tests' = tests /\ tests # <<>> /\ call'.type = "status"
        BY <1>1, <1>9, <2>2, <2>13
      <4> QED BY <3>6, <3>7, <4>1 DEF SignatureInv
    <3>9. UnheardInv'
      <4>0. e[3] \in BOOLEAN BY <3>1 DEF Signatures
      <4>1. Unheard' = e[3] BY <3>4, <4>0 DEF Unheard
      <4>2. connection # None => response.unheard = machine.unheard
        BY <1>1, <2>13 DEF AccessInv, UnheardInv
      <4> QED BY <1>6, <2>1, <3>3, <4>1, <4>2 DEF UnheardInv
    <3> QED BY <1>7, <1>8, <2>7, <2>8, <2>9, <3>8, <3>9 DEF AccessInv
  <2> QED BY <2>12, <2>13
<1>10. CASE call.type = "status" /\ response.error /\ End("failed") /\ UNCHANGED <<tests, signatures>>
  <2>1. outcome' = "failed" /\ channel' = "idle" /\ UNCHANGED <<call, response>> BY <1>10 DEF End
  <2>2. Fails[t] \/ Unheard BY <1>4, <1>10 DEF RiscofAnswer
  <2>3. AccessType' BY <1>0, <1>6, <1>10, <2>1 DEF AccessType
  <2>4. PhaseInv' /\ AnswerInv' /\ UnheardInv' BY <2>1 DEF PhaseInv, AnswerInv, UnheardInv, Good
  <2>5. SignatureInv' BY <1>6, <1>10, <2>1, <2>2 DEF AccessInv, SignatureInv, SignatureIsOwn, Unheard
  <2> QED BY <1>7, <1>8, <2>3, <2>4, <2>5 DEF AccessInv
<1>11. CASE /\ call.type = "status" /\ ~response.error /\ tests' = Tail(tests) /\ UNCHANGED signatures
            /\ IF tests' = <<>> THEN End("done") ELSE SendCall(StopCall) /\ UNCHANGED outcome
  <2>1. ~Fails[t] \/ Unheard BY <1>4, <1>11 DEF RiscofAnswer
  <2>2. \A n \in DOMAIN signatures : ~(Fails[signatures[n][1]] /\ ~signatures[n][3])
    <3> SUFFICES ASSUME NEW n \in DOMAIN signatures, Fails[signatures[n][1]], ~signatures[n][3] PROVE FALSE
      OBVIOUS
    <3>1. t = signatures[n][1] /\ n = Len(signatures) BY <1>1 DEF AccessInv, SignatureInv
    <3> QED BY <2>1, <3>1 DEF Unheard
  <2>3. outcome' # "failed" BY <1>1, <1>11 DEF End
  <2>4. SignatureInv' BY <1>11, <2>2, <2>3 DEF AccessInv, SignatureInv, SignatureIsOwn
  <2>5. CASE tests' = <<>>
    <3>1. outcome' = "done" /\ channel' = "idle" /\ UNCHANGED <<call, response>> BY <1>11, <2>5 DEF End
    <3>2. AccessType' BY <1>0, <1>2, <1>6, <1>11, <3>1 DEF AccessType
    <3>3. PhaseInv' /\ AnswerInv' /\ UnheardInv' BY <3>1 DEF PhaseInv, AnswerInv, UnheardInv, Good
    <3> QED BY <1>7, <1>8, <2>4, <3>2, <3>3 DEF AccessInv
  <2>6. CASE tests' # <<>>
    <3>1. call' = StopCall /\ channel' = "sent" /\ response' = response /\ outcome' = ""
      BY <1>1, <1>11, <2>6 DEF SendCall
    <3>2. StopCall \in RiscofCalls /\ StopCall.type = "stop" BY DEF RiscofCalls, StopCall
    <3>3. AccessType' BY <1>0, <1>1, <1>2, <1>6, <1>11, <2>6, <3>1, <3>2 DEF AccessType
    <3>4. RiscofPhase(machine', call'.type, channel' = "answered", Head(tests'))
      BY <3>1, <3>2 DEF RiscofPhase
    <3>5. PhaseInv' /\ AnswerInv' /\ UnheardInv'
      BY <1>1, <1>6, <3>1, <3>2, <3>4 DEF PhaseInv, AnswerInv, UnheardInv
    <3> QED BY <1>7, <1>8, <2>4, <3>3, <3>5 DEF AccessInv
  <2> QED BY <2>5, <2>6
<1> QED BY <1>9, <1>10, <1>11 DEF RunTest
-----------------------------------------------------------------------------
(* A step of debug keeps the invariant.                                    *)
LEMMA DebugKeeps == ASSUME AccessInv, Debug, UNCHANGED serverVars PROVE AccessInv'
<1>0. AccessType BY DEF AccessInv
<1>1. /\ script = "debug" /\ channel = "answered" /\ response # Failure /\ outcome = "" /\ Good
      /\ results \in Seq(Statuses) /\ call \in DebugCalls /\ Answer(call, response)
  <2>1. script = "debug" /\ channel = "answered" /\ response.type # "error" BY DEF Debug
  <2>2. response # Failure BY <2>1 DEF Failure
  <2> QED BY <1>0, <2>1, <2>2 DEF AccessType, Good
<1>2. connection # None /\ ~Odd(results) => DebugPhase(machine, call.type, TRUE, response, results)
  BY <1>1 DEF AccessInv, PhaseInv
<1>3. ~Odd(results) => DebugAnswer(call.type, response, results) BY <1>1 DEF AccessInv, AnswerInv
<1>4. connection # None => late = <<>> BY <1>1 DEF AccessInv, LateInv
<1>5. UNCHANGED <<machine, script, tests, signatures, connection, late>> BY DEF Debug, serverVars
<1>6. LateInv' BY <1>4, <1>5 DEF LateInv
<1>7. SignatureInv' /\ UnheardInv' BY <1>1, <1>5 DEF AccessInv, SignatureInv, SignatureIsOwn, UnheardInv
<1>8. ASSUME NEW c \in DebugCalls, SendCall(c), outcome' = "", results' = results,
             results = <<>> => c = StatusCall,
             connection # None /\ ~Odd(results) => DebugPhase(machine, c.type, FALSE, response, results)
      PROVE  AccessInv'
  <2>1. call' = c /\ channel' = "sent" /\ response' = response BY <1>8 DEF SendCall
  <2>2. AccessType' BY <1>0, <1>1, <1>5, <1>8, <2>1 DEF AccessType
  <2>3. (channel' = "answered") = FALSE BY <2>1
  <2>4. PhaseInv' BY <1>1, <1>5, <1>8, <2>1, <2>3 DEF PhaseInv
  <2>5. AnswerInv' BY <2>1 DEF AnswerInv
  <2>6. StepsInv' BY <1>8 DEF AccessInv, StepsInv
  <2> QED BY <1>6, <1>7, <2>2, <2>4, <2>5, <2>6 DEF AccessInv
<1>9. CASE call.type \in {"unpause", "start"} /\ SendCall(WaitCall(TRUE, TRUE)) /\ UNCHANGED <<results, outcome>>
  <2>1. WaitCall(TRUE, TRUE) \in DebugCalls /\ WaitCall(TRUE, TRUE).type = "wait"
    BY DEF DebugCalls, WaitCall
  <2>2. results # <<>>
    <3>1. results = <<>> => call = StatusCall BY <1>0, <1>1 DEF AccessType
    <3> QED BY <1>9, <3>1 DEF StatusCall
  <2>3. connection # None /\ ~Odd(results) => DebugPhase(machine, "wait", FALSE, response, results)
    <3>1. CASE call.type = "unpause" BY <1>2, <2>2, <3>1 DEF DebugPhase
    <3>2. CASE call.type = "start"
      <4>1. connection # None /\ ~Odd(results) => PauseIsStop(machine) /\ Len(results) = 1
        BY <1>2, <2>2, <3>2 DEF DebugPhase
      <4>2. Len(results) = 1 => Stepped(machine, results) BY DEF Stepped
      <4> QED BY <2>2, <4>1, <4>2 DEF DebugPhase
    <3> QED BY <1>9, <3>1, <3>2
  <2> QED BY <1>1, <1>8, <1>9, <2>1, <2>2, <2>3
<1>10. CASE call.type = "wait" /\ SendCall(StatusCall) /\ UNCHANGED <<results, outcome>>
  <2>1. StatusCall \in DebugCalls /\ StatusCall.type = "status" BY DEF DebugCalls, StatusCall
  <2>2. connection # None /\ ~Odd(results) => DebugPhase(machine, "status", FALSE, response, results)
    BY <1>2, <1>10 DEF DebugPhase
  <2> QED BY <1>1, <1>8, <1>10, <2>1, <2>2
<1>11. CASE /\ call.type = "status" /\ results' = Append(results, response)
            /\ IF results # <<>> /\ ~response.running
               THEN End("done")
               ELSE SendCall(IF response.running THEN UnpauseCall ELSE StartCall(TRUE)) /\ UNCHANGED outcome
  <2>1. response \in Statuses BY <1>1, <1>11 DEF Answer
  <2>2. /\ results' \in Seq(Statuses) /\ Len(results') = Len(results) + 1 /\ results' # <<>>
        /\ results'[Len(results) + 1] = response
        /\ \A k \in 1..Len(results) : results'[k] = results[k]
        /\ results'[1] = IF results = <<>> THEN response ELSE results[1]
    <3> DEFINE a == Append(results, response)
    <3>1. /\ a \in Seq(Statuses) /\ Len(a) = Len(results) + 1 /\ a # <<>>
          /\ a[Len(results) + 1] = response
          /\ \A k \in 1..Len(results) : a[k] = results[k]
          /\ a[1] = IF results = <<>> THEN response ELSE results[1]
      <4>1. results \in Seq(Statuses) BY <1>1
      <4> DEFINE S == Statuses
                 q == results
                 e == response
      <4>2. q \in Seq(S) /\ e \in S BY <4>1, <2>1
      <4>3. a = Append(q, e) OBVIOUS
      <4> HIDE DEF S, q, e, a
      <4>4. /\ Append(q, e) \in Seq(S) /\ Len(Append(q, e)) = Len(q) + 1 /\ Append(q, e) # <<>>
            /\ Append(q, e)[Len(q) + 1] = e
            /\ \A k \in 1..Len(q) : Append(q, e)[k] = q[k]
            /\ Append(q, e)[1] = IF q = <<>> THEN e ELSE q[1]
        BY <4>2, AppendFacts
      <4> QED BY <4>3, <4>4 DEF S, q, e
    <3>2. results' = a BY <1>11
    <3> HIDE DEF a
    <3> QED BY <3>1, <3>2
  <2>a. Len(results) \in Nat /\ (results # <<>> => Len(results) > 0)
    <3>1. results \in Seq(Statuses) BY <1>1
    <3> QED BY <3>1
  <2>3. LastStep(results') = response.steps BY <2>2 DEF LastStep
  <2>4. results # <<>> => (Odd(results') <=> Odd(results)) BY <2>2 DEF Odd
  <2>5. StepsInv'
    <3> SUFFICES ASSUME ~Odd(results'), NEW n \in 2..(Len(results') - 1),
                        results'[n].running, results'[n].paused,
                        results'[n + 1].running, results'[n + 1].paused
                 PROVE  results'[n + 1].steps = results'[n].steps + 1
      BY DEF StepsInv
    <3>1. Len(results) \in Nat /\ n \in 1..Len(results) /\ results # <<>>
      <4>1. Len(results') = Len(results) + 1 BY <2>2
      <4>2. n \in 2..Len(results) BY <2>a, <4>1
      <4> QED BY <2>a, <4>2
    <3>2. ~Odd(results) BY <2>4, <3>1
    <3>3. CASE n = Len(results)
      <4>1. Len(results) > 1 /\ results'[n] = results[Len(results)] /\ results'[n + 1] = response
        BY <2>2, <3>1, <3>3
      <4>2. response.steps = LastStep(results) + 1
        BY <1>3, <1>11, <3>1, <3>2, <4>1 DEF DebugAnswer
      <4> QED BY <4>1, <4>2 DEF LastStep
    <3>4. CASE n # Len(results)
      <4>1. n \in 2..(Len(results) - 1) /\ n + 1 \in 1..Len(results) BY <3>1, <3>4
      <4>2. results'[n] = results[n] /\ results'[n + 1] = results[n + 1] BY <2>2, <3>1, <4>1
      <4> QED BY <3>2, <4>1, <4>2 DEF AccessInv, StepsInv
    <3> QED BY <3>3, <3>4
  <2>6. CASE results # <<>> /\ ~response.running
    <3>1. outcome' = "done" /\ channel' = "idle" /\ UNCHANGED <<call, response>> BY <1>11, <2>6 DEF End
    <3>2. AccessType' BY <1>0, <1>1, <1>5, <2>2, <3>1 DEF AccessType
    <3>3. PhaseInv' /\ AnswerInv' BY <3>1 DEF PhaseInv, AnswerInv, Good
    <3> QED BY <1>6, <1>7, <2>5, <3>2, <3>3 DEF AccessInv
  <2>7. CASE ~(results # <<>> /\ ~response.running)
    <3> DEFINE c == IF response.running THEN UnpauseCall ELSE StartCall(TRUE)
    <3>1. call' = c /\ channel' = "sent" /\ response' = response /\ outcome' = ""
      BY <1>1, <1>11, <2>7 DEF SendCall
    <3>2. c \in DebugCalls /\ c.type = IF response.running THEN "unpause" ELSE "start"
      BY DEF DebugCalls, UnpauseCall, StartCall
    <3> HIDE DEF c
    <3>3. AccessType' BY <1>0, <1>1, <1>5, <2>2, <3>1, <3>2 DEF AccessType
    <3>4. ASSUME connection # None, ~Odd(results')
          PROVE  DebugPhase(machine, c.type, FALSE, response, results')
      <4>1. CASE results = <<>>
        <5>1. Len(results') = 1 /\ results'[1] = response BY <2>2, <4>1
        <5>2. ~response.paused => PauseIsStop(machine)
          BY <1>2, <3>4, <4>1 DEF DebugPhase, Odd
        <5>3. ~response.running => ~response.paused BY <2>2, <3>4, <5>1 DEF Odd
        <5>4. CASE response.running
          <6>0. ~(Len(results') > 1) BY <5>1
          <6>1. c.type = "unpause" /\ ~(Len(results') > 1) /\ results' # <<>> BY <2>2, <3>2, <5>4, <6>0
          <6> QED BY <5>1, <5>2, <6>1 DEF DebugPhase
        <5>5. CASE ~response.running
          <6>1. c.type = "start" /\ results' # <<>> BY <2>2, <3>2, <5>5
          <6> QED BY <5>1, <5>2, <5>3, <5>5, <6>1 DEF DebugPhase
        <5> QED BY <5>4, <5>5
      <4>2. CASE results # <<>>
        <5>1. response.running BY <2>7, <4>2
        <5>2. Held(machine, response.steps) BY <1>2, <1>11, <2>4, <3>4, <4>2, <5>1 DEF DebugPhase
        <5>3. Len(results') > 1
          <6>1. Len(results') = Len(results) + 1 BY <2>2
          <6> QED BY <2>a, <4>2, <6>1
        <5> QED BY <2>2, <2>3, <3>2, <5>1, <5>2, <5>3 DEF DebugPhase
      <4> QED BY <4>1, <4>2
    <3>5. (channel' = "answered") = FALSE BY <3>1
    <3>6. PhaseInv' BY <1>1, <1>5, <3>1, <3>4, <3>5 DEF PhaseInv
    <3>7. AnswerInv' BY <3>1 DEF AnswerInv
    <3> QED BY <1>6, <1>7, <2>5, <3>3, <3>6, <3>7 DEF AccessInv
  <2> QED BY <2>6, <2>7
<1> QED BY <1>9, <1>10, <1>11 DEF Debug

-----------------------------------------------------------------------------
(* Every step keeps the invariant.                                         *)
LEMMA AccessNext == ASSUME AccessInv, [Next]_vars PROVE AccessInv'
<1>1. CASE GameFrame BY <1>1, FrameKeeps
<1>2. CASE Served BY <1>2, PostKeeps
<1>3. CASE ConnectionClosed BY <1>3, ClosedKeeps
<1>4. CASE RunScript BY <1>4, RunTestKeeps, DebugKeeps, RaiseKeeps DEF RunScript, Script
<1>5. CASE Connect \/ TurnAway BY <1>5, ConnectKeeps
<1>6. ASSUME NEW t \in Threads, ServerThread(t), UNCHANGED accessVars PROVE AccessInv'
  <2>1. CASE EndJob(t) BY <1>6, <2>1, ServerKeeps DEF EndJob
  <2>2. CASE ~EndJob(t)
    <3>1. UNCHANGED <<connection, late>> BY <1>6, <2>2 DEF ServerThread, Launch, Bind, BindFails, Cleanup
    <3> QED BY <1>6, <3>1, ServerKeeps
  <2> QED BY <2>1, <2>2
<1>7. CASE (User \/ Join \/ AssignThread) /\ UNCHANGED accessVars
  <2>1. UNCHANGED <<connection, late>>
    BY <1>7 DEF User, Button, stopServer, startServer, Join, AssignThread, CancelAndJoin, NewThread
  <2> QED BY <1>7, <2>1, ServerKeeps
<1>8. CASE UNCHANGED vars
  <2>1. UNCHANGED <<accessVars, connection, late>> BY <1>8 DEF vars, serverVars
  <2> QED BY <2>1, ServerKeeps
<1> QED BY <1>1, <1>2, <1>3, <1>4, <1>5, <1>6, <1>7, <1>8 DEF Next, MainThread, User

(* It holds at the start.                                                  *)
LEMMA AccessStart == ASSUME Init PROVE AccessInv
<1>1. PICK s \in Scripts : script = s[1] /\ tests = s[2] BY DEF Init, AccessInit
<1>2. /\ machine \in Machines /\ results = <<>> /\ signatures = <<>> /\ call = FirstCall(script)
      /\ channel = (IF NothingToDo(script, tests) THEN "idle" ELSE "sent")
      /\ outcome = (IF NothingToDo(script, tests) THEN "done" ELSE "") /\ late = <<>>
  BY DEF Init, AccessInit
<1>3. script \in {"riscof", "debug"} /\ tests \in Seq(Tests)
  <2>1. <<>> \in Seq(Tests) OBVIOUS
  <2> QED BY <1>1, <2>1, ScriptsType
<1>4. call \in (IF script = "riscof" THEN RiscofCalls ELSE DebugCalls)
      /\ (script = "riscof" => call.type = "stop") /\ (script = "debug" => call = StatusCall)
  BY <1>2, <1>3, FirstTypes
<1>5. outcome = "" => script = "debug" \/ tests # <<>> BY <1>2, <1>3 DEF NothingToDo
<1>6. channel \in {"idle", "sent"} /\ (outcome # "" <=> channel = "idle") /\ outcome # "failed"
  BY <1>2 DEF NothingToDo
<1>7. AccessType
  <2>1. <<>> \in Seq(Statuses) /\ <<>> \in Seq(Signatures) /\ <<>> \in Seq(Calls) OBVIOUS
  <2> QED BY <1>2, <1>3, <1>4, <1>5, <1>6, <2>1, MachinesAssumption DEF AccessType
<1>8. LateInv BY <1>2 DEF LateInv
<1>9. PhaseInv
  <2>1. script = "riscof" => RiscofPhase(machine, call.type, channel = "answered", Head(tests))
    BY <1>4, <1>6 DEF RiscofPhase
  <2>2. script = "debug" => DebugPhase(machine, call.type, channel = "answered", response, results)
    BY <1>2, <1>6 DEF DebugPhase
  <2> QED BY <2>1, <2>2 DEF PhaseInv
<1>10. AnswerInv /\ UnheardInv BY <1>4, <1>6 DEF AnswerInv, UnheardInv
<1>11. SignatureInv
  <2>1. signatures = <<>> BY <1>2
  <2>2. DOMAIN signatures = {} BY <2>1
  <2> QED BY <2>2, <1>6 DEF SignatureInv, SignatureIsOwn
<1>12. StepsInv
  <2>1. results = <<>> BY <1>2
  <2>2. Len(results) = 0 BY <2>1
  <2> QED BY <2>2 DEF StepsInv
<1> QED BY <1>7, <1>8, <1>9, <1>10, <1>11, <1>12 DEF AccessInv

(* The invariant of scripts, server and machine: in every phase of a       *)
(* script the machine is in the state that the phase promises, though      *)
(* users stop and start the server, connections close with a body still    *)
(* posted, scripts are killed and leave the machine anywhere, and the hart *)
(* traps and stops at any address.  Only after a stop that went unheard    *)
(* nothing is promised.                                                    *)
THEOREM AccessInvariant == Spec => []AccessInv
<1>1. Init => AccessInv BY AccessStart
<1>2. AccessInv /\ [Next]_vars => AccessInv' BY AccessNext
<1> QED BY <1>1, <1>2, PTL DEF Spec

(* The signature recorded for a test is the complete run of that test,     *)
(* from the reset, on its own program, unless its stop went unheard.       *)
THEOREM SignaturesAreOwn == Spec => []SignatureIsOwn
<1>1. AccessInv => SignatureIsOwn BY DEF AccessInv, SignatureInv
<1> QED BY <1>1, AccessInvariant, PTL

(* A test is blamed exactly for the error that it printed itself.          *)
THEOREM ErrorsAreOwn == Spec => []ErrorIsOwn
<1>1. AccessInv => ErrorIsOwn BY DEF AccessInv, SignatureInv, ErrorIsOwn
<1> QED BY <1>1, AccessInvariant, PTL

(* debug records every instruction fetched and every trap taken between    *)
(* two of its statuses: one.                                               *)
THEOREM EveryStepIsRecorded == Spec => []EveryStepRecorded
<1>1. AccessInv => EveryStepRecorded BY DEF AccessInv, StepsInv, Odd, EveryStepRecorded
<1> QED BY <1>1, AccessInvariant, PTL
===============================================================================
