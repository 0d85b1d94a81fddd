--------------------------------- MODULE Server ---------------------------------
(***************************************************************************)
(* The socket server of the plugin: how it is started and stopped while    *)
(* scripts use it.  It is a thread with an event loop of its own; starting *)
(* and stopping happen on the main thread of the game, which also runs the *)
(* bodies of the requests and stands still while it joins the old thread.  *)
(*                                                                         *)
(* The fields serverThread, serverJob and serverBuildId are shared by all  *)
(* threads without a lock.  Every write of one is a step of its own, and   *)
(* so are the reads before and after a thread is joined.  The reads of     *)
(* stopServer are one step with the cancellation: what a server thread     *)
(* could do between them is to launch its job, which the step after it or  *)
(* before it allows as well, or to clear fields at its end, when the join  *)
(* returns at once.                                                        *)
(***************************************************************************)
EXTENDS Access

CONSTANTS MaxThreads,    \* bound: server threads that are ever started
          MaxScripts,    \* bound: scripts that are ever started
          MaxEvents      \* bound: times that users start or stop the server

ASSUME ServerAssumption ==
  MaxThreads \in Nat \ {0} /\ MaxScripts \in Nat /\ MaxEvents \in Nat

Threads == 1..MaxThreads
None == 0

VARIABLES thread,        \* where each server thread is
          serverThread, serverJob,
          serverBuildId, \* is it the computer's?
          cancelled,     \* threads whose job was cancelled
          main,          \* "free", "stopping", "restarting", "starting"
          joined,        \* the thread that the main thread waits for or starts
          connection,    \* the thread that the script is connected to
          late,          \* posted bodies whose coroutine was cancelled
          scripts,       \* scripts started so far
          events         \* and what users have done to the server

fields == <<serverThread, serverJob, serverBuildId>>
serverVars == <<thread, fields, cancelled, main, joined, connection, late>>
bounds == <<scripts, events>>
vars == <<accessVars, serverVars, bounds>>

(* A server is running, or is being started while no script is there yet.  *)
Init ==
  /\ AccessInit
  /\ \E s \in {"started", "binding", "serving"} :
       /\ thread = [t \in Threads |-> IF t = 1 THEN s ELSE "none"]
       /\ s # "serving" => channel = "idle"
       /\ serverJob = IF s = "started" THEN None ELSE 1
  /\ serverThread = 1
  /\ connection = IF channel = "sent" THEN 1 ELSE None
  /\ serverBuildId = TRUE
  /\ cancelled = {} /\ main = "free" /\ joined = None /\ late = <<>>
  /\ scripts = 1 /\ events = 0

-----------------------------------------------------------------------------
(* The main thread: startServer, stopServer and the button that calls one  *)
(* of them.  Events are handled once per frame, after what was posted.     *)
Event == main = "free" /\ late = <<>>

isServerRunning == serverThread # None /\ serverJob # None /\ serverBuildId

(* The job, if there is one, is cancelled, and the thread joined.          *)
CancelAndJoin(next) ==
  /\ serverThread # None
  /\ cancelled' = cancelled \union ({serverJob} \ {None})
  /\ joined' = serverThread /\ main' = next
  /\ UNCHANGED <<thread, fields, connection, late>>

NewThread ==
  \E t \in Threads :
    /\ thread[t] = "none" /\ \A u \in Threads : u < t => thread[u] # "none"
    /\ thread' = [thread EXCEPT ![t] = "started"]
    /\ serverBuildId' = TRUE /\ joined' = t /\ main' = "starting"
    /\ UNCHANGED <<serverThread, serverJob, cancelled, connection, late>>

stopServer == Event /\ CancelAndJoin("stopping")

startServer ==
  /\ Event /\ \E t \in Threads : thread[t] = "none"
  /\ CancelAndJoin("restarting") \/ (serverThread = None /\ NewThread)

Button == (isServerRunning /\ stopServer) \/ (~isServerRunning /\ startServer)

(* Join returns when the thread has ended.                                 *)
Join ==
  /\ main \in {"stopping", "restarting"} /\ thread[joined] = "ended"
  /\ \/ /\ main = "stopping" /\ main' = "free" /\ joined' = None
        /\ UNCHANGED <<thread, fields, cancelled, connection, late>>
     \/ main = "restarting" /\ NewThread

(* Nobody cancels the job of a server that was stopped before it had one:  *)
(* the main thread waits forever.                                          *)
Hung == main \in {"stopping", "restarting"} /\ thread[joined] = "serving" /\ joined \notin cancelled

(* The thread runs before it is assigned.                                  *)
AssignThread ==
  /\ main = "starting" /\ main' = "free"
  /\ serverThread' = joined /\ joined' = None
  /\ UNCHANGED <<thread, serverJob, serverBuildId, cancelled, connection, late>>

-----------------------------------------------------------------------------
(* The server thread                                                       *)
At(t, from, to) == thread[t] = from /\ thread' = [thread EXCEPT ![t] = to]

Launch(t) ==
  /\ At(t, "started", "binding") /\ serverJob' = t
  /\ UNCHANGED <<serverThread, serverBuildId, cancelled, main, joined, connection, late>>

(* bind may fail, which ends the job.                                      *)
Bind(t) ==
  /\ t \notin cancelled /\ \A u \in Threads : thread[u] # "serving"
  /\ At(t, "binding", "serving")
  /\ UNCHANGED <<fields, cancelled, main, joined, connection, late>>
BindFails(t) ==
  /\ At(t, "binding", "ending")
  /\ UNCHANGED <<fields, cancelled, main, joined, connection, late>>

(* Cancellation ends accept and every handleClient where they are          *)
(* suspended, in runOnMainThread too; sockets are closed.  What was posted *)
(* stays posted.  A job that accepts no more clients ends with the last    *)
(* handleClient, too.                                                      *)
EndJob(t) ==
  /\ (t \in cancelled /\ At(t, "serving", "ending")) \/ At(t, "draining", "ending")
  /\ connection' = IF connection = t THEN None ELSE connection
  /\ late' = IF connection = t /\ channel = "posted" THEN Append(late, call) ELSE late
  /\ UNCHANGED <<fields, cancelled, main, joined>>

(* Mutant: the thread is forgotten before its job. *)
CleanupThreadFirst(t) ==
  /\ \/ /\ At(t, "ending", "jobless") /\ serverThread' = None
        /\ UNCHANGED <<serverJob, serverBuildId>>
     \/ /\ At(t, "jobless", "threadless") /\ serverJob' = None
        /\ UNCHANGED <<serverThread, serverBuildId>>
     \/ /\ At(t, "threadless", "ended") /\ serverBuildId' = FALSE
        /\ UNCHANGED <<serverThread, serverJob>>
  /\ UNCHANGED <<cancelled, main, joined, connection, late>>

Cleanup(t) ==
  /\ \/ /\ At(t, "ending", "jobless") /\ serverJob' = None
        /\ UNCHANGED <<serverThread, serverBuildId>>
     \/ /\ At(t, "jobless", "threadless") /\ serverThread' = None
        /\ UNCHANGED <<serverJob, serverBuildId>>
     \/ /\ At(t, "threadless", "ended") /\ serverBuildId' = FALSE
        /\ UNCHANGED <<serverThread, serverJob>>
  /\ UNCHANGED <<cancelled, main, joined, connection, late>>

ServerThread(t) == Launch(t) \/ Bind(t) \/ BindFails(t) \/ EndJob(t) \/ Cleanup(t)

-----------------------------------------------------------------------------
(* The game and the scripts, as the server lets them                       *)
Served == connection # None /\ Post /\ UNCHANGED serverVars

(* A late body runs although nobody waits for its result.                  *)
Latest == IF late = <<>> THEN machine ELSE Handled(machine, late[1])[1]

GameFrame ==
  /\ main = "free" /\ Frame(Latest, connection # None)
  /\ late' = <<>>
  /\ UNCHANGED <<thread, fields, cancelled, main, joined, connection>>

(* The answer to a call on a closed connection is an empty line.           *)
ConnectionClosed ==
  /\ connection = None /\ channel \in {"sent", "posted"}
  /\ channel' = "answered" /\ response' = Failure
  /\ UNCHANGED <<machine, scriptVars, call, serverVars>>

RunScript == Script /\ UNCHANGED serverVars

(* A script whose first call is raised: which one it is does not matter.   *)
Refused ==
  /\ Replaceable
  /\ script' = "debug" /\ tests' = <<>> /\ call' = StatusCall
  /\ channel' = "idle" /\ response' = Failure /\ outcome' = "raised"
  /\ results' = <<>> /\ signatures' = <<>>

(* A new script connects, or is refused.                                   *)
Connect ==
  /\ scripts < MaxScripts /\ scripts' = scripts + 1
  /\ \/ \E t \in Threads :
          /\ thread[t] = "serving" /\ Restart
          /\ connection' = IF channel' = "sent" THEN t ELSE None
     \/ /\ \A t \in Threads : thread[t] # "serving"
        /\ Refused /\ connection' = None /\ UNCHANGED machine
  /\ UNCHANGED <<thread, fields, cancelled, main, joined, late>>

(* Or accept finds on the main thread that its computer is no longer       *)
(* there: it has been built anew, in any state.  The client is turned away *)
(* and the loop of accept left, while a handleClient may still be there.   *)
TurnAway ==
  /\ scripts < MaxScripts /\ scripts' = scripts + 1
  /\ main = "free" /\ late = <<>>
  /\ \E t \in Threads : At(t, "serving", "draining")
  /\ Refused /\ connection' = None
  /\ machine' \in Machines /\ serverBuildId' = FALSE
  /\ UNCHANGED <<serverThread, serverJob, cancelled, main, joined, late>>

User ==
  /\ events < MaxEvents /\ events' = events + 1
  /\ stopServer \/ startServer \/ Button
  /\ UNCHANGED <<accessVars, scripts>>
MainThread == ((Join \/ AssignThread) /\ UNCHANGED accessVars) \/ GameFrame

Next ==
  \/ (MainThread \/ Served \/ ConnectionClosed \/ RunScript) /\ UNCHANGED bounds
  \/ (\E t \in Threads : ServerThread(t)) /\ UNCHANGED <<accessVars, bounds>>
  \/ User
  \/ (Connect \/ TurnAway) /\ UNCHANGED events
  \/ Hung /\ UNCHANGED vars

Spec == Init /\ [][Next]_vars
(* The game updates every frame, and every thread is scheduled.  Users owe *)
(* nothing.                                                                *)
FairSpec ==
  /\ Spec
  /\ WF_vars(MainThread /\ UNCHANGED bounds)
  /\ WF_vars(Served /\ UNCHANGED bounds)
  /\ WF_vars((ConnectionClosed \/ RunScript) /\ UNCHANGED bounds)
  /\ \A t \in Threads : WF_vars(ServerThread(t) /\ UNCHANGED <<accessVars, bounds>>)
=================================================================================
