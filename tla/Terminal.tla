-------------------------------- MODULE Terminal --------------------------------
(***************************************************************************)
(* terminal_server.py: a TCP server that connects terminals to a UART of   *)
(* the machine.  Its threads are the main thread (serve_forever), the      *)
(* processor worker, the input worker (a daemon) and one handler per       *)
(* client; they share three deques and the event shutdown.                 *)
(*                                                                         *)
(* Every access to a deque that another thread uses, an event or a socket  *)
(* is a step of its own, with one exception: a handler's look at the event *)
(* and its recv are one step with what is appended to from_client.  Nobody *)
(* else reads its socket, a worker sees a message that is appended later   *)
(* as one that is received later, and an event that is set in between is   *)
(* seen in the next round.                                                 *)
(* Data is counted in messages, as recv returns them.  A socket is not     *)
(* blocking: sendall raises when the peer is gone or its buffer is full,   *)
(* and recv of a socket whose peer is gone returns nothing, for ever.      *)
(***************************************************************************)
EXTENDS Integers, Sequences, FiniteSets

CONSTANTS Clients,
          MaxOutput,   \* bound: messages that the processor writes
          MaxSent,     \* bound: messages that each client sends
          MaxInput     \* bound: lines that are typed

ASSUME BoundsAssumption == MaxOutput \in Nat /\ MaxSent \in [Clients -> Nat] /\ MaxInput \in Nat
ASSUME ClientsAssumption == IsFiniteSet(Clients) /\ "input" \notin Clients

VARIABLES shutdown,                    \* the event
          requested, isShutDown,       \* of the server: __shutdown_request, __is_shut_down
          main, worker, input,         \* where each thread is
          handler,                     \* where the handler of each client is
          from_processor, from_client, from_input,
          output, unread,              \* messages the processor wrote; not yet received
          sent, pending,               \* messages each client sent; not yet received
          typed,
          got,                         \* what each client received
          received,                    \* what the processor received
          lost                         \* messages taken for a client that was gone

threadVars == <<main, worker, input, handler>>
serverVars == <<shutdown, requested, isShutDown>>
outVars == <<output, unread, from_processor, got, lost>>
inVars == <<sent, pending, from_client, from_input, typed, received>>
vars == <<threadVars, serverVars, outVars, inVars>>

Init ==
  /\ shutdown = FALSE /\ requested = FALSE /\ isShutDown = FALSE
  /\ main = "serving" /\ worker = "connecting" /\ input = "reading"
  /\ handler = [c \in Clients |-> "none"]
  /\ from_processor = <<>> /\ from_client = <<>> /\ from_input = <<>>
  /\ output = 0 /\ unread = <<>>
  /\ sent = [c \in Clients |-> 0] /\ pending = [c \in Clients |-> <<>>]
  /\ typed = 0
  /\ got = [c \in Clients |-> <<>>] /\ received = <<>> /\ lost = {}

-----------------------------------------------------------------------------
(* Outside: the machine writes, clients send, a line is typed.             *)
ProcessorWrites ==
  /\ output < MaxOutput /\ worker \in {"recv", "client", "input"}
  /\ output' = output + 1 /\ unread' = Append(unread, output + 1)
  /\ UNCHANGED <<threadVars, serverVars, from_processor, got, lost, inVars>>

ClientSends(c) ==
  /\ handler[c] \in {"recv", "check", "pop"} /\ sent[c] < MaxSent[c]
  /\ sent' = [sent EXCEPT ![c] = @ + 1]
  /\ pending' = [pending EXCEPT ![c] = Append(@, <<c, sent[c] + 1>>)]
  /\ UNCHANGED <<threadVars, serverVars, outVars, from_client, from_input, typed, received>>

-----------------------------------------------------------------------------
(* Main thread: serve_forever accepts clients until a shutdown is          *)
(* requested or Ctrl+C is pressed; server_close joins the handlers; the    *)
(* event is set last.                                                      *)
Accept(c) ==
  /\ main = "serving" /\ handler[c] = "none"
  /\ handler' = [handler EXCEPT ![c] = "recv"]
  /\ UNCHANGED <<main, worker, input, serverVars, outVars, inVars>>

LeaveServeForever ==
  /\ requested' = FALSE /\ isShutDown' = TRUE /\ main' = "closing"
  /\ UNCHANGED <<worker, input, handler, shutdown, outVars, inVars>>

StopServing == main = "serving" /\ requested /\ LeaveServeForever
Interrupt == main = "serving" /\ ~requested /\ LeaveServeForever

Joined == \A c \in Clients : handler[c] \in {"none", "ended"}

ServerClose ==
  /\ main = "closing" /\ Joined
  /\ main' = "ended" /\ shutdown' = TRUE
  /\ UNCHANGED <<worker, input, handler, requested, isShutDown, outVars, inVars>>

-----------------------------------------------------------------------------
(* The finally block of both workers: server.shutdown() asks serve_forever *)
(* to end and waits for it, then the event is set.                         *)
RequestShutdown(thread) == thread = "failed" /\ requested' = TRUE

(* Mutant: the event is not set. *)
SetShutdownForgotten == UNCHANGED shutdown

SetShutdown == shutdown' = TRUE

WorkerFinally ==
  /\ \/ /\ RequestShutdown(worker) /\ worker' = "waiting"
        /\ UNCHANGED shutdown
     \/ /\ worker = "waiting" /\ isShutDown
        /\ worker' = "ended" /\ SetShutdown
        /\ UNCHANGED requested
  /\ UNCHANGED <<main, input, handler, isShutDown, outVars, inVars>>

InputFinally ==
  /\ \/ /\ RequestShutdown(input) /\ input' = "waiting"
        /\ UNCHANGED shutdown
     \/ /\ input = "waiting" /\ isShutDown
        /\ input' = "ended" /\ SetShutdown
        /\ UNCHANGED requested
  /\ UNCHANGED <<main, worker, handler, isShutDown, outVars, inVars>>

(* input() returns a line, or raises at the end of the file.               *)
ReadLine ==
  /\ input = "reading" /\ typed < MaxInput
  /\ typed' = typed + 1 /\ from_input' = Append(from_input, <<"input", typed + 1>>)
  /\ UNCHANGED <<threadVars, serverVars, outVars, sent, pending, from_client, received>>

EndOfInput ==
  /\ input = "reading" /\ input' = "failed"
  /\ UNCHANGED <<main, worker, handler, serverVars, outVars, inVars>>

-----------------------------------------------------------------------------
(* processor_worker                                                        *)
Goto(next) == worker' = next /\ UNCHANGED <<main, input, handler, serverVars>>

Connect ==
  /\ worker = "connecting"
  /\ Goto("recv") \/ Goto("failed")
  /\ UNCHANGED <<outVars, inVars>>

(* The loop ends when the event is set; recv of what is there, if any,     *)
(* raises when the connection is reset.                                    *)
ProcessorRecv ==
  /\ worker = "recv"
  /\ \/ Goto("failed") /\ UNCHANGED outVars
     \/ /\ ~shutdown /\ unread = <<>> /\ Goto("client") /\ UNCHANGED outVars
     \/ /\ ~shutdown /\ unread # <<>> /\ Goto("client")
        /\ from_processor' = Append(from_processor, Head(unread)) /\ unread' = Tail(unread)
        /\ UNCHANGED <<output, got, lost>>
  /\ UNCHANGED inVars

(* Mutant: pop instead of popleft. *)
SendNewest(queue) == queue[Len(queue)]

SendOldest(queue) == Head(queue)

(* One message of a client and one line go to the machine; sendall may     *)
(* raise, after which nothing more is sent.                                *)
ForwardClient ==
  /\ worker = "client"
  /\ \/ /\ from_client = <<>> /\ Goto("input") /\ UNCHANGED <<from_client, received>>
     \/ /\ from_client # <<>>
        /\ from_client' = Tail(from_client)
        /\ \/ received' = Append(received, SendOldest(from_client)) /\ Goto("input")
           \/ Goto("failed") /\ UNCHANGED received
  /\ UNCHANGED <<outVars, sent, pending, from_input, typed>>

ForwardInput ==
  /\ worker = "input"
  /\ \/ /\ from_input = <<>> /\ Goto("recv") /\ UNCHANGED <<from_input, received>>
     \/ /\ from_input # <<>>
        /\ from_input' = Tail(from_input)
        /\ \/ received' = Append(received, SendOldest(from_input)) /\ Goto("recv")
           \/ Goto("failed") /\ UNCHANGED received
  /\ UNCHANGED <<outVars, sent, pending, from_client, typed>>

-----------------------------------------------------------------------------
(* TerminalServerHandler.handle; recv raises when the connection is reset. *)
HandlerGoto(c, next) ==
  handler' = [handler EXCEPT ![c] = next] /\ UNCHANGED <<main, worker, input, serverVars>>

HandlerRecv(c) ==
  /\ handler[c] = "recv"
  /\ \/ HandlerGoto(c, "ended") /\ UNCHANGED inVars
     \/ /\ ~shutdown /\ pending[c] = <<>> /\ HandlerGoto(c, "check") /\ UNCHANGED inVars
     \/ /\ ~shutdown /\ pending[c] # <<>> /\ HandlerGoto(c, "check")
        /\ from_client' = Append(from_client, Head(pending[c]))
        /\ pending' = [pending EXCEPT ![c] = Tail(@)]
        /\ UNCHANGED <<sent, from_input, typed, received>>
  /\ UNCHANGED outVars

HandlerCheck(c) ==
  /\ handler[c] = "check"
  /\ HandlerGoto(c, IF from_processor # <<>> THEN "pop" ELSE "recv")
  /\ UNCHANGED <<outVars, inVars>>

(* Mutant: the deque is cleared. *)
TakeAll == from_processor' = <<>>

(* popleft raises IndexError if another handler was faster; sendall may    *)
(* raise.  Either ends the handler, and a message it has taken is lost.    *)
Take == from_processor' = Tail(from_processor)

HandlerPop(c) ==
  /\ handler[c] = "pop"
  /\ \/ /\ from_processor = <<>>
        /\ HandlerGoto(c, "ended") /\ UNCHANGED outVars
     \/ /\ from_processor # <<>> /\ Take
        /\ \/ /\ got' = [got EXCEPT ![c] = Append(@, Head(from_processor))]
              /\ HandlerGoto(c, "recv") /\ UNCHANGED lost
           \/ /\ lost' = lost \union {Head(from_processor)}
              /\ HandlerGoto(c, "ended") /\ UNCHANGED got
        /\ UNCHANGED <<output, unread>>
  /\ UNCHANGED inVars

MainThread == StopServing \/ ServerClose
ProcessorWorker == Connect \/ ProcessorRecv \/ ForwardClient \/ ForwardInput \/ WorkerFinally
Handler(c) == HandlerRecv(c) \/ HandlerCheck(c) \/ HandlerPop(c)

Ended ==
  main = "ended" /\ worker = "ended" /\ \A c \in Clients : handler[c] \in {"none", "ended"}

Next ==
  \/ ProcessorWrites \/ Interrupt \/ ReadLine \/ EndOfInput
  \/ \E c \in Clients : ClientSends(c) \/ Accept(c) \/ Handler(c)
  \/ MainThread \/ ProcessorWorker \/ InputFinally
  \/ Ended /\ UNCHANGED vars

Spec == Init /\ [][Next]_vars
(* The operating system schedules every thread.                            *)
FairSpec ==
  /\ Spec
  /\ WF_vars(MainThread) /\ WF_vars(ProcessorWorker) /\ WF_vars(InputFinally)
  /\ \A c \in Clients : WF_vars(Handler(c))
=================================================================================
