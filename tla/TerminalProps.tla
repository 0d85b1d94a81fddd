------------------------------ MODULE TerminalProps ------------------------------
(* What the terminal server promises.                                      *)
EXTENDS Terminal

Increasing(s) == \A m, n \in DOMAIN s : m < n => s[m] < s[n]
Elements(s) == {s[n] : n \in DOMAIN s}

(* Output of the machine is delivered at most once and in order: whichever *)
(* handlers compete for it, a message is in one place only, and a client   *)
(* sees its messages in the order in which they were written.              *)
Once ==
  /\ \A c \in Clients :
       /\ Increasing(got[c])
       /\ \A d \in Clients : c # d => Elements(got[c]) \intersect Elements(got[d]) = {}
       /\ Elements(got[c]) \intersect (Elements(from_processor) \union Elements(unread) \union lost) = {}
  /\ Increasing(from_processor \o unread)

(* No output is dropped silently: what the machine wrote is waiting, was   *)
(* delivered, or was taken by a handler that died of it.                   *)
Kept ==
  /\ 1..output = Elements(unread) \union Elements(from_processor) \union lost
                   \union UNION {Elements(got[c]) : c \in Clients}
  /\ Cardinality(lost) <= Cardinality({c \in Clients : handler[c] = "ended"})

(* Clients that compete for the deque from_processor, each testing it and  *)
(* popping it in two steps, share the output: every message goes to one of *)
(* them, in order, and is lost only with the handler that took it.         *)
OutputShared == Once /\ Kept

Numbers(s, c) == {s[n][2] : n \in {k \in DOMAIN s : s[k][1] = c}}
Ordered(s, c) == \A m, n \in DOMAIN s : m < n /\ s[m][1] = c /\ s[n][1] = c => s[m][2] < s[n][2]

(* While the connection to the machine is up, input of a client reaches it *)
(* completely and in order, through the handler's socket, the deque and    *)
(* the worker, however it is mixed with that of others: what has arrived,  *)
(* what is in the deque and what is in the socket is, one after the other, *)
(* what the client has sent.                                               *)
InputInOrder ==
  worker \in {"connecting", "recv", "client", "input"} => \A c \in Clients :
    LET way == received \o from_client \o pending[c] IN Ordered(way, c) /\ Numbers(way, c) = 1..sent[c]

Failing(thread) == thread \in {"failed", "waiting"}

(* When connecting to the machine, receiving from it or sending to it      *)
(* raises, the input has ended, or Ctrl+C is pressed while no client is    *)
(* connected, all threads end.  (A machine that closes the connection in   *)
(* order raises nothing: recv returns no bytes and the worker goes on, so  *)
(* this is no end until something is sent.)                                *)
AllEnd ==
  (Failing(worker) \/ Failing(input) \/ shutdown \/ (main = "closing" /\ Joined)) ~> Ended
=================================================================================
