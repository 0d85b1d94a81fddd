----------------------------- MODULE BoundedFifo -----------------------------
(***************************************************************************)
(* What UART buffers promise their two ends (README, "UART"): each channel *)
(* is a queue of at most Size items.  The producer appends one item and    *)
(* never overwrites one; the consumer removes the oldest items, one by a   *)
(* read, several when it resets the buffer.                                *)
(***************************************************************************)
EXTENDS Naturals, Sequences

CONSTANTS Channels, Items, Size
VARIABLE queue

Init == queue = [c \in Channels |-> << >>]

Put(c, x) ==
  /\ Len(queue[c]) < Size
  /\ queue' = [queue EXCEPT ![c] = Append(@, x)]

Drop(c, n) == queue' = [queue EXCEPT ![c] = SubSeq(@, n + 1, Len(@))]

Next ==
  \E c \in Channels :
    \/ \E x \in Items : Put(c, x)
    \/ \E n \in 1..Len(queue[c]) : Drop(c, n)

Spec == Init /\ [][Next]_queue
===============================================================================
