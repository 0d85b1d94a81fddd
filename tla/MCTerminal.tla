------------------------------- MODULE MCTerminal -------------------------------
(* An instance of Terminal for TLC: two clients that compete for the       *)
(* output, one of which also sends.                                        *)
EXTENDS TerminalProps

CONSTANTS c1, c2
MCMaxSent == [c \in Clients |-> IF c = c1 THEN 2 ELSE 0]
=================================================================================
