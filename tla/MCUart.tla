-------------------------------- MODULE MCUart --------------------------------
(* Instances of the UART model for TLC.                                     *)
EXTENDS UartProps

(* The accesses a driver makes: 32-bit loads and stores.                    *)
Receive == {<<"load", "RX">>, <<"load", "STATUS">>, <<"store", "CONTROL">>}
Send == {<<"store", "TX">>, <<"load", "STATUS">>}

(* Narrow stores load the word first.                                       *)
Narrow == {<<"rmw", "RX">>, <<"rmw", "TX">>, <<"rmw", "STATUS">>}

PortAccesses == [p \in Ports |-> Receive \union Send \union Narrow]
DriverAccesses == [p \in Ports |-> Receive \union Send]

(* One end of the link sends, the other one receives.                       *)
WireAccesses == [p \in Ports |-> IF p = bank1 THEN Send ELSE {<<"load", "RX">>}]

(* Every Control word but the ones that reset the TX FIFO.                  *)
NoTxReset == {c \in ControlWords : ~c.rst_tx}

AllControls == ControlWords
===============================================================================
