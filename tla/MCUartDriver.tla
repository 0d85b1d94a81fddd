----------------------------- MODULE MCUartDriver -----------------------------
(* Instances of the interrupt-driven receiver for TLC.                      *)
EXTENDS UartDriver

DriverAccesses ==
  [p \in Ports |-> {<<"store", "CONTROL">>, <<"load", "STATUS">>, <<"load", "RX">>}]
DriverControls == {EnableWord}
===============================================================================
