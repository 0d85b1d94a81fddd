-------------------------------- MODULE MCAccess --------------------------------
(* An instance of Server for TLC: six tests, one of which is the old       *)
(* program and traps; a machine that is off with the pause switch and an   *)
(* error left on, and one whose program is rebooting it, with single step  *)
(* on and a breakpoint configured.                                         *)
EXTENDS AccessProps

MCLength == [t \in Tests |-> IF t < 2 THEN 2 ELSE 1]
MCFails == [t \in Tests |-> t \in {0, 2}]
MCTraps == [t \in Tests |-> IF t = 0 THEN 1 ELSE 0]
MCTestLists == {<<3>>, <<1, 2>>, <<4>>, <<3, 5>>}

Idle ==
  [power |-> FALSE, single |-> FALSE, pause |-> FALSE, ctl |-> "waiting", ticks |-> 0, state |-> "halt",
   stepping |-> FALSE, address |-> FALSE, due |-> FALSE, fetched |-> 0, traps |-> 0,
   rom |-> 0, run |-> <<>>, error |-> FALSE, steps |-> 0, seen |-> 0, unheard |-> FALSE]
MCMachines ==
  {[Idle EXCEPT !.pause = TRUE, !.run = <<0, 0>>, !.steps = 2, !.seen = 2, !.error = TRUE],
   [Idle EXCEPT !.single = TRUE, !.address = TRUE, !.ctl = "run", !.state = "reset",
                !.run = <<0>>, !.steps = 1, !.seen = 1]}
=================================================================================
