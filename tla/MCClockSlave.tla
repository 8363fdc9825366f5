---------------------------- MODULE MCClockSlave ----------------------------
(***************************************************************************)
(* ClockSlave with limbs of 2, 10 and 1 bits, Syncs every 64 ns and local  *)
(* clocks that run up to one sixth too fast or too slow.                   *)
(***************************************************************************)
EXTENDS ClockSlave

Starts == [master |-> 3203, local |-> {3100}]
SmallAndLarge == {0, 41, -256}
=============================================================================
