---------------------------- MODULE MCDeviceSetup ----------------------------
(* Two gears, two clocks, a device configured with one or two units.       *)
EXTENDS DeviceSetup

Config(number, c0, c1) == [number |-> number, capacity |-> (0 :> c0) @@ (1 :> c1)]
MCDevices == {Config(2, 1, 2), Config(1, 2, 0)}

MCSpeedRequests ==
  {[txmode |-> "FAST", rxmode |-> "FAST", txgear |-> 2, hsrate |-> "B"],
   [txmode |-> "SLOW", rxmode |-> "SLOW", txgear |-> 1, rxgear |-> 1]}

InitWith(speed, clk, timing, stop) == [speed |-> speed, clock |-> clk, timing |-> timing, stop |-> stop]

MCInitRequests ==
  {InitWith(Both("FAST", 2, "A"), 1, "AFTER_LINK", FALSE),
   InitWith(Both("FAST", 2, "A"), 0, "NO_SPEED_CHANGE", TRUE)}
=============================================================================
