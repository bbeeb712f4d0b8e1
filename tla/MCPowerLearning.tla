---------------------------- MODULE MCPowerLearning ----------------------------
(***************************************************************************)
(* One battery and an Extech; one device of each kind to calibrate.        *)
(***************************************************************************)
EXTENDS PowerLearning, TLC

Reading(drains, power, current) ==
  [present |-> TRUE, discharging |-> drains, power |-> power, current |-> current, voltage |-> 1]
MCReadings == {Reading(TRUE, NoValue, -2), Reading(FALSE, 2, NoValue)}

MCExtechWatts == {-1, 0}
MCUsb == <<"usb control">>
MCRfkill == <<"radio 0">>
MCBacklight == <<"brightness">>
MCScsi == <<"link policy">>
MCFixed == <<"base power">>
MCOriginal == [f \in Files |-> IF f = Wifi THEN "0" ELSE "as found"]
MCLaterPlans == {Report("plain")}
MCPlans == {Report("workload"), Interactive, Calibrating}
================================================================================
