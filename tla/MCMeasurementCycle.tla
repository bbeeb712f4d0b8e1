--------------------------- MODULE MCMeasurementCycle ---------------------------
(***************************************************************************)
(* A process with a thread that changes its name and one that has exited;  *)
(* two USB devices that get the same number one after the other, a sound   *)
(* card, and the runtime PM entry of the first USB device.                 *)
(***************************************************************************)
EXTENDS MeasurementCycle, TLC

Leader  == [pid |-> 1, comm |-> "app", tgid |-> 1, desc |-> "app"]
Thread  == [pid |-> 2, comm |-> "worker", tgid |-> 1, desc |-> "app 2"]
Renamed == [pid |-> 2, comm |-> "pool", tgid |-> 1, desc |-> "app 2"]
Gone    == [pid |-> 3, comm |-> "gone", tgid |-> 0, desc |-> "gone"]

MCTasks == {Leader, Thread, Renamed, Gone}
MCDevices == {"usb", "usb new", "sound", "usb pm"}
MCDevString == "usb" :> "usb/1" @@ "usb new" :> "usb/1" @@ "sound" :> "C0"
MCHandles == <<[task |-> Leader, names |-> {"usb/1"}],
               [task |-> Thread, names |-> {"C0", "usb/1"}]>>
MCRealPath == "usb" :> "port" @@ "usb pm" :> "port" @@ "usb new" :> "none" @@ "sound" :> "card"
MCGroupingPrio == "usb" :> 4 @@ "usb pm" :> 1 @@ "usb new" :> 4 @@ "sound" :> 0
MCFixed == <<"usb pm", "usb", "sound">>

\* Twelve is divided by all numbers of openers there can be.
MCUsages == {u \in [MCDevices -> {0, 12}] : u["usb pm"] = 12 /\ u["usb new"] = 12}

MCFewUsages == {[d \in MCDevices |-> 12]}

Ran(t) == [task |-> t, runtime |-> 1, power_charge |-> 0]
MCTraces == {<<>>, <<Ran(Leader), Ran(Thread), Ran(Renamed)>>,
             <<Ran(Thread), Ran(Renamed), Ran(Leader), Ran(Gone)>>}

Core(n) == [type |-> "Core", cpus |-> n, collapses |-> n = 1]
NoCore == [type |-> "none", cpus |-> 0, collapses |-> FALSE]
Package(cores) == [cores |-> cores, levels |-> {LEVEL_C0, 0, 1, 2, 3}, frequencies |-> 3]
Amd == [cores |-> <<Core(2), Core(2), Core(2), Core(1)>>, levels |-> {0, 1, 2, 3}, frequencies |-> 2]
MCLayouts == {Package(<<Core(2), NoCore, Core(2)>>), Package(<<Core(1), Core(1)>>)}
MCMixedLayouts == MCLayouts \cup {Amd}

MCHardware ==
  {[links |-> 2, xe |-> [present |-> FALSE, channels |-> 0, gts |-> 0, valid |-> 0, fans |-> 0]],
   [links |-> 0, xe |-> [present |-> TRUE, channels |-> 2, gts |-> 2, valid |-> 1, fans |-> 1]]}
MCSettingStates ==
  {[tunables |-> <<"bad", "good">>, wakeups |-> <<"disabled", "enabled">>],
   [tunables |-> <<"bad", "bad">>, wakeups |-> <<"enabled", "enabled">>]}
=================================================================================
