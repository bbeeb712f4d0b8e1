----------------------------- MODULE DeviceCreation -----------------------------
(***************************************************************************)
(* How powertop finds the devices of src/src/devices/ when it starts, and  *)
(* USB devices before each measurement: what it looks at, and whether      *)
(* there is a device then.  Names, labels and models are not here.         *)
(***************************************************************************)
EXTENDS EnergyDevices, IntelResidency

Look(keys, found) == [reads |-> Once(keys), found |-> found]

And(condition, keys) == IF condition THEN keys ELSE {}

\* create_all_usb_devices_callback, and the constructor's look at the device class.
LookForUsb ==
  Look({A("active")} \cup And(Accessible("active"), {R("bDeviceClass")}), Accessible("active"))

\* A device that is known stays, even if it can be read no more.
LookForKnownUsb == Look({A("active")}, TRUE)

LookForAlsa == Look({A("on")}, Accessible("on"))

\* create_all_ahcis: any number will do.
Accounting == R("ahci_alpm_accounting")
LookForAhci == Look({Accounting}, Present(Accounting))

\* Every entry of the directory is a device.
LookForBacklight == Look({D("backlight")}, Present(D("backlight")))
LookForNic       == Look({D("net")}, Present(D("net")))

\* A radio is known by its name or, without one, by that of its directory.
LookForRfkill ==
  Look({D("rfkill")} \cup And(Present(D("rfkill")), {R("name")}), Present(D("rfkill")))

LookForFan   == Look({A("rate")}, Accessible("rate"))
LookForLight == Look({A("level")}, Accessible("level"))

\* device_has_runtime_pm: one of the two files suffices.
RuntimePmFiles ==
  {R("suspended")} \cup And(~Present(R("suspended")), {R("active")})

\* do_bus
LookForRuntimePm ==
  Look({D("bus")} \cup And(Present(D("bus")), RuntimePmFiles),
       Present(D("bus")) /\ \E f \in RuntimePmFiles : Present(f))

\* find_xe_hwmon_dir, and the constructor's look at the first channel.  The device is
\* there as soon as its trace events are.
LookForXe ==
  LET channel == Present(D("hwmon")) /\ Accessible("power1_label")
      energy == channel /\ Accessible("energy1")
  IN Look({D("hwmon")} \cup And(Present(D("hwmon")), {A("power1_label")})
            \cup And(channel, {A("energy1")}) \cup And(energy, {Channel, Now}), TRUE)

\* create_xe_fans
LookForXeFan ==
  Look({D("hwmon")} \cup And(Present(D("hwmon")), {A("rate")}),
       Present(D("hwmon")) /\ Accessible("rate"))

\* create_all_devfreq_devices lists the directory, and process_directory again.
LookForDevfreq ==
  [reads |-> All({D("devfreq")}, IF Present(D("devfreq")) THEN 2 ELSE 1),
   found |-> Present(D("devfreq"))]

\* find_drm_card_with_rc6, once.
LookForRc6 ==
  Look({D("drm")} \cup And(Present(D("drm")), {A("rc6")}), Present(D("drm")) /\ Accessible("rc6"))

\* find_xe_card_path, once, and then find_xe_gt_idle_paths.
LookForXeCard ==
  LET card == Present(D("drm"))
  IN [reads |-> Over(All({D("drm")}, IF card THEN 2 ELSE 1), Once(And(card, {A(g) : g \in Gts}))),
      found |-> card]

LookFor(class) ==
  CASE class = "usb"        -> LookForUsb
    [] class = "alsa"       -> LookForAlsa
    [] class = "ahci"       -> LookForAhci
    [] class = "backlight"  -> LookForBacklight
    [] class = "nic"        -> LookForNic
    [] class = "rfkill"     -> LookForRfkill
    [] class = "fan"        -> LookForFan
    [] class = "light"      -> LookForLight
    [] class = "runtime_pm" -> LookForRuntimePm
    [] class = "xe_energy"  -> LookForXe
    [] class = "xe_fan"     -> LookForXeFan
    [] class = "devfreq"    -> LookForDevfreq
    [] class = "rc6"        -> LookForRc6
    [] class = "xe_gts"     -> LookForXeCard
    [] OTHER                -> Look({}, TRUE)
=============================================================================
