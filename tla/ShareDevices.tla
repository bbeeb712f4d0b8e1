------------------------------ MODULE ShareDevices ------------------------------
(***************************************************************************)
(* Devices of src/src/devices/ that are charged by a share of the          *)
(* measurement: PCI and other devices with runtime power management, USB   *)
(* devices, audio codecs, SATA links, backlights, radios, the fan and the  *)
(* light of a ThinkPad, the fan of an Xe card. Each reads its files when a *)
(* measurement starts and when it ends: "before" and "after" are its       *)
(* fields by file. Of the results there are the names they are reported    *)
(* and read under.                                                         *)
(***************************************************************************)
EXTENDS TestFramework

ShareClasses == {"runtime_pm", "usb", "alsa", "ahci", "backlight", "rfkill", "fan", "light", "xe_fan"}

ShareFiles ==
  [runtime_pm |-> {"active", "suspended"}, usb |-> {"active", "connected"},
   alsa |-> {"on", "off"}, ahci |-> {"active", "partial", "slumber", "devslp"},
   backlight |-> {"max", "level", "dpms"}, rfkill |-> {"hard", "soft"},
   fan |-> {"rate"}, light |-> {"level"}, xe_fan |-> {"rate"}]

\* The display of a backlight is looked at only when the measurement ends, its
\* highest level only when it starts; the fan of an Xe card only when it ends.
StartFiles(class) == IF class = "xe_fan" THEN {} ELSE ShareFiles[class] \ {"dpms"}
EndFiles(class)   == ShareFiles[class] \ {"max"}

Zeros(class) == [f \in ShareFiles[class] |-> 0]
NewShareDevice(class) == [before |-> Zeros(class), after |-> Zeros(class)]

\* A hub, whose power is derived from that of its devices.
HubClass == 9

\* No USB device is charged before the next learning.
NewUsb(bDeviceClass) ==
  [rootport |-> ReadInt(bDeviceClass) = HubClass, cached_valid |-> FALSE,
   before |-> Zeros("usb"), after |-> Zeros("usb")]

Ints(old, got) == [f \in DOMAIN old |-> IF f \in DOMAIN got THEN ReadInt(got[f]) ELSE old[f]]

RuntimePmStarted(d, got) == [before |-> Ints(d.before, got), after |-> Zeros("runtime_pm")]
UsbStarted(d, got)       == [d EXCEPT !.before = Ints(@, got)]
AhciStarted(d, got)      == [d EXCEPT !.before = Ints(@, got)]
BacklightStarted(d, got) == [d EXCEPT !.before = Ints(@, got)]
RfkillStarted(d, got)    == [before |-> Ints(d.before, got), after |-> [f \in {"hard", "soft"} |-> 1]]
FanStarted(d, got)       == [d EXCEPT !.before = Ints(@, got)]
LightStarted(d, got)     == [d EXCEPT !.before = Ints(@, got)]

\* A file that cannot be read leaves the field of a codec as it was.
AlsaKept(old, got) == [f \in DOMAIN old |-> IF got[f] = Absent THEN old[f] ELSE got[f]]
AlsaStarted(d, got) == [d EXCEPT !.before = AlsaKept(@, got)]
AlsaEnded(d, got)   == [d EXCEPT !.after = AlsaKept(@, got)]

RuntimePmEnded(d, got) == [d EXCEPT !.after = Ints(@, got)]
UsbEnded(d, got)       == [d EXCEPT !.after = Ints(@, got)]
BacklightEnded(d, got) == [d EXCEPT !.after = Ints(@, got)]
RfkillEnded(d, got)    == [d EXCEPT !.after = Ints(@, got)]
FanEnded(d, got)       == [d EXCEPT !.after = Ints(@, got)]
LightEnded(d, got)     == [d EXCEPT !.after = Ints(@, got)]
XeFanEnded(d, got)     == [d EXCEPT !.after = [rate |-> ReadUint64(got["rate"])]]

\* The time in devslp is not kept from falling.
AhciEnded(d, got) ==
  [d EXCEPT !.after = [f \in DOMAIN @ |->
     IF f # "devslp" /\ ReadInt(got[f]) < d.before[f] THEN d.before[f] ELSE ReadInt(got[f])]]

ShareStarted(class, d, got) ==
  CASE class = "runtime_pm" -> RuntimePmStarted(d, got)
    [] class = "usb"        -> UsbStarted(d, got)
    [] class = "alsa"       -> AlsaStarted(d, got)
    [] class = "ahci"       -> AhciStarted(d, got)
    [] class = "backlight"  -> BacklightStarted(d, got)
    [] class = "rfkill"     -> RfkillStarted(d, got)
    [] class = "fan"        -> FanStarted(d, got)
    [] class = "light"      -> LightStarted(d, got)
    [] class = "xe_fan"     -> d

ShareEnded(class, d, got) ==
  CASE class = "runtime_pm" -> RuntimePmEnded(d, got)
    [] class = "usb"        -> UsbEnded(d, got)
    [] class = "alsa"       -> AlsaEnded(d, got)
    [] class = "ahci"       -> AhciEnded(d, got)
    [] class = "backlight"  -> BacklightEnded(d, got)
    [] class = "rfkill"     -> RfkillEnded(d, got)
    [] class = "fan"        -> FanEnded(d, got)
    [] class = "light"      -> LightEnded(d, got)
    [] class = "xe_fan"     -> XeFanEnded(d, got)

Percent(part, whole) == IF whole <= 0 THEN 0 ELSE (100 * part) \div whole
NotBelow(low, n) == IF n < low THEN low ELSE n
NotAbove(high, n) == IF n > high THEN high ELSE n

Delta(d, f) == d.after[f] - d.before[f]

RuntimePmUtilization(d) ==
  NotAbove(100, NotBelow(0, Percent(Delta(d, "active"), Delta(d, "active") + Delta(d, "suspended"))))

UsbUtilization(d) == NotAbove(100, NotBelow(0, Percent(Delta(d, "active"), Delta(d, "connected"))))

AlsaUtilization(d) ==
  Percent(NotBelow(0, Delta(d, "on")), NotBelow(0, Delta(d, "on") + Delta(d, "off")))

AhciTotal(d) == Delta(d, "active") + Delta(d, "partial") + Delta(d, "slumber") + Delta(d, "devslp")
AhciUtilization(d) == NotBelow(0, Percent(Delta(d, "partial") + Delta(d, "active"), AhciTotal(d)))

BacklightUtilization(d) ==
  IF d.before["max"] <= 0 THEN 0
  ELSE (100 * (d.after["level"] + d.before["level"])) \div (2 * d.before["max"])

\* Soft and hard blocks are counted apart, and the larger count is taken.
RfkillUtilization(d) ==
  100 - 50 * NotBelow(d.before["hard"] + d.after["hard"], d.before["soft"] + d.after["soft"])

FanUtilization(d)   == (d.before["rate"] + d.after["rate"]) \div 2
LightUtilization(d) == Percent(d.before["level"] + d.after["level"], 510)
XeFanUtilization(d) == d.after["rate"]

ShareUtilization(class, d) ==
  CASE class = "runtime_pm" -> RuntimePmUtilization(d)
    [] class = "usb"        -> UsbUtilization(d)
    [] class = "alsa"       -> AlsaUtilization(d)
    [] class = "ahci"       -> AhciUtilization(d)
    [] class = "backlight"  -> BacklightUtilization(d)
    [] class = "rfkill"     -> RfkillUtilization(d)
    [] class = "fan"        -> FanUtilization(d)
    [] class = "light"      -> LightUtilization(d)
    [] class = "xe_fan"     -> XeFanUtilization(d)

\* Without time in any state, the results of before stay.
AhciReports(d) ==
  IF AhciTotal(d) <= 0 THEN [f \in {} |-> 0]
  ELSE [f \in ShareFiles["ahci"] |-> NotBelow(0, Percent(Delta(d, f), AhciTotal(d)))]

\* A display that is off is charged nothing, whatever its level.
BacklightReports(d) ==
  [name  |-> IF d.after["dpms"] = 1 THEN BacklightUtilization(d) ELSE 0,
   power |-> 100 * d.after["dpms"]]

\* What the end of a measurement reports: by name.
ShareReports(class, d) ==
  CASE class \in {"runtime_pm", "xe_fan"} -> [f \in {} |-> 0]
    [] class = "ahci"       -> AhciReports(d)
    [] class = "backlight"  -> BacklightReports(d)
    [] OTHER                -> [name |-> ShareUtilization(class, d)]
=============================================================================
