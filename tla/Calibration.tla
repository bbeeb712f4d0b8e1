------------------------------ MODULE Calibration ------------------------------
(***************************************************************************)
(* calibrate() (src/src/calibrate/calibrate.cpp): settings of the machine  *)
(* are saved and changed, threads load it, and what that costs is          *)
(* measured.  The calibration is the sequence of its operations, in the    *)
(* order of the code.                                                      *)
(***************************************************************************)
EXTENDS Integers, Sequences, FiniteSets, SequencesExt

CONSTANTS
  Usb, Rfkill, Backlight, Scsi, \* sequences of the files of each kind
  Original,     \* [file -> its value]
  Long          \* what a measurement takes, 15 seconds in a calibration

ASSUME FilesAssumption ==
  /\ \A files \in {Usb, Rfkill, Backlight, Scsi} : files \in Seq(ToSet(files))
  /\ Long \in Nat

PowerSave == "snd_hda_intel power_save"
Wifi == "wlan0"
Dpms == "dpms"
Files == ToSet(Usb \o Rfkill \o Backlight \o Scsi) \cup {PowerSave, Wifi, Dpms}

VARIABLES
  settings,     \* [file -> value]
  saved_sysfs,  \* the files that were saved, with wireless_PS
  stop_measurement,
  burners       \* set of [step, n]: the threads that load the machine

calibrationVars == <<settings, saved_sysfs, stop_measurement, burners>>

Write(files, value) == <<[op |-> "write", files |-> ToSet(files), value |-> value]>>
Measurement(seconds, interval, kind) ==
  <<[op |-> "measure", seconds |-> seconds, interval |-> interval, kind |-> kind]>>
Measure == Measurement(Long, Long, "plain")
Burn(step, n) == <<[op |-> "burn", step |-> step, n |-> n]>>
StopBurning(step) == <<[op |-> "stop_burning", step |-> step]>>
ForEach(files, Steps(_)) == FlattenSeq([i \in DOMAIN files |-> Steps(files[i])])

SuspendAllUsb == Write(Usb, "auto")
RfkillAll == Write(Rfkill, "1")
UnrfkillAll == Write(Rfkill, "0")
LowerBacklight == Write(Backlight, "0")

IdleCalibration == Write(<<Dpms>>, "off") \o Measure \o Write(<<Dpms>>, "on")

Burning(step, n) == Burn(step, n) \o Measure \o StopBurning(step)

DiskCalibration == Write(Scsi, "min_power") \o Burning("disk", 1)

BacklightCalibration ==
  ForEach(Backlight, LAMBDA dev :
    LowerBacklight \o Measure
      \o Write(<<dev>>, "25%") \o Measure
      \o Write(<<dev>>, "50%") \o Measure
      \o Write(<<dev>>, "75%") \o Measure
      \o Write(<<dev>>, "100%") \o Measure \o LowerBacklight)
  \o IdleCalibration

UsbCalibration ==
  UnrfkillAll
  \o ForEach(Usb, LAMBDA dev : SuspendAllUsb \o Write(<<dev>>, "on") \o Measure \o SuspendAllUsb)
  \o RfkillAll

RfkillCalibration ==
  ForEach(Rfkill, LAMBDA dev : RfkillAll \o Write(<<dev>>, "0") \o Measure \o RfkillAll)
  \o ForEach(Rfkill, LAMBDA dev : UnrfkillAll \o Write(<<dev>>, "1") \o Measure \o UnrfkillAll)
  \o RfkillAll

SaveSettings == <<[op |-> "save_settings"]>>
RestoreSettings == <<[op |-> "restore_settings"]>>

\* mutant: the settings are restored before the radios are calibrated.
Calibrate_RestoresEarly ==
  SaveSettings \o SuspendAllUsb \o RfkillAll \o LowerBacklight \o Write(<<Wifi>>, "1")
  \o IdleCalibration \o DiskCalibration \o BacklightCalibration
  \o Write(<<PowerSave>>, "1")
  \o Burning("cpu_1", 1) \o Burning("cpu_4", 2)
  \o Burning("wakeup_10000", 1) \o Burning("wakeup_100000", 1) \o Burning("wakeup_1000000", 1)
  \o Write(<<Wifi>>, "0") \o UsbCalibration \o RestoreSettings \o RfkillCalibration

\* The second calibration of the CPU has four threads, of which there are two
\* here.
Calibrate ==
  SaveSettings \o SuspendAllUsb \o RfkillAll \o LowerBacklight \o Write(<<Wifi>>, "1")
  \o IdleCalibration \o DiskCalibration \o BacklightCalibration
  \o Write(<<PowerSave>>, "1")
  \o Burning("cpu_1", 1) \o Burning("cpu_4", 2)
  \o Burning("wakeup_10000", 1) \o Burning("wakeup_100000", 1) \o Burning("wakeup_1000000", 1)
  \o Write(<<Wifi>>, "0") \o UsbCalibration \o RfkillCalibration \o RestoreSettings
-----------------------------------------------------------------------------
SetFiles(files, value) == settings' = [f \in Files |-> IF f \in files THEN value ELSE settings[f]]

\* The state of the display is not among what is saved.
SavedFiles == Files \ {Dpms}

RestoreAllSysfs == settings' = [f \in Files |-> IF f \in DOMAIN saved_sysfs THEN saved_sysfs[f] ELSE settings[f]]

\* burn_disk returns at once when it gets no temporary file.
CreateBurners(step, k) ==
  /\ stop_measurement' = FALSE
  /\ \/ burners' = burners \cup {[step |-> step, n |-> i] : i \in 1..k}
     \/ step = "disk" /\ k > 0 /\ UNCHANGED burners

\* burn_cpu, burn_cpu_wakeups and burn_disk end when they see the flag.
BurnerEnds ==
  /\ stop_measurement
  /\ \E b \in burners : burners' = burners \ {b}

\* What is left of a calibration whose threads could not all be created: it
\* returns without measuring and without stopping the others.
AfterStop(todo, step) ==
  SubSeq(todo, SelectInSeq(todo, LAMBDA o : o.op = "stop_burning" /\ o.step = step) + 1, Len(todo))

CalibrationInit ==
  /\ settings = Original /\ saved_sysfs = [f \in {} |-> ""]
  /\ stop_measurement = FALSE /\ burners = {}
================================================================================
