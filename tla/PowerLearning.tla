----------------------------- MODULE PowerLearning -----------------------------
(***************************************************************************)
(* A run of the program (src/src/main.cpp) as far as power is measured,    *)
(* stored and learned from: what main() does one after the other is a      *)
(* sequence of operations, and a measurement with its threads goes through *)
(* the meters of PowerMeters.  The machine may stop at any time; what it   *)
(* finds in the two files is all that is left to the next run.             *)
(***************************************************************************)
EXTENDS PowerMeters, ResultBundles, Calibration

CONSTANTS
  Plans,        \* of Report, Interactive and Calibrating, those to be checked
  LaterPlans,   \* bound: those to be checked when there are files to load
  MaxStarts     \* bound on the runs that share their files

VARIABLES
  at,           \* where the main thread is
  todo,         \* the operations that are left
  left,         \* seconds of the measurement that are left
  starts        \* runs since the files were made

mainVars == <<at, todo, left>>
vars == <<mainVars, starts, now, turn, meterVars, energyVars, extechVars, backgroundVars,
          resultVars, parameterVars, fileVars, calibrationVars>>

SaveResults == <<[op |-> "save_results"]>>
SaveParameters == <<[op |-> "save_parameters"]>>

\* make_report, with a workload or without
Report(kind) ==
  Measurement(1, 1, "plain") \o Measurement(Long, 1, kind) \o SaveResults \o SaveParameters

Interactive ==
  SaveParameters \o Measurement(1, 1, "display") \o <<[op |-> "loop"]>> \o SaveResults \o SaveParameters

Calibrating == Calibrate \o SaveParameters \o SaveResults

ASSUME PlansAssumption ==
  Plans \cup LaterPlans \subseteq {Report("plain"), Report("workload"), Interactive, Calibrating}

Init ==
  /\ MetersInit /\ ResultsInit /\ CalibrationInit
  /\ at = "off" /\ todo = <<>> /\ left = 0 /\ starts = 0

Running(op) == at = "next" /\ todo # <<>> /\ Head(todo).op = op
Done == todo' = Tail(todo) /\ UNCHANGED <<at, left>>

meters == <<now, turn, meterVars, energyVars, extechVars, backgroundVars>>
results == <<resultVars, parameterVars, fileVars>>
-----------------------------------------------------------------------------
(***************************************************************************)
(* Start, end and loss of the program.                                     *)
(***************************************************************************)
\* powertop_init: the files are loaded, then parameters are registered.
PowertopInit ==
  /\ at = "off" /\ at' = "next"
  /\ starts < MaxStarts /\ starts' = starts + 1
  /\ todo' \in IF parameters_file = <<>> THEN Plans ELSE LaterPlans
  /\ past_results' = LoadResults(results_file)
  /\ LET table == RegisterFixed(LoadParameters(parameters_file))
     IN param_index' = table.names /\ slots' = table.slots
  /\ UNCHANGED <<left, measurement_time, fileVars, meters, calibrationVars>>

NewResult == [power |-> PowerNow, values |-> Utilizations]

\* What is in memory is gone; the machine starts with its settings.
ForgetAll ==
  /\ at' = "off" /\ todo' = <<>> /\ left' = 0 /\ UNCHANGED starts
  /\ past_results' = <<>> /\ measurement_time' = 0 /\ param_index' = <<>> /\ slots' = 0
  /\ now' = 0 /\ turn' = 0
  /\ rate' = [m \in Meters |-> 0] /\ discharging' = {}
  /\ results_power' = 0 /\ sampled' = 0 /\ tlast' = 0 /\ tnow' = [t \in Threads |-> 0]
  /\ thread_started' = FALSE /\ end_sampling' = FALSE /\ samples' = <<>> /\ sampler' = NoSampler
  /\ background' = "none" /\ end_thread' = FALSE
  /\ settings' = Original /\ saved_sysfs' = [f \in {} |-> ""]
  /\ stop_measurement' = FALSE /\ burners' = {}

RemoveFiles ==
  /\ at = "off" /\ starts > 0 /\ starts' = 0
  /\ results_file' = <<>> /\ parameters_file' = <<>> /\ saved' = <<>>
  /\ UNCHANGED <<mainVars, meters, resultVars, parameterVars, calibrationVars>>

Exit == at = "next" /\ todo = <<>> /\ ForgetAll /\ UNCHANGED fileVars

Crash == at # "off" /\ todo # <<>> /\ ForgetAll /\ UNCHANGED fileVars

CrashWhileSaving ==
  /\ ForgetAll
  /\ \/ /\ Running("save_results")
        /\ CutResults(past_results)
        /\ UNCHANGED parameters_file
     \/ /\ Running("save_parameters")
        /\ parameters_file' \in CutFiles(ParameterLines(param_index))
        /\ UNCHANGED <<results_file, saved>>
     \/ /\ at = "store" /\ MIN_DURATION <= now
        /\ PowerNow > 0
        /\ \E stored \in Stored(past_results, NewResult) :
             Len(stored) % SAVE_EVERY = 0 /\ CutResults(stored)
        /\ UNCHANGED parameters_file

SavesResults ==
  /\ Running("save_results") /\ Done
  /\ SaveAllResults(past_results)
  /\ UNCHANGED <<parameters_file, resultVars, parameterVars, meters, calibrationVars>>

SavesParameters ==
  /\ Running("save_parameters") /\ Done
  /\ parameters_file' = ParameterLines(param_index)
  /\ UNCHANGED <<results_file, saved, resultVars, parameterVars, meters, calibrationVars>>

\* One more measurement, or leave_powertop.
MainLoop ==
  /\ Running("loop")
  /\ todo' \in {Measurement(Long, 1, "display") \o todo, Tail(todo)}
  /\ UNCHANGED <<at, left, results, meters, calibrationVars>>
-----------------------------------------------------------------------------
(***************************************************************************)
(* one_measurement                                                         *)
(***************************************************************************)
\* USB devices are created first; the background thread may not be created.
StartMeasurement ==
  /\ Running("measure")
  /\ \E usb \in SUBSET HotPlug :
       LET table == RegisterAll([names |-> param_index, slots |-> slots], SetToSeq(usb))
       IN param_index' = table.names /\ slots' = table.slots
  /\ StartPowerMeasurement
  /\ UNCHANGED <<todo, resultVars, fileVars, calibrationVars>>
  /\ IF Head(todo).kind = "workload"
     THEN at' = "workload" /\ left' = 0 /\ end_thread' = FALSE /\ background' \in {"check", "none"}
     ELSE at' = "sleep" /\ left' = Head(todo).seconds /\ UNCHANGED backgroundVars

\* do_sleep; in the display, a key may end it.
MainSleeps ==
  /\ at = "sleep" /\ at' = "clock"
  /\ LET whole == IF left < Head(todo).interval THEN left ELSE Head(todo).interval
     IN \E seconds \in IF Head(todo).kind = "display" THEN 0..whole ELSE {whole} : now' = now + seconds
  /\ left' = left - Head(todo).interval
  /\ UNCHANGED <<todo, turn, meterVars, energyVars, extechVars, backgroundVars, results, calibrationVars>>

TimePasses ==
  /\ at \in {"workload", "join"} /\ now < MaxTime /\ now' = now + 1
  /\ UNCHANGED <<mainVars, starts, turn, meterVars, energyVars, extechVars, backgroundVars, results,
                 calibrationVars>>

WorkloadEnds ==
  /\ at = "workload" /\ at' = "join"
  /\ end_thread' = (background # "none")
  /\ UNCHANGED <<todo, left, now, turn, meterVars, energyVars, extechVars, background, results, calibrationVars>>

\* mutant: the last sample does not wait for the thread.
Joinable_Any == at = "join"

Joinable == at = "join" /\ background \in {"none", "done"}

JoinBackground ==
  /\ Joinable /\ at' = "clock"
  /\ background' = IF background = "done" THEN "none" ELSE background
  /\ UNCHANGED <<todo, left, now, turn, meterVars, energyVars, extechVars, end_thread, results, calibrationVars>>

\* global_sample_power in the main thread
MainSamples ==
  /\ UNCHANGED <<todo, left, now, turn, meterVars, extechVars, backgroundVars, results, calibrationVars>>
  /\ \/ at = "clock" /\ at' = "energy" /\ ReadClock("main") /\ UNCHANGED <<results_power, sampled, tlast>>
     \/ at = "energy" /\ at' = "last" /\ AddEnergy("main")
     \/ at = "last" /\ at' = (IF left > 0 THEN "sleep" ELSE "end") /\ SetLast("main")

\* end_power_measurement: the Extech was found first.
EndExtech ==
  /\ \/ at = "end" /\ at' = "extech" /\ StopSampling /\ UNCHANGED meterVars
     \/ at = "extech" /\ at' = "batteries" /\ JoinSampler
  /\ UNCHANGED <<todo, left, now, turn, energyVars, backgroundVars, results, calibrationVars>>

EndBatteries ==
  /\ at = "batteries" /\ at' = "store" /\ MeasureBatteries
  /\ UNCHANGED <<todo, left, now, turn, energyVars, extechVars, backgroundVars, results, calibrationVars>>

\* The trace was processed, if there was one; store_results.
StoreResults ==
  /\ at = "store" /\ at' = "next" /\ todo' = Tail(todo) /\ left' = 0
  /\ measurement_time' \in {measurement_time, now}
  /\ GlobalPower
  /\ IF measurement_time' < MIN_DURATION \/ results_power' = 0
     THEN UNCHANGED <<past_results, fileVars>>
     ELSE /\ past_results' \in Stored(past_results, NewResult)
          /\ IF Len(past_results') % SAVE_EVERY = 0
             THEN SaveAllResults(past_results') /\ UNCHANGED parameters_file
             ELSE UNCHANGED fileVars
  /\ UNCHANGED <<sampled, tlast, tnow, now, turn, meterVars, extechVars, backgroundVars,
                 parameterVars, calibrationVars>>
-----------------------------------------------------------------------------
(***************************************************************************)
(* The operations of a calibration.                                        *)
(***************************************************************************)
ChangeSettings ==
  /\ \/ Running("save_settings") /\ saved_sysfs' = [f \in SavedFiles |-> settings[f]] /\ UNCHANGED settings
     \/ Running("write") /\ SetFiles(Head(todo).files, Head(todo).value) /\ UNCHANGED saved_sysfs
     \/ Running("restore_settings") /\ RestoreAllSysfs /\ UNCHANGED saved_sysfs
  /\ Done
  /\ UNCHANGED <<stop_measurement, burners, results, meters>>

StartBurners ==
  /\ Running("burn") /\ UNCHANGED <<at, left, settings, saved_sysfs, results, meters>>
  /\ \E k \in 0..Head(todo).n :
       /\ CreateBurners(Head(todo).step, k)
       /\ todo' = IF k = Head(todo).n THEN Tail(todo) ELSE AfterStop(todo, Head(todo).step)

\* The flag is set, and the threads of this step are joined.
StopBurners ==
  /\ Running("stop_burning") /\ UNCHANGED <<at, left, settings, saved_sysfs, burners, results, meters>>
  /\ \/ ~stop_measurement /\ stop_measurement' = TRUE /\ UNCHANGED todo
     \/ /\ stop_measurement /\ \A b \in burners : b.step # Head(todo).step
        /\ todo' = Tail(todo) /\ UNCHANGED stop_measurement
-----------------------------------------------------------------------------
MainStep ==
  /\ UNCHANGED starts
  /\ \/ SavesResults \/ SavesParameters \/ MainLoop
     \/ StartMeasurement \/ MainSleeps \/ WorkloadEnds \/ JoinBackground \/ MainSamples
     \/ EndExtech \/ EndBatteries \/ StoreResults
     \/ ChangeSettings \/ StartBurners \/ StopBurners

SamplerStep ==
  /\ SamplerChecks \/ SamplerReads
  /\ UNCHANGED <<mainVars, starts, now, turn, meterVars, energyVars, backgroundVars, results, calibrationVars>>

BackgroundStep ==
  /\ BackgroundChecks \/ BackgroundWakes \/ BackgroundSamples
  /\ UNCHANGED <<mainVars, starts, now, turn, meterVars, extechVars, results, calibrationVars>>

BurnerStep ==
  /\ BurnerEnds
  /\ UNCHANGED <<mainVars, starts, results, meters, settings, saved_sysfs, stop_measurement>>

Next ==
  \/ PowertopInit \/ RemoveFiles
  \/ Exit \/ Crash \/ CrashWhileSaving
  \/ MainStep \/ SamplerStep \/ BackgroundStep \/ BurnerStep \/ TimePasses

\* Threads go on, sleeps and reads have timeouts, and the workload ends.
Fairness ==
  /\ WF_vars(MainStep) /\ WF_vars(SamplerStep) /\ WF_vars(BackgroundStep) /\ WF_vars(BurnerStep)

Spec == Init /\ [][Next]_vars /\ Fairness
-----------------------------------------------------------------------------
(***************************************************************************)
(* When a measurement ends, the time from its start to the last sample has *)
(* been counted into joules once, although two threads sample and tlast is *)
(* not protected.                                                          *)
(***************************************************************************)
TimeSampledOnce == at \in {"end", "extech", "batteries", "store"} => sampled = tnow["main"]

(***************************************************************************)
(* A measurement sees its own threads only: no sample that was asked for   *)
(* in an earlier measurement gets into the mean of the Extech, and in a    *)
(* calibration, the threads that were created for the step at hand load    *)
(* the machine until the measurement is over (but that of the disk, which  *)
(* may have found no file to write).  The threads of other steps are over, *)
(* but for those of the calibration of the CPU with several threads, when  *)
(* it returned since the last of them could not be created                 *)
(* (calibrate.cpp:236-239): these may load the machine in every later      *)
(* measurement.                                                            *)
(***************************************************************************)
Measuring == at \notin {"off", "next"}

StepOfMeasurement ==
  LET rest == Tail(todo) IN IF rest # <<>> /\ Head(rest).op = "stop_burning" THEN {Head(rest).step} ELSE {}

LeftBehind(b) == b.step = "cpu_4" /\ b.n # 2

OwnThreadsOnly ==
  /\ \A s \in ToSet(samples) : s.turn = turn
  /\ Measuring =>
       /\ \A step \in StepOfMeasurement \ {"disk"} :
            ~stop_measurement /\ \E b \in burners : b.step = step
       /\ \A b \in burners : b.step \in StepOfMeasurement \/ LeftBehind(b)

(***************************************************************************)
(* Every measurement ends: neither of the joins waits for a thread that    *)
(* was not told to end.                                                    *)
(***************************************************************************)
MeasurementEnds == Measuring ~> ~Measuring

(***************************************************************************)
(* What a start of the program loads is what the last save began to write, *)
(* whole records in their order, of which the last may lack values (a line *)
(* that was cut to one or two characters looks like the end of a record);  *)
(* all of them if that save was finished.                                  *)
(***************************************************************************)
LoadsWhatWasSaved ==
  [][PowertopInit =>
       /\ Len(past_results') <= Len(saved)
       /\ \A i \in DOMAIN past_results' :
            /\ past_results'[i].power = saved[i].power
            /\ i < Len(past_results') => past_results'[i] = saved[i]
       /\ results_file = ResultLines(saved) => past_results' = saved]_vars

(***************************************************************************)
(* save_parameters and the devices use the index of any name without       *)
(* asking for the length of the vector.  No name is without its slot,      *)
(* whatever was loaded and plugged in before.                              *)
(***************************************************************************)
NamesHaveSlots == at # "off" => Len(param_index) + 1 < slots

(***************************************************************************)
(* When a calibration is over every setting is what it was before.         *)
(***************************************************************************)
SettingsRestored ==
  (\A i \in DOMAIN todo : todo[i].op \in {"save_results", "save_parameters"})
    => \A f \in SavedFiles : settings[f] = Original[f]
================================================================================
