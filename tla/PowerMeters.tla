------------------------------ MODULE PowerMeters ------------------------------
(***************************************************************************)
(* The power meters (src/src/measurement/) and the threads of a            *)
(* measurement.  Batteries are read once, at the end of a measurement.  An *)
(* Extech analyser is read by a thread of its own as long as a measurement *)
(* lasts.  global_sample_power() adds to joules the power known by then    *)
(* times the time since tlast; with a workload, a background thread and    *)
(* the main thread both call it.                                           *)
(*                                                                         *)
(* Of joules there is only the time that it accounts for, sampled.  Of the *)
(* samples of the Extech there is the sequence that sum and samples add    *)
(* up, each with the turn (the parity of the measurement) in which the     *)
(* device was asked for it.                                                *)
(***************************************************************************)
EXTENDS Integers, Sequences, FiniteSets, FiniteSetsExt, SequencesExt

CONSTANTS
  Batteries,
  Readings,     \* of a battery: [present, discharging, power, current, voltage]
  NoValue,      \* an attribute that a battery does not have
  ExtechWatts,  \* what extech_read returns: negative is an error
  MaxSamples,   \* bound on the samples of the Extech in one measurement
  MaxTime       \* bound on the time of one measurement

VARIABLES
  rate,           \* [meter -> power]
  discharging,    \* the batteries that were discharging when last read
  results_power,  \* all_results.power
  sampled, tlast, \* see above
  now,
  tnow,           \* [thread -> tnow of its global_sample_power]
  turn,
  thread_started, end_sampling, samples, \* of the Extech
  sampler,        \* its thread: [at, turn]
  background,     \* where measure_background_thread is
  end_thread      \* and what tells it to end

meterVars == <<rate, discharging>>
energyVars == <<results_power, sampled, tlast, tnow>>
extechVars == <<thread_started, end_sampling, samples, sampler>>
backgroundVars == <<background, end_thread>>

Extech == "extech"
Meters == Batteries \cup {Extech}
Threads == {"main", "background"}
NoSampler == [at |-> "none", turn |-> 0]

TotalPower == MapThenSumSet(LAMBDA m : rate[m], Meters)

\* global_power: without a battery that discharges, the power of before stays.
PowerNow == IF discharging = {} THEN results_power ELSE TotalPower
GlobalPower == results_power' = PowerNow

Magnitude(n) == IF n < 0 THEN -n ELSE n

\* sysfs_power_meter::measure: power_now, or else current_now and voltage_now.
MeasuredRate(r) ==
  CASE ~r.present -> 0
    [] r.present /\ r.power # NoValue -> Magnitude(r.power)
    [] r.present /\ r.power = NoValue /\ r.voltage # NoValue /\ r.current # NoValue ->
         Magnitude(r.current) * r.voltage
    [] OTHER -> 0
-----------------------------------------------------------------------------
(***************************************************************************)
(* The energy.                                                             *)
(***************************************************************************)
ReadClock(thread) == tnow' = [tnow EXCEPT ![thread] = now]

AddEnergy(thread) ==
  /\ GlobalPower
  /\ sampled' = sampled + (tnow[thread] - tlast)
  /\ UNCHANGED <<tlast, tnow>>

SetLast(thread) == tlast' = tnow[thread] /\ UNCHANGED <<results_power, sampled, tnow>>
-----------------------------------------------------------------------------
(***************************************************************************)
(* The sampling thread of the Extech.                                      *)
(***************************************************************************)
SamplerChecks ==
  /\ sampler.at = "check"
  /\ sampler' = IF end_sampling THEN [sampler EXCEPT !.at = "done"]
                                ELSE [at |-> "asked", turn |-> turn]
  /\ UNCHANGED <<thread_started, end_sampling, samples>>

\* After 0.2 s the device is asked and read for at most 0.5 s.
SamplerReads ==
  /\ sampler.at = "asked"
  /\ \E watts \in ExtechWatts :
       samples' = IF watts < 0 THEN samples
                  ELSE Append(samples, [watts |-> watts, turn |-> sampler.turn])
  /\ Len(samples') <= MaxSamples
  /\ sampler' = [sampler EXCEPT !.at = "check"]
  /\ UNCHANGED <<thread_started, end_sampling>>

\* The thread may not be created.
StartSampling ==
  /\ end_sampling' = FALSE /\ samples' = <<>>
  /\ \/ sampler' = [at |-> "check", turn |-> 1 - turn] /\ thread_started' = TRUE
     \/ UNCHANGED <<sampler, thread_started>>

\* mutant: the thread is not told to end.
StopSampling_Forgets == UNCHANGED <<end_sampling, thread_started, samples, sampler>>

StopSampling == end_sampling' = TRUE /\ UNCHANGED <<thread_started, samples, sampler>>

MeanRate == FoldLeft(LAMBDA sum, s : sum + s.watts, 0, samples) \div Len(samples)

\* The rate without samples: one reading is taken; an error keeps the old rate.
FallbackRate == {IF watts < 0 THEN rate[Extech] ELSE watts : watts \in ExtechWatts}

\* mutant: the thread is not joined.
JoinSampler_Detaches ==
  /\ thread_started' = FALSE
  /\ rate' \in {[rate EXCEPT ![Extech] = r] : r \in IF samples # <<>> THEN {MeanRate} ELSE FallbackRate}
  /\ UNCHANGED <<discharging, end_sampling, samples, sampler>>

JoinSampler ==
  /\ thread_started => sampler.at = "done"
  /\ thread_started' = FALSE
  /\ sampler' = NoSampler
  /\ rate' \in {[rate EXCEPT ![Extech] = r] : r \in IF samples # <<>> THEN {MeanRate} ELSE FallbackRate}
  /\ UNCHANGED <<discharging, end_sampling, samples>>
-----------------------------------------------------------------------------
(***************************************************************************)
(* Start and end.                                                          *)
(***************************************************************************)
StartPowerMeasurement ==
  /\ now' = 0 /\ tlast' = 0 /\ sampled' = 0
  /\ tnow' = [t \in Threads |-> 0]
  /\ turn' = 1 - turn
  /\ StartSampling
  /\ UNCHANGED <<results_power, meterVars>>

\* The batteries, which are listed after the Extech.
MeasureBatteries ==
  \E reading \in [Batteries -> Readings] :
    /\ rate' = [m \in Meters |-> IF m \in Batteries THEN MeasuredRate(reading[m]) ELSE rate[m]]
    /\ discharging' = {b \in Batteries : reading[b].present /\ reading[b].discharging}
-----------------------------------------------------------------------------
(***************************************************************************)
(* measure_background_thread.                                              *)
(***************************************************************************)
BackgroundChecks ==
  /\ background = "check"
  /\ background' = IF end_thread THEN "done" ELSE "sleep"
  /\ UNCHANGED <<energyVars, end_thread>>

BackgroundWakes ==
  /\ background = "sleep" /\ background' = "energy"
  /\ ReadClock("background")
  /\ UNCHANGED <<results_power, sampled, tlast, end_thread>>

BackgroundSamples ==
  \/ /\ background = "energy" /\ background' = "last"
     /\ AddEnergy("background")
     /\ UNCHANGED end_thread
  \/ /\ background = "last" /\ background' = "check"
     /\ SetLast("background")
     /\ UNCHANGED end_thread

MetersInit ==
  /\ rate = [m \in Meters |-> 0] /\ discharging = {}
  /\ results_power = 0 /\ sampled = 0 /\ tlast = 0 /\ now = 0
  /\ tnow = [t \in Threads |-> 0]
  /\ turn = 0
  /\ thread_started = FALSE /\ end_sampling = FALSE /\ samples = <<>> /\ sampler = NoSampler
  /\ background = "none" /\ end_thread = FALSE
================================================================================
