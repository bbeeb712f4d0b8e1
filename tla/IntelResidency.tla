----------------------------- MODULE IntelResidency -----------------------------
(***************************************************************************)
(* Residency of Intel cores and packages, the average frequency of their   *)
(* CPUs (src/src/cpu/intel_cpus.cpp) and the residency of Intel graphics   *)
(* (intel_gpu.cpp, xe_gpu.cpp).  A handler reads all its registers at one  *)
(* moment.  Of each family of models that its code tells apart there is    *)
(* one; the package is the first, whose number is also that of a CPU.      *)
(***************************************************************************)
EXTENDS TestFramework

Models == {"nehalem", "haswell_ult", "baytrail_t", "baytrail_m", "braswell"}
Baytrail == {"baytrail_t", "baytrail_m"}

Tsc == <<"M", "tsc">>
TheTime == <<"T", "now">>

\* nhm_core: the states a core of the model has a counter of.
CoreStates(model) ==
  {"c6"}
    \cup (IF model = "haswell_ult" THEN {"c7"} ELSE {})
    \cup (IF model \in Baytrail \cup {"braswell"} THEN {"c1"} ELSE {"c3"})

\* nhm_package: a Baytrail with the AHCI controller is the one without C7.
PackageStates(model) ==
  {"c6"}
    \cup (IF model \in Baytrail \cup {"haswell_ult"} THEN {"c2"} ELSE {})
    \cup (IF model = "braswell" THEN {} ELSE {"c3"})
    \cup (IF model \in {"haswell_ult", "baytrail_t"} THEN {"c7"} ELSE {})
    \cup (IF model = "haswell_ult" THEN {"c8", "c9", "c10"} ELSE {})

StatesOf(unit, model) == IF unit = "core" THEN CoreStates(model) ELSE PackageStates(model)

\* The register of C7 is that of C6 on a Braswell package.
Register(unit, model, state) ==
  <<"M", IF unit = "package" /\ model = "braswell" /\ state = "c6" THEN "c7" ELSE state>>

UnitReads(unit, model) ==
  Once({Tsc, TheTime} \cup {Register(unit, model, s) : s \in StatesOf(unit, model)})

Counters(unit, model, got) ==
  [s \in StatesOf(unit, model) |-> got[Register(unit, model, s)]]

NewUnit == [before |-> [s \in {} |-> 0], tsc_before |-> 0, stamp_before |-> 0,
            durations |-> [s \in {} |-> 0], time_factor |-> 0]

UnitStarted(unit, model, got) ==
  [NewUnit EXCEPT !.before = Counters(unit, model, got),
                  !.tsc_before = got[Tsc], !.stamp_before = got[TheTime]]

\* Counters run with the time stamp counter: they are scaled to the time.
UnitEnded(unit, model, d, got) ==
  LET time == got[TheTime] - d.stamp_before
      tsc  == got[Tsc] - d.tsc_before
      after == Counters(unit, model, got)
  IN [d EXCEPT !.time_factor = time,
               !.durations = [s \in DOMAIN after |->
                  IF tsc = 0 THEN 0 ELSE (time * (after[s] - d.before[s])) \div tsc]]

Residencies(d) ==
  [s \in DOMAIN d.durations |->
     IF d.time_factor = 0 THEN 0 ELSE (100 * d.durations[s]) \div d.time_factor]

\* get_msr ends powertop when a register cannot be read.
EndsPowertop(reads) == \E k \in DOMAIN reads : k[1] = "M" /\ MsrReturned(k, 1) < 0

Aperf == <<"M", "aperf">>
Mperf == <<"M", "mperf">>
CpuReads == Once({Aperf, Mperf, Tsc, TheTime})
NewCpu == [before |-> [k \in {} |-> 0], after |-> [k \in {} |-> 0]]
CpuStarted(got) == [NewCpu EXCEPT !.before = got]
CpuEnded(d, got) == [d EXCEPT !.after = got]

\* nhm_cpu::avg_freq_mhz: a CPU that did not run falls back to its P-states.
AvgFreq(d, fallback) ==
  LET delta(k) == d.after[k] - d.before[k]
  IN IF delta(Mperf) <= 0 \/ delta(TheTime) < 1 THEN fallback
     ELSE (delta(Tsc) * delta(Aperf)) \div (delta(Mperf) * delta(TheTime))

\* i965_core: milliseconds in three states; a tick of the clock is a millisecond.
Rc6States == {"rc6", "rc6p", "rc6pp"}
Rc6Reads == Once({TheTime} \cup {<<"R", s>> : s \in Rc6States})
Milliseconds(names, got) == [s \in names |-> ReadUint64(got[<<"R", s>>])]
NewGpu(names) ==
  [before |-> [s \in names |-> 0], after |-> [s \in names |-> 0], began |-> 0, ended |-> 0]
GpuStarted(d, names, got) ==
  [d EXCEPT !.before = Milliseconds(names, got), !.began = got[TheTime]]
GpuEnded(d, names, got) ==
  [d EXCEPT !.after = Milliseconds(names, got), !.ended = got[TheTime]]

Clamped(d) == IF d < 0 THEN 0 ELSE IF d > 100 THEN 100 ELSE d

GpuShare(d, ms) == (100 * ms) \div (d.ended - d.began)

\* i965_core::fill_cstate_line: "on" is what the states leave.
Rc6Lines(d) ==
  LET ms(s) == d.after[s] - d.before[s]
  IN IF d.ended = d.began THEN [s \in {} |-> 0]
     ELSE [s \in Rc6States \cup {"on"} |->
             IF s = "on" THEN Clamped(100 - GpuShare(d, ms("rc6") + ms("rc6p") + ms("rc6pp")))
             ELSE Clamped(GpuShare(d, ms(s)))]

\* xe_core: the idle time of each graphics unit of a card.
Gts == {"gt0", "gt1"}
XeReads == Once({TheTime} \cup {<<"R", g>> : g \in Gts})

\* A measurement without time leaves what was shown before.
XeBusy(d, busy) ==
  IF d.ended = d.began THEN busy
  ELSE [g \in Gts |->
          Clamped(100 - (IF d.after[g] >= d.before[g]
                         THEN GpuShare(d, d.after[g] - d.before[g]) ELSE 0))]
=============================================================================
