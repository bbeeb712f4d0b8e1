------------------------------ MODULE DevfreqStates ------------------------------
(***************************************************************************)
(* Devices with a frequency of their own (src/src/devices/devfreq.cpp).    *)
(* What the kernel says of one is a sequence of <<frequency, time>>, the   *)
(* time in milliseconds; a tick of the clock is a millisecond.             *)
(***************************************************************************)
EXTENDS TestFramework

CONSTANTS
  Wide          \* an unsigned difference of times is taken modulo Wide

TransStat == <<"R", "trans_stat">>
Idle == 0        \* the frequency that stands for the rest of the time

NewDevfreq == [dstates |-> <<>>, stamp_before |-> 0, sample_time |-> 0]

AddState(dstates, freq, time) ==
  Append(dstates, [freq |-> freq, time_before |-> time, time_after |-> 0])

\* The first time a frequency is seen its time is that before the measurement,
\* later it is that after.
UpdateState(dstates, freq, time) ==
  IF \E i \in DOMAIN dstates : dstates[i].freq = freq
  THEN LET i == SelectInSeq(dstates, LAMBDA s : s.freq = freq)
       IN [dstates EXCEPT ![i].time_after = time]
  ELSE AddState(dstates, freq, time)

ParseTransStat(dstates, content) ==
  IF content = Absent THEN dstates
  ELSE FoldLeft(LAMBDA states, line :
                  IF line[1] = 0 THEN states ELSE UpdateState(states, line[1], line[2]),
                dstates, content)

DevfreqStarted(got) ==
  [dstates |-> UpdateState(ParseTransStat(<<>>, got[TransStat]), Idle, 0),
   stamp_before |-> got[<<"T", "now">>], sample_time |-> 0]

\* mutant: the time at the other frequencies is not taken from that of the last state.
ProcessTimeStamps_IdleIsAll(dstates, sample) ==
  [i \in DOMAIN dstates |->
     [dstates[i] EXCEPT !.time_after =
        IF i = Len(dstates) THEN sample ELSE (@ - dstates[i].time_before) % Wide]]

\* The last state gets what the others leave of the measurement.
ProcessTimeStamps(dstates, sample) ==
  LET spent(i) == (dstates[i].time_after - dstates[i].time_before) % Wide
      others == FoldLeft(LAMBDA sum, i : sum + spent(i), 0, [i \in 1..(Len(dstates) - 1) |-> i])
  IN [i \in DOMAIN dstates |->
        [dstates[i] EXCEPT !.time_after =
           IF i < Len(dstates) THEN spent(i) ELSE IF sample > others THEN sample - others ELSE 0]]

DevfreqEnded(d, got) ==
  LET parsed == ParseTransStat(d.dstates, got[TransStat])
      sample == got[<<"T", "now">>] - d.stamp_before
  IN [d EXCEPT !.dstates = ProcessTimeStamps(parsed, sample), !.sample_time = sample]

\* What the tab shows of each state: a share of the measurement.
FillFreqUtilization(d) ==
  IF d.sample_time = 0 THEN <<>>
  ELSE [i \in DOMAIN d.dstates |->
          [freq |-> d.dstates[i].freq, share |-> (100 * d.dstates[i].time_after) \div d.sample_time]]
=============================================================================
