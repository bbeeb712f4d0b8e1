----------------------------- MODULE BluetoothIdle -----------------------------
(***************************************************************************)
(* When bt_tunable (src/src/tuning/bluetooth.cpp) calls an interface idle: *)
(* two snapshots of its byte counter, the younger replaced at most once a  *)
(* minute by the current reading and kept as the older one.                *)
(***************************************************************************)
EXTENDS Integers, Sequences

CONSTANTS
  Minute,       \* 60 seconds, in ticks of the clock
  HalfRange,    \* 2^31: from here on the sum of the counters is negative as an int
  MaxBytes,     \* bound on the traffic
  MaxClock      \* bound on the clock

ASSUME WrapAssumption ==
  /\ Minute \in Nat /\ HalfRange \in Nat /\ MaxBytes \in Nat
  /\ MaxBytes < 2 * HalfRange

VARIABLES
  clock,        \* time()
  bytes,        \* received and sent; the kernel's counters never go back
  last_traffic, \* history: when the last byte went over the air
  snap          \* snap_bytes and snap_time of the tunable, youngest first

bluetoothVars == <<clock, bytes, last_traffic, snap>>

NoSnaps == [bytes |-> <<-1, -1>>, time |-> <<0, 0>>]

ThisBytes == IF bytes < HalfRange THEN bytes ELSE bytes - 2 * HalfRange

\* mutant: each reading is promoted, however young the last one is.
Snapped_EachReading(s) ==
  IF s.bytes[1] < 0
  THEN [bytes |-> <<ThisBytes, s.bytes[2]>>, time |-> <<clock, s.time[2]>>]
  ELSE [bytes |-> <<ThisBytes, s.bytes[1]>>, time |-> <<clock, s.time[1]>>]

\* What a call of good_bad leaves of the snapshots s while the interface is up.
Snapped(s) ==
  IF s.bytes[1] < 0
  THEN [bytes |-> <<ThisBytes, s.bytes[2]>>, time |-> <<clock, s.time[2]>>]
  ELSE IF clock - s.time[1] >= Minute
       THEN [bytes |-> <<ThisBytes, s.bytes[1]>>, time |-> <<clock, s.time[1]>>]
       ELSE s

\* good_bad of an interface that is up is TUNE_BAD.
SeemsIdle(s) ==
  LET older == Snapped(s).bytes[2]
  IN s.bytes[1] >= 0 /\ older >= 0 /\ ThisBytes = older

TimePasses ==
  /\ clock < MaxClock /\ clock' = clock + 1
  /\ UNCHANGED <<bytes, last_traffic, snap>>

Traffic ==
  /\ bytes < MaxBytes /\ bytes' = bytes + 1
  /\ last_traffic' = clock
  /\ UNCHANGED <<clock, snap>>
=============================================================================
