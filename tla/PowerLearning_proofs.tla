-------------------------- MODULE PowerLearning_proofs --------------------------
(***************************************************************************)
(* Proofs for any meters, files and plans of the program: energy is added  *)
(* up once, measurements see their own threads, calibrations restore the   *)
(* settings they found, every name of a parameter has its slot, and what a *)
(* start of the program loads is what was being saved before.              *)
(***************************************************************************)
EXTENDS PowerLearning, Sums_proofs, SequenceTheorems, TLAPS

(***************************************************************************)
(* The operations of a plan.                                               *)
(***************************************************************************)
Simple(names) == [op : names]
AllFiles ==
  ToSet(Usb) \cup ToSet(Rfkill) \cup ToSet(Backlight) \cup ToSet(Scsi) \cup {PowerSave, Wifi, Dpms}

Values == {"0", "1", "25%", "50%", "75%", "100%", "on", "off", "auto", "min_power"}
Kinds == {"plain", "display", "workload"}
BurnSteps == {"disk", "cpu_1", "cpu_4", "wakeup_10000", "wakeup_100000", "wakeup_1000000"}

Writes == [op : {"write"}, files : SUBSET AllFiles, value : Values]
Measures == [op : {"measure"}, seconds : Int, interval : Int, kind : Kinds]
ThreadsOf(step) == IF step = "cpu_4" THEN 2 ELSE 1
Burns == {o \in [op : {"burn"}, step : BurnSteps, n : Nat] : o.n = ThreadsOf(o.step)}
Stops == [op : {"stop_burning"}, step : BurnSteps]

\* Operations outside of calibrations, in them, and in those of a device.
Plain == Simple({"save_results", "save_parameters", "loop"}) \cup Measures
Quiet == Writes \cup Measures
Middle == Quiet \cup Burns \cup Stops
Operations == Plain \cup Middle \cup Simple({"save_settings", "restore_settings"})

\* The operations that a flattened sequence is made of.
FlattenedUpTo(seqs, g, m) ==
  /\ g = [i \in 1..Len(seqs) |-> g[i]]
  /\ \A i \in 1..Len(seqs) : i <= m => g[i] = IF i = 1 THEN seqs[i] ELSE g[i-1] \o seqs[i]

IsFlattened(seqs, g) == g = [i \in 1..Len(seqs) |-> IF i = 1 THEN seqs[i] ELSE g[i-1] \o seqs[i]]

LEMMA FlattenIs ==
  ASSUME NEW seqs, Len(seqs) # 0
  PROVE  FlattenSeq(seqs) = (CHOOSE g : IsFlattened(seqs, g))[Len(seqs)]
BY DEF FlattenSeq, IsFlattened

LEMMA FlattenGrows ==
  ASSUME NEW seqs, Len(seqs) \in Nat, NEW m \in Nat, NEW g, FlattenedUpTo(seqs, g, m)
  PROVE  \E h : FlattenedUpTo(seqs, h, m + 1)
<1> DEFINE h == [i \in 1..Len(seqs) |->
                   IF i = m + 1 THEN IF i = 1 THEN seqs[i] ELSE g[i-1] \o seqs[i] ELSE g[i]]
<1>1. h = [i \in 1..Len(seqs) |-> h[i]]  OBVIOUS
<1>2. ASSUME NEW i \in 1..Len(seqs), i <= m + 1
      PROVE  h[i] = IF i = 1 THEN seqs[i] ELSE h[i-1] \o seqs[i]
  <2>1. i # 1 => i - 1 \in 1..Len(seqs) /\ i - 1 # m + 1  BY <1>2
  <2>2. i # 1 => h[i-1] = g[i-1]  BY <2>1
  <2>3. i # m + 1 => h[i] = g[i] /\ i <= m  BY <1>2
  <2>4. i <= m => g[i] = IF i = 1 THEN seqs[i] ELSE g[i-1] \o seqs[i]  BY DEF FlattenedUpTo
  <2>5. i = m + 1 => h[i] = IF i = 1 THEN seqs[i] ELSE g[i-1] \o seqs[i]  OBVIOUS
  <2> HIDE DEF h
  <2> QED  BY <2>2, <2>3, <2>4, <2>5
<1> HIDE DEF h
<1> QED  BY <1>1, <1>2 DEF FlattenedUpTo

LEMMA FlattenExists ==
  ASSUME NEW seqs, Len(seqs) \in Nat
  PROVE  \E g : IsFlattened(seqs, g)
<1> DEFINE A == {m \in Nat : \E g : FlattenedUpTo(seqs, g, m)}
<1>1. 0 \in A
  <2> DEFINE g == [i \in 1..Len(seqs) |-> <<>>]
  <2>1. g = [i \in 1..Len(seqs) |-> g[i]] /\ \A i \in 1..Len(seqs) : ~(i <= 0)  OBVIOUS
  <2> HIDE DEF g
  <2>2. FlattenedUpTo(seqs, g, 0)  BY <2>1 DEF FlattenedUpTo
  <2> QED  BY <2>2
<1>2. \A m \in Nat : m \in A => m + 1 \in A  BY FlattenGrows
<1>3. Len(seqs) \in A
  <2> HIDE DEF A
  <2> QED  BY <1>1, <1>2, Induction
<1>4. PICK g : FlattenedUpTo(seqs, g, Len(seqs))  BY <1>3
<1>5. g = [i \in 1..Len(seqs) |-> g[i]]  BY <1>4 DEF FlattenedUpTo
<1>6. \A i \in 1..Len(seqs) : g[i] = IF i = 1 THEN seqs[i] ELSE g[i-1] \o seqs[i]
  <2>1. \A i \in 1..Len(seqs) : i <= Len(seqs)  OBVIOUS
  <2> QED  BY <1>4, <2>1, Zenon DEF FlattenedUpTo
<1>7. g = [i \in 1..Len(seqs) |-> IF i = 1 THEN seqs[i] ELSE g[i-1] \o seqs[i]]
  BY <1>5, <1>6
<1> QED  BY <1>7, Zenon DEF IsFlattened

LEMMA FlattenType ==
  ASSUME NEW S, NEW seqs \in Seq(Seq(S))
  PROVE  FlattenSeq(seqs) \in Seq(S)
<1>1. CASE Len(seqs) = 0
  <2>1. seqs = <<>>  BY <1>1
  <2> QED  BY <1>1, <2>1 DEF FlattenSeq
<1>2. CASE Len(seqs) # 0
  <2> DEFINE n == Len(seqs)
  <2>1. n \in Nat /\ n # 0  BY <1>2
  <2>2. PICK g : IsFlattened(seqs, g) /\ FlattenSeq(seqs) = g[n]
    <3>1. \E g : IsFlattened(seqs, g)  BY <2>1, FlattenExists
    <3> QED  BY <1>2, <3>1, FlattenIs, Zenon
  <2>3. \A i \in 1..n : g[i] = IF i = 1 THEN seqs[i] ELSE g[i-1] \o seqs[i]
    BY <2>2, Zenon DEF IsFlattened
  <2> DEFINE A == {m \in Nat : m + 1 \in 1..n => g[m + 1] \in Seq(S)}
  <2>4. \A i \in 1..n : seqs[i] \in Seq(S)  OBVIOUS
  <2>5. 0 \in A  BY <2>1, <2>3, <2>4
  <2>6. ASSUME NEW m \in Nat, m \in A PROVE m + 1 \in A
    <3> SUFFICES ASSUME m + 2 \in 1..n PROVE g[m + 2] \in Seq(S)  OBVIOUS
    <3>1. g[m + 1] \in Seq(S)  BY <2>6
    <3>2. g[m + 2] = g[m + 1] \o seqs[m + 2]
      <4>1. m + 2 # 1 /\ (m + 2) - 1 = m + 1 /\ m + 2 \in 1..n  OBVIOUS
      <4> HIDE DEF n
      <4> QED  BY ONLY <2>3, <4>1
    <3> HIDE DEF n
    <3> QED  BY <2>4, <3>1, <3>2, ConcatProperties
  <2>7. n - 1 \in A
    <3>1. n - 1 \in Nat  BY <2>1
    <3> HIDE DEF A
    <3> QED  BY <2>5, <2>6, <3>1, Induction
  <2>8. g[n] \in Seq(S)  BY <2>1, <2>7
  <2> QED  BY <2>2, <2>8
<1> QED  BY <1>1, <1>2
-----------------------------------------------------------------------------
(***************************************************************************)
(* Plans.                                                                  *)
(***************************************************************************)

\* Threads are created, measured and stopped, one after the other.
Orderly(s) ==
  \A i \in 1..Len(s) :
    /\ s[i].op = "burn" =>
         /\ i + 2 \in 1..Len(s)
         /\ s[i+1].op = "measure"
         /\ s[i+2].op = "stop_burning" /\ s[i+2].step = s[i].step
    /\ s[i].op = "stop_burning" => i - 2 \in 1..Len(s) /\ s[i-2].op = "burn"

\* What comes before and after the settings are restored.
CloseAt(s, first, r) ==
  /\ r \in first..Len(s)
  /\ s[r].op = "restore_settings"
  /\ \A i \in first..(r - 1) : s[i] \in Middle
  /\ \A i \in (r + 1)..Len(s) : s[i] \in Plain

Unstarted(s) == s # <<>> /\ s[1].op = "save_settings" /\ \E r \in 2..Len(s) : CloseAt(s, 2, r)

Closing(s) == \E r \in 1..Len(s) : CloseAt(s, 1, r)

\* A part of a calibration, and its first parts.
Piece(s) == s \in Seq(Middle) /\ Orderly(s)

Begun(s) ==
  /\ s \in Seq(Operations) /\ s # <<>> /\ Orderly(s)
  /\ s[1].op = "save_settings"
  /\ \A i \in 2..Len(s) : s[i] \in Middle

LEMMA Ops ==
  /\ \A o \in Middle : o.op \in {"write", "measure", "burn", "stop_burning"}
  /\ \A o \in Plain : o.op \in {"save_results", "save_parameters", "loop", "measure"}
  /\ \A o \in Quiet : o.op \in {"write", "measure"}
  /\ \A o \in Operations : /\ o.op = "measure" => o \in Measures
                           /\ o.op = "burn" => o \in Burns
                           /\ o.op = "stop_burning" => o \in Stops
                           /\ o.op = "write" => o \in Writes
BY DEF Middle, Plain, Quiet, Operations, Simple, Writes, Measures, Burns, Stops

LEMMA OrderlyConcat ==
  ASSUME NEW S, NEW s \in Seq(S), NEW t \in Seq(S), Orderly(s), Orderly(t)
  PROVE  Orderly(s \o t)
<1> DEFINE u == s \o t
           m == Len(s)
           n == Len(t)
<1>1. /\ Len(u) = m + n /\ m \in Nat /\ n \in Nat
      /\ \A i \in 1..m : u[i] = s[i]
      /\ \A i \in 1..n : u[m + i] = t[i]
  OBVIOUS
<1>2. \A i \in 1..m : /\ s[i].op = "burn" =>
                           /\ i + 2 \in 1..m
                           /\ s[i+1].op = "measure"
                           /\ s[i+2].op = "stop_burning" /\ s[i+2].step = s[i].step
                      /\ s[i].op = "stop_burning" => i - 2 \in 1..m /\ s[i-2].op = "burn"
  BY DEF Orderly
<1>3. \A i \in 1..n : /\ t[i].op = "burn" =>
                           /\ i + 2 \in 1..n
                           /\ t[i+1].op = "measure"
                           /\ t[i+2].op = "stop_burning" /\ t[i+2].step = t[i].step
                      /\ t[i].op = "stop_burning" => i - 2 \in 1..n /\ t[i-2].op = "burn"
  BY DEF Orderly
<1> HIDE DEF u, m, n
<1>4. SUFFICES ASSUME NEW i \in 1..Len(u)
               PROVE  /\ u[i].op = "burn" =>
                           /\ i + 2 \in 1..Len(u)
                           /\ u[i+1].op = "measure"
                           /\ u[i+2].op = "stop_burning" /\ u[i+2].step = u[i].step
                      /\ u[i].op = "stop_burning" => i - 2 \in 1..Len(u) /\ u[i-2].op = "burn"
  BY DEF Orderly, u
<1>5. CASE i \in 1..m
  <2>1. u[i] = s[i]  BY <1>1, <1>5
  <2>2. i + 2 \in 1..m => u[i+1] = s[i+1] /\ u[i+2] = s[i+2]  BY <1>1, <1>5
  <2>3. i - 2 \in 1..m => u[i-2] = s[i-2]  BY <1>1, <1>5
  <2> QED  BY <1>1, <1>2, <1>5, <2>1, <2>2, <2>3
<1>6. CASE i \notin 1..m
  <2>1. PICK j \in 1..n : i = m + j
    <3>1. i - m \in 1..n /\ i = m + (i - m)  BY <1>1, <1>6
    <3> QED  BY <3>1
  <2>2. u[i] = t[j]  BY <1>1, <2>1
  <2>3. j + 2 \in 1..n => /\ u[i+1] = t[j+1] /\ u[i+2] = t[j+2]
                          /\ i + 2 \in 1..Len(u)
    <3>1. i + 1 = m + (j + 1) /\ i + 2 = m + (j + 2)  BY <1>1, <2>1
    <3>2. j + 2 \in 1..n => j + 1 \in 1..n /\ i + 2 \in 1..Len(u)  BY <1>1, <2>1
    <3>3. j + 1 \in 1..n => u[m + (j + 1)] = t[j + 1]  BY <1>1
    <3>4. j + 2 \in 1..n => u[m + (j + 2)] = t[j + 2]  BY <1>1
    <3> QED  BY <3>1, <3>2, <3>3, <3>4
  <2>4. j - 2 \in 1..n => u[i-2] = t[j-2] /\ i - 2 \in 1..Len(u)
    <3>1. i - 2 = m + (j - 2)  BY <1>1, <2>1
    <3> QED  BY <1>1, <3>1
  <2>5. CASE t[j].op = "burn"
    <3>1. j + 2 \in 1..n /\ t[j+1].op = "measure" /\ t[j+2].op = "stop_burning" /\ t[j+2].step = t[j].step
          /\ t[j].op # "stop_burning"
      BY <1>3, <2>1, <2>5
    <3> QED  BY <2>2, <2>3, <3>1
  <2>6. CASE t[j].op = "stop_burning"
    <3>1. j - 2 \in 1..n /\ t[j-2].op = "burn" /\ t[j].op # "burn"  BY <1>3, <2>1, <2>6
    <3> QED  BY <2>2, <2>4, <3>1
  <2> QED  BY <2>2, <2>5, <2>6
<1> QED  BY <1>5, <1>6

LEMMA QuietIsOrderly ==
  ASSUME NEW s \in Seq(Quiet \cup Plain \cup Simple({"save_settings", "restore_settings"}))
  PROVE  Orderly(s)
<1>1. \A i \in 1..Len(s) : s[i].op # "burn" /\ s[i].op # "stop_burning"
  BY Ops DEF Simple
<1> QED  BY <1>1 DEF Orderly

LEMMA Pieces ==
  /\ \A s, t : Piece(s) /\ Piece(t) => Piece(s \o t)
  /\ \A s, t : Begun(s) /\ Piece(t) => Begun(s \o t)
  /\ \A s \in Seq(Quiet) : Piece(s)
<1>0. Middle \subseteq Operations /\ Quiet \subseteq Middle  BY DEF Operations, Middle
<1>1. ASSUME NEW s, NEW t, Piece(s), Piece(t) PROVE Piece(s \o t)
  <2>1. s \in Seq(Middle) /\ t \in Seq(Middle) /\ Orderly(s) /\ Orderly(t)  BY <1>1 DEF Piece
  <2>2. s \o t \in Seq(Middle)  BY <2>1, ConcatProperties
  <2>3. Orderly(s \o t)  BY <2>1, OrderlyConcat
  <2> QED  BY <2>2, <2>3 DEF Piece
<1>2. ASSUME NEW s, NEW t, Begun(s), Piece(t) PROVE Begun(s \o t)
  <2>1. /\ s \in Seq(Operations) /\ t \in Seq(Middle) /\ Orderly(s) /\ Orderly(t)
        /\ s # <<>> /\ s[1].op = "save_settings" /\ \A i \in 2..Len(s) : s[i] \in Middle
    BY <1>2 DEF Piece, Begun
  <2>2. t \in Seq(Operations)  BY <1>0, <2>1, SeqMonotonic
  <2>3. s \o t \in Seq(Operations)  BY <2>1, <2>2, ConcatProperties
  <2>4. Orderly(s \o t)  BY <2>1, <2>2, OrderlyConcat
  <2>5. /\ Len(s) \in Nat /\ Len(s) >= 1 /\ Len(t) \in Nat
        /\ Len(s \o t) = Len(s) + Len(t)
        /\ \A i \in 1..Len(s) : (s \o t)[i] = s[i]
        /\ \A i \in 1..Len(t) : (s \o t)[Len(s) + i] = t[i]
    BY <2>1, <2>2
  <2>6. (s \o t)[1].op = "save_settings" /\ s \o t # <<>>  BY <2>1, <2>5, <2>3, EmptySeq
  <2>7. ASSUME NEW i \in 2..Len(s \o t) PROVE (s \o t)[i] \in Middle
    <3>1. CASE i \in 1..Len(s)  BY <2>1, <2>5, <3>1
    <3>2. CASE i \notin 1..Len(s)
      <4>1. i - Len(s) \in 1..Len(t) /\ i = Len(s) + (i - Len(s))  BY <2>5, <3>2
      <4>2. (s \o t)[i] = t[i - Len(s)]  BY <2>5, <4>1
      <4> QED  BY <2>1, <4>1, <4>2
    <3> QED  BY <3>1, <3>2
  <2> QED  BY <2>3, <2>4, <2>6, <2>7 DEF Begun
<1>3. ASSUME NEW s \in Seq(Quiet) PROVE Piece(s)
  <2>1. s \in Seq(Middle)  BY <1>0, SeqMonotonic
  <2>2. s \in Seq(Quiet \cup Plain \cup Simple({"save_settings", "restore_settings"}))
    BY SeqMonotonic
  <2> QED  BY <2>1, <2>2, QuietIsOrderly DEF Piece
<1> QED  BY <1>1, <1>2, <1>3

LEMMA WriteIsQuiet ==
  ASSUME NEW files, ToSet(files) \subseteq AllFiles, NEW value \in Values
  PROVE  Write(files, value) \in Seq(Quiet)
<1>1. [op |-> "write", files |-> ToSet(files), value |-> value] \in Quiet  BY DEF Quiet, Writes
<1> HIDE DEF Quiet
<1> QED  BY <1>1 DEF Write

LEMMA FilesOfWrites ==
  /\ ToSet(Usb) \subseteq AllFiles /\ ToSet(Rfkill) \subseteq AllFiles
  /\ ToSet(Backlight) \subseteq AllFiles /\ ToSet(Scsi) \subseteq AllFiles
  /\ \A f \in {PowerSave, Wifi, Dpms} : ToSet(<<f>>) \subseteq AllFiles
  /\ \A files \in {Usb, Rfkill, Backlight, Scsi} : \A i \in DOMAIN files : ToSet(<<files[i]>>) \subseteq AllFiles
<1>1. ASSUME NEW f \in AllFiles PROVE ToSet(<<f>>) \subseteq AllFiles
  BY DEF ToSet
<1>2. \A files \in {Usb, Rfkill, Backlight, Scsi} : \A i \in DOMAIN files : files[i] \in AllFiles
  BY DEF AllFiles, ToSet
<1> QED  BY <1>1, <1>2 DEF AllFiles

LEMMA QuietParts ==
  /\ Measure \in Seq(Quiet) /\ IdleCalibration \in Seq(Quiet)
  /\ SuspendAllUsb \in Seq(Quiet) /\ RfkillAll \in Seq(Quiet) /\ UnrfkillAll \in Seq(Quiet)
  /\ LowerBacklight \in Seq(Quiet)
  /\ \A f \in {PowerSave, Wifi}, value \in Values : Write(<<f>>, value) \in Seq(Quiet)
  /\ Write(Scsi, "min_power") \in Seq(Quiet)
  /\ \A s, t \in Seq(Quiet) : s \o t \in Seq(Quiet)
<1>1. \A s, t \in Seq(Quiet) : s \o t \in Seq(Quiet)  BY ConcatProperties
<1>2. Measure \in Seq(Quiet)
  <2>1. [op |-> "measure", seconds |-> Long, interval |-> Long, kind |-> "plain"] \in Quiet
    BY FilesAssumption DEF Quiet, Measures, Kinds
  <2> QED  BY <2>1 DEF Measure, Measurement
<1>3. \A f \in {PowerSave, Wifi, Dpms}, value \in Values : Write(<<f>>, value) \in Seq(Quiet)
  BY FilesOfWrites, WriteIsQuiet
<1>4. IdleCalibration \in Seq(Quiet)
  <2>1. Write(<<Dpms>>, "off") \in Seq(Quiet) /\ Write(<<Dpms>>, "on") \in Seq(Quiet)
    BY <1>3 DEF Values
  <2> QED  BY <1>1, <1>2, <2>1 DEF IdleCalibration
<1>5. SuspendAllUsb \in Seq(Quiet) /\ RfkillAll \in Seq(Quiet) /\ UnrfkillAll \in Seq(Quiet)
      /\ LowerBacklight \in Seq(Quiet) /\ Write(Scsi, "min_power") \in Seq(Quiet)
  BY FilesOfWrites, WriteIsQuiet DEF SuspendAllUsb, RfkillAll, UnrfkillAll, LowerBacklight, Values
<1> QED  BY <1>1, <1>2, <1>3, <1>4, <1>5

\* What is done for each device of a sequence.
LEMMA ForEachIsQuiet ==
  ASSUME NEW files \in {Usb, Rfkill, Backlight, Scsi},
         NEW parts, parts = [i \in DOMAIN files |-> parts[i]],
         \A i \in DOMAIN files : parts[i] \in Seq(Quiet)
  PROVE  FlattenSeq(parts) \in Seq(Quiet)
<1>1. DOMAIN files = 1..Len(files) /\ Len(files) \in Nat  BY FilesAssumption
<1>2. parts \in Seq(Seq(Quiet))  BY <1>1
<1> QED  BY <1>2, FlattenType

LEMMA DevicesAreQuiet ==
  BacklightCalibration \in Seq(Quiet) /\ UsbCalibration \in Seq(Quiet) /\ RfkillCalibration \in Seq(Quiet)
<1>0. \A files \in {Usb, Rfkill, Backlight, Scsi} : \A i \in DOMAIN files, value \in Values :
        Write(<<files[i]>>, value) \in Seq(Quiet)
  BY FilesOfWrites, WriteIsQuiet
<1>1. BacklightCalibration \in Seq(Quiet)
  <2> DEFINE parts == [i \in DOMAIN Backlight |->
               LowerBacklight \o Measure
                 \o Write(<<Backlight[i]>>, "25%") \o Measure
                 \o Write(<<Backlight[i]>>, "50%") \o Measure
                 \o Write(<<Backlight[i]>>, "75%") \o Measure
                 \o Write(<<Backlight[i]>>, "100%") \o Measure \o LowerBacklight]
  <2>1. ASSUME NEW i \in DOMAIN Backlight PROVE parts[i] \in Seq(Quiet)
    <3>1. /\ Write(<<Backlight[i]>>, "25%") \in Seq(Quiet) /\ Write(<<Backlight[i]>>, "50%") \in Seq(Quiet)
          /\ Write(<<Backlight[i]>>, "75%") \in Seq(Quiet) /\ Write(<<Backlight[i]>>, "100%") \in Seq(Quiet)
      BY <1>0 DEF Values
    <3> QED  BY <3>1, QuietParts
  <2>2. parts = [i \in DOMAIN Backlight |-> parts[i]]  OBVIOUS
  <2>3. BacklightCalibration = FlattenSeq(parts) \o IdleCalibration
    BY DEF BacklightCalibration, ForEach
  <2> HIDE DEF parts
  <2>4. FlattenSeq(parts) \in Seq(Quiet)  BY <2>1, <2>2, ForEachIsQuiet
  <2> QED  BY <2>3, <2>4, QuietParts
<1>2. UsbCalibration \in Seq(Quiet)
  <2> DEFINE parts == [i \in DOMAIN Usb |->
               SuspendAllUsb \o Write(<<Usb[i]>>, "on") \o Measure \o SuspendAllUsb]
  <2>1. ASSUME NEW i \in DOMAIN Usb PROVE parts[i] \in Seq(Quiet)
    <3>1. Write(<<Usb[i]>>, "on") \in Seq(Quiet)  BY <1>0 DEF Values
    <3> QED  BY <3>1, QuietParts
  <2>2. parts = [i \in DOMAIN Usb |-> parts[i]]  OBVIOUS
  <2>3. UsbCalibration = UnrfkillAll \o FlattenSeq(parts) \o RfkillAll
    BY DEF UsbCalibration, ForEach
  <2> HIDE DEF parts
  <2>4. FlattenSeq(parts) \in Seq(Quiet)  BY <2>1, <2>2, ForEachIsQuiet
  <2> QED  BY <2>3, <2>4, QuietParts
<1>3. RfkillCalibration \in Seq(Quiet)
  <2> DEFINE parts == [i \in DOMAIN Rfkill |-> RfkillAll \o Write(<<Rfkill[i]>>, "0") \o Measure \o RfkillAll]
             others == [i \in DOMAIN Rfkill |-> UnrfkillAll \o Write(<<Rfkill[i]>>, "1") \o Measure \o UnrfkillAll]
  <2>1. ASSUME NEW i \in DOMAIN Rfkill PROVE parts[i] \in Seq(Quiet) /\ others[i] \in Seq(Quiet)
    <3>1. Write(<<Rfkill[i]>>, "0") \in Seq(Quiet) /\ Write(<<Rfkill[i]>>, "1") \in Seq(Quiet)
      BY <1>0 DEF Values
    <3> QED  BY <3>1, QuietParts
  <2>2. parts = [i \in DOMAIN Rfkill |-> parts[i]] /\ others = [i \in DOMAIN Rfkill |-> others[i]]  OBVIOUS
  <2>3. RfkillCalibration = FlattenSeq(parts) \o FlattenSeq(others) \o RfkillAll
    BY DEF RfkillCalibration, ForEach
  <2> HIDE DEF parts, others
  <2>4. FlattenSeq(parts) \in Seq(Quiet) /\ FlattenSeq(others) \in Seq(Quiet)
    BY <2>1, <2>2, ForEachIsQuiet
  <2> QED  BY <2>3, <2>4, QuietParts
<1> QED  BY <1>1, <1>2, <1>3

LEMMA BurningIsPiece ==
  ASSUME NEW step \in BurnSteps, NEW n \in Nat, n = ThreadsOf(step)
  PROVE  Piece(Burning(step, n))
<1> DEFINE b == [op |-> "burn", step |-> step, n |-> n]
           m == [op |-> "measure", seconds |-> Long, interval |-> Long, kind |-> "plain"]
           s == [op |-> "stop_burning", step |-> step]
<1>1. Burning(step, n) = <<b>> \o <<m>> \o <<s>>
  BY DEF Burning, Burn, Measure, Measurement, StopBurning
<1>2. b \in Middle /\ m \in Middle /\ s \in Middle
  BY FilesAssumption DEF Middle, Quiet, Burns, Measures, Stops, Kinds
<1>3. b.op = "burn" /\ b.step = step /\ m.op = "measure" /\ s.op = "stop_burning" /\ s.step = step
  OBVIOUS
<1> HIDE DEF b, m, s
<1> DEFINE bm == <<b>> \o <<m>>
           u == bm \o <<s>>
<1>4. bm \in Seq(Middle) /\ Len(bm) = 2 /\ bm[1] = b /\ bm[2] = m
  BY <1>2
<1> HIDE DEF bm
<1>5. u \in Seq(Middle) /\ Len(u) = 3 /\ u[1] = bm[1] /\ u[2] = bm[2] /\ u[3] = s
  <2>1. <<s>> \in Seq(Middle) /\ Len(<<s>>) = 1 /\ <<s>>[1] = s  BY <1>2
  <2> DEFINE v == <<s>>
  <2> HIDE DEF v
  <2>2. v \in Seq(Middle) /\ Len(v) = 1 /\ v[1] = s  BY <2>1 DEF v
  <2>3. bm \in Seq(Middle) /\ Len(bm) = 2  BY <1>4
  <2>4. bm \o v \in Seq(Middle) /\ Len(bm \o v) = 3
        /\ (bm \o v)[1] = bm[1] /\ (bm \o v)[2] = bm[2] /\ (bm \o v)[3] = v[1]
    <3> SUFFICES ASSUME NEW p \in Seq(Middle), NEW q \in Seq(Middle), Len(p) = 2, Len(q) = 1,
                        NEW w, w = p \o q
                 PROVE  w \in Seq(Middle) /\ Len(w) = 3 /\ w[1] = p[1] /\ w[2] = p[2] /\ w[3] = q[1]
      BY <2>2, <2>3, Zenon
    <3>1. w \in Seq(Middle) /\ Len(w) = Len(p) + Len(q)  BY ConcatProperties
    <3>2. \A i \in 1..Len(p) + Len(q) : w[i] = IF i <= Len(p) THEN p[i] ELSE q[i - Len(p)]
      BY ConcatProperties
    <3>3. \A i \in 1..3 : w[i] = IF i <= 2 THEN p[i] ELSE q[i - 2]
      <4>1. Len(p) + Len(q) = 3 /\ Len(p) = 2  OBVIOUS
      <4>2. 1..Len(p) + Len(q) = 1..3  BY <4>1, Zenon
      <4> QED  BY ONLY <3>2, <4>1, <4>2, Zenon
    <3> QED  BY <3>1, <3>3
  <2> QED  BY <2>2, <2>4 DEF v
<1> HIDE DEF u
<1>6. Orderly(u)
  <2>1. \A i \in 1..3 : i = 1 \/ i = 2 \/ i = 3  OBVIOUS
  <2> QED  BY <1>3, <1>4, <1>5, <2>1 DEF Orderly
<1> QED  BY <1>1, <1>5, <1>6 DEF Piece, u, bm

\* The calibration up to where it restores the settings.
Calibrated ==
  SaveSettings \o SuspendAllUsb \o RfkillAll \o LowerBacklight \o Write(<<Wifi>>, "1")
  \o IdleCalibration \o DiskCalibration \o BacklightCalibration
  \o Write(<<PowerSave>>, "1")
  \o Burning("cpu_1", 1) \o Burning("cpu_4", 2)
  \o Burning("wakeup_10000", 1) \o Burning("wakeup_100000", 1) \o Burning("wakeup_1000000", 1)
  \o Write(<<Wifi>>, "0") \o UsbCalibration \o RfkillCalibration

LEMMA CalibrationBegins == Begun(Calibrated)
<1> DEFINE s1 == SaveSettings \o SuspendAllUsb \o RfkillAll \o LowerBacklight \o Write(<<Wifi>>, "1")
                 \o IdleCalibration \o DiskCalibration
           s2 == s1 \o BacklightCalibration \o Write(<<PowerSave>>, "1")
                 \o Burning("cpu_1", 1) \o Burning("cpu_4", 2)
           s3 == s2 \o Burning("wakeup_10000", 1) \o Burning("wakeup_100000", 1)
                 \o Burning("wakeup_1000000", 1)
           s4 == s3 \o Write(<<Wifi>>, "0") \o UsbCalibration \o RfkillCalibration
<1>0. /\ Piece(SuspendAllUsb) /\ Piece(RfkillAll) /\ Piece(LowerBacklight) /\ Piece(IdleCalibration)
      /\ Piece(BacklightCalibration) /\ Piece(UsbCalibration) /\ Piece(RfkillCalibration)
      /\ Piece(Write(<<Wifi>>, "1")) /\ Piece(Write(<<Wifi>>, "0")) /\ Piece(Write(<<PowerSave>>, "1"))
      /\ Piece(Write(Scsi, "min_power"))
  <2>1. "0" \in Values /\ "1" \in Values  BY DEF Values
  <2> QED  BY <2>1, QuietParts, DevicesAreQuiet, Pieces
<1>1. Piece(DiskCalibration)
  <2>1. Piece(Burning("disk", 1))  BY BurningIsPiece DEF BurnSteps, ThreadsOf
  <2> QED  BY <1>0, <2>1, Pieces DEF DiskCalibration
<1>2. /\ Piece(Burning("cpu_1", 1)) /\ Piece(Burning("cpu_4", 2))
      /\ Piece(Burning("wakeup_10000", 1)) /\ Piece(Burning("wakeup_100000", 1))
      /\ Piece(Burning("wakeup_1000000", 1))
  BY BurningIsPiece DEF BurnSteps, ThreadsOf
<1>3. Begun(SaveSettings)
  <2> DEFINE o == [op |-> "save_settings"]
  <2>1. o \in Simple({"save_settings", "restore_settings"}) /\ o.op = "save_settings"  BY DEF Simple
  <2>2. o \in Operations  BY <2>1 DEF Operations
  <2>3. SaveSettings = <<o>>  BY DEF SaveSettings
  <2> HIDE DEF o
  <2>4. <<o>> \in Seq(Operations) /\ Len(<<o>>) = 1 /\ <<o>>[1] = o /\ <<o>> # <<>>  BY <2>2
  <2>5. Orderly(<<o>>)  BY <2>1, <2>4 DEF Orderly
  <2> QED  BY <2>1, <2>3, <2>4, <2>5 DEF Begun
<1>4. Begun(s1)  BY <1>0, <1>1, <1>3, Pieces
<1>5. Begun(s2)
  <2> HIDE DEF s1
  <2> QED  BY <1>0, <1>2, <1>4, Pieces
<1>6. Begun(s3)
  <2> HIDE DEF s2
  <2> QED  BY <1>2, <1>5, Pieces
<1>7. Begun(s4)
  <2> HIDE DEF s3
  <2> QED  BY <1>0, <1>6, Pieces
<1> QED  BY <1>7 DEF Calibrated
-----------------------------------------------------------------------------
(***************************************************************************)
(* The inductive invariant.                                                *)
(***************************************************************************)

\* What is left of a plan: the first operations may be gone.
Trailing(s) ==
  \A i \in 1..Len(s) :
    /\ s[i].op = "burn" =>
         /\ i + 2 \in 1..Len(s)
         /\ s[i+1].op = "measure"
         /\ s[i+2].op = "stop_burning" /\ s[i+2].step = s[i].step
    /\ s[i].op = "stop_burning" =>
         /\ i >= 3 => s[i-2].op = "burn"
         /\ i = 2 => s[1].op = "measure"

\* Threads were created for the measurement that comes next.
Loaded(step) == ~stop_measurement /\ (step = "disk" \/ \E b \in burners : b.step = step)

Places == {"workload", "sleep", "join", "clock", "energy", "last", "end", "extech", "batteries", "store"}

PlanInv ==
  /\ at \in {"off", "next"} \cup Places
  /\ at \in Places => todo # <<>> /\ todo[1].op = "measure"
  /\ at = "off" => todo = <<>>
  /\ todo \in Seq(Operations) /\ Trailing(todo)
  /\ 2 \in 1..Len(todo) /\ todo[2].op = "stop_burning" => Loaded(todo[2].step)

AsFound == \A f \in SavedFiles : settings[f] = Original[f]
FoundIsSaved == \A f \in SavedFiles : f \in DOMAIN saved_sysfs /\ saved_sysfs[f] = Original[f]

SettingsInv ==
  \/ todo \in Seq(Plain) /\ AsFound
  \/ Unstarted(todo) /\ AsFound
  \/ Closing(todo) /\ FoundIsSaved

\* The joules and the clocks: who is between adding energy and setting tlast.
EnergyInv ==
  /\ now \in Int /\ left \in Int /\ tlast \in Int /\ sampled \in Int /\ tnow \in [Threads -> Int]
  /\ at \notin {"workload", "join"} => background = "none"
  /\ background = "last" => sampled = tnow["background"]
  /\ at = "last" => sampled = tnow["main"]
  /\ background # "last" /\ at # "last" => sampled = tlast
  /\ at \in {"end", "extech", "batteries", "store"} => sampled = tnow["main"]

\* The Extech's thread lives within a measurement, and so do its samples.
SamplerInv ==
  /\ turn \in Int
  /\ samples \in Seq([watts : ExtechWatts, turn : {turn}])
  /\ sampler \in [at : {"none", "check", "asked", "done"}, turn : Int]
  /\ sampler.at = "asked" => sampler.turn = turn
  /\ thread_started \in BOOLEAN
  /\ ~thread_started => sampler.at = "none"
  /\ at \in {"off", "next", "batteries", "store"} => ~thread_started


\* Where a plan starts.
LEMMA PlansAre ==
  ASSUME NEW s \in Plans \cup LaterPlans
  PROVE  s \in Seq(Operations) /\ Orderly(s) /\ (s \in Seq(Plain) \/ Unstarted(s))
<1> DEFINE rs == [op |-> "save_results"]
           ps == [op |-> "save_parameters"]
           lp == [op |-> "loop"]
<1>1. rs \in Plain /\ ps \in Plain /\ lp \in Plain  BY DEF Plain, Simple
<1>2. SaveResults \in Seq(Plain) /\ SaveParameters \in Seq(Plain) /\ <<[op |-> "loop"]>> \in Seq(Plain)
  <2>1. SaveResults = <<rs>> /\ SaveParameters = <<ps>> /\ <<[op |-> "loop"]>> = <<lp>>
    BY DEF SaveResults, SaveParameters
  <2> HIDE DEF rs, ps, lp
  <2> QED  BY <1>1, <2>1
<1>3. \A x, y \in Seq(Plain) : x \o y \in Seq(Plain)  BY ConcatProperties
<1>4. \A seconds, interval \in Int, kind \in Kinds : Measurement(seconds, interval, kind) \in Seq(Plain)
  <2> TAKE seconds \in Int, interval \in Int, kind \in Kinds
  <2> DEFINE ms == [op |-> "measure", seconds |-> seconds, interval |-> interval, kind |-> kind]
  <2>1. ms \in Plain  BY DEF Plain, Measures
  <2>2. Measurement(seconds, interval, kind) = <<ms>>  BY DEF Measurement
  <2> HIDE DEF ms
  <2> QED  BY <2>1, <2>2
<1>5. Plain \subseteq Operations  BY DEF Operations
<1>6. \A x \in Seq(Plain) : x \in Seq(Operations) /\ Orderly(x)
  <2> TAKE x \in Seq(Plain)
  <2>1. x \in Seq(Quiet \cup Plain \cup Simple({"save_settings", "restore_settings"}))  BY SeqMonotonic
  <2> QED  BY <1>5, <2>1, SeqMonotonic, QuietIsOrderly
<1>7. \A kind \in {"plain", "workload"} : Report(kind) \in Seq(Plain)
  <2> TAKE kind \in {"plain", "workload"}
  <2>1. Measurement(1, 1, "plain") \in Seq(Plain) /\ Measurement(Long, 1, kind) \in Seq(Plain)
    <3>1. Long \in Int /\ 1 \in Int /\ kind \in Kinds /\ "plain" \in Kinds  BY FilesAssumption DEF Kinds
    <3> QED  BY ONLY <1>4, <3>1
  <2> QED  BY <1>2, <1>3, <2>1 DEF Report
<1>8. Interactive \in Seq(Plain)
  <2>1. Measurement(1, 1, "display") \in Seq(Plain)  BY <1>4 DEF Kinds
  <2> QED  BY <1>2, <1>3, <2>1 DEF Interactive
<1>9. Calibrating \in Seq(Operations) /\ Orderly(Calibrating) /\ Unstarted(Calibrating)
  <2> DEFINE e == [op |-> "restore_settings"]
             c == Calibrated
             u == c \o <<e>>
             v == u \o SaveParameters
             w == v \o SaveResults
  <2>1. w = Calibrating  BY DEF Calibrating, Calibrate, Calibrated, RestoreSettings
  <2>2. /\ c \in Seq(Operations) /\ Orderly(c) /\ c # <<>> /\ c[1].op = "save_settings"
        /\ \A i \in 2..Len(c) : c[i] \in Middle
    BY CalibrationBegins DEF Begun
  <2>3. e.op = "restore_settings" /\ e \in Simple({"save_settings", "restore_settings"}) /\ e \in Operations
    BY DEF Simple, Operations
  <2> HIDE DEF e, c
  <2>4. <<e>> \in Seq(Operations) /\ Len(<<e>>) = 1 /\ <<e>>[1] = e  BY <2>3
  <2>5. Orderly(<<e>>)  BY <2>3, <2>4 DEF Orderly
  <2> DEFINE p == <<e>>
  <2> HIDE DEF p
  <2>6. p \in Seq(Operations) /\ Len(p) = 1 /\ p[1] = e /\ Orderly(p) /\ u = c \o p
    BY <2>4, <2>5 DEF p
  <2>7. /\ SaveResults \in Seq(Operations) /\ Orderly(SaveResults)
        /\ SaveParameters \in Seq(Operations) /\ Orderly(SaveParameters)
    BY <1>2, <1>6
  <2>8. /\ u \in Seq(Operations) /\ Orderly(u) /\ Len(u) = Len(c) + 1
        /\ \A i \in 1..Len(c) : u[i] = c[i]
        /\ u[Len(c) + 1] = e
    <3> HIDE DEF u
    <3>1. u \in Seq(Operations) /\ Len(u) = Len(c) + 1  BY <2>2, <2>6, ConcatProperties
    <3>2. Orderly(u)  BY <2>2, <2>6, OrderlyConcat
    <3>3. \A i \in 1..Len(c) + 1 : u[i] = IF i <= Len(c) THEN c[i] ELSE p[i - Len(c)]
      BY <2>2, <2>6, ConcatProperties
    <3>4. Len(c) \in Nat  BY <2>2
    <3>5. \A i \in 1..Len(c) : u[i] = c[i]  BY <3>3, <3>4
    <3>6. u[Len(c) + 1] = p[1]
      <4>1. Len(c) + 1 \in 1..Len(c) + 1 /\ ~(Len(c) + 1 <= Len(c)) /\ (Len(c) + 1) - Len(c) = 1  BY <3>4
      <4> QED  BY ONLY <3>3, <4>1
    <3> QED  BY <2>6, <3>1, <3>2, <3>5, <3>6
  <2> DEFINE q == SaveParameters \o SaveResults
  <2>9. q \in Seq(Plain) /\ w = u \o q
    <3>1. q \in Seq(Plain)  BY <1>2, <1>3
    <3> HIDE DEF u
    <3>2. w = u \o q  BY <2>7, <2>8, ConcatAssociative
    <3> QED  BY <3>1, <3>2
  <2> HIDE DEF u, q
  <2>10. q \in Seq(Operations) /\ Orderly(q)  BY <1>6, <2>9
  <2>11. w \in Seq(Operations) /\ Orderly(w)
    BY <2>8, <2>9, <2>10, ConcatProperties, OrderlyConcat
  <2> HIDE DEF w
  <2>12. /\ Len(w) = Len(u) + Len(q) /\ Len(u) \in Nat /\ Len(q) \in Nat /\ Len(c) \in Nat /\ Len(c) >= 1
         /\ \A i \in 1..Len(u) + Len(q) : w[i] = IF i <= Len(u) THEN u[i] ELSE q[i - Len(u)]
    <3>1. Len(u) \in Nat /\ Len(q) \in Nat  BY <2>8, <2>10
    <3>2. Len(c) \in Nat /\ Len(c) >= 1  BY <2>2, EmptySeq
    <3>3. /\ Len(u \o q) = Len(u) + Len(q)
          /\ \A i \in 1..Len(u) + Len(q) : (u \o q)[i] = IF i <= Len(u) THEN u[i] ELSE q[i - Len(u)]
      BY <2>8, <2>10, ConcatProperties
    <3> QED  BY <2>9, <3>1, <3>2, <3>3, Zenon
  <2> DEFINE r == Len(c) + 1
  <2>13. r \in 2..Len(w) /\ w[r] = e
    BY <2>8, <2>12
  <2>14. ASSUME NEW i \in 2..(r - 1) PROVE w[i] \in Middle
    BY <2>2, <2>8, <2>12
  <2>15. ASSUME NEW i \in (r + 1)..Len(w) PROVE w[i] \in Plain
    <3>1. i - Len(u) \in 1..Len(q) /\ ~(i <= Len(u)) /\ i \in 1..Len(u) + Len(q)  BY <2>8, <2>12
    <3>2. w[i] = q[i - Len(u)]  BY <2>12, <3>1
    <3> QED  BY <2>9, <3>1, <3>2
  <2>16. w[1].op = "save_settings" /\ w # <<>>
    <3>1. 1 \in 1..Len(c) /\ 1 \in 1..Len(u) + Len(q) /\ 1 <= Len(u)  BY <2>8, <2>12
    <3> QED  BY <2>2, <2>8, <2>11, <2>12, <3>1, EmptySeq
  <2>17. CloseAt(w, 2, r)  BY <2>3, <2>13, <2>14, <2>15 DEF CloseAt
  <2>18. Unstarted(w)  BY <2>13, <2>16, <2>17 DEF Unstarted
  <2> QED  BY <2>1, <2>11, <2>18 DEF w
<1> QED  BY <1>6, <1>7, <1>8, <1>9, PlansAssumption
-----------------------------------------------------------------------------
(***************************************************************************)
(* Taking operations off a plan.                                           *)
(***************************************************************************)
LEMMA TailIs ==
  ASSUME NEW S, NEW s \in Seq(S), s # <<>>
  PROVE  /\ Tail(s) \in Seq(S) /\ Len(s) \in Nat /\ Len(s) >= 1 /\ Len(Tail(s)) = Len(s) - 1
         /\ \A i \in 1..(Len(s) - 1) : Tail(s)[i] = s[i + 1]
         /\ Head(s) = s[1] /\ s[1] \in S
<1>1. Len(s) \in Nat /\ Len(s) >= 1  BY EmptySeq
<1>2. Tail(s) \in Seq(S) /\ Len(Tail(s)) = Len(s) - 1  BY <1>1
<1>3. \A i \in 1..(Len(s) - 1) : Tail(s)[i] = s[i + 1]  BY <1>1
<1>4. Head(s) = s[1] /\ s[1] \in S  BY <1>1
<1> QED  BY <1>1, <1>2, <1>3, <1>4

LEMMA TrailingTail ==
  ASSUME NEW s \in Seq(Operations), s # <<>>, Trailing(s)
  PROVE  /\ Trailing(Tail(s))
         /\ 2 \in 1..Len(Tail(s)) /\ Tail(s)[2].op = "stop_burning" =>
              /\ s[1].op = "burn" /\ 3 \in 1..Len(s) /\ s[3] = Tail(s)[2]
              /\ s[3].step = s[1].step
<1> DEFINE t == Tail(s)
           n == Len(s)
<1>1. n \in Nat /\ n >= 1 /\ Len(t) = n - 1 /\ \A i \in 1..(n - 1) : t[i] = s[i + 1]  BY TailIs
<1>2. \A i \in 1..n :
        /\ s[i].op = "burn" =>
             /\ i + 2 \in 1..n
             /\ s[i+1].op = "measure"
             /\ s[i+2].op = "stop_burning" /\ s[i+2].step = s[i].step
        /\ s[i].op = "stop_burning" =>
             /\ i >= 3 => s[i-2].op = "burn"
             /\ i = 2 => s[1].op = "measure"
  BY DEF Trailing
<1> HIDE DEF t, n
<1>3. ASSUME NEW i \in 1..(n - 1)
      PROVE  /\ t[i].op = "burn" =>
                  /\ i + 2 \in 1..(n - 1)
                  /\ t[i+1].op = "measure"
                  /\ t[i+2].op = "stop_burning" /\ t[i+2].step = t[i].step
             /\ t[i].op = "stop_burning" =>
                  /\ i >= 3 => t[i-2].op = "burn"
                  /\ i = 2 => t[1].op = "measure"
  <2>1. i + 1 \in 1..n /\ t[i] = s[i + 1]  BY <1>1
  <2>2. ASSUME t[i].op = "burn"
        PROVE  /\ i + 2 \in 1..(n - 1)
               /\ t[i+1].op = "measure"
               /\ t[i+2].op = "stop_burning" /\ t[i+2].step = t[i].step
    <3>1. /\ (i + 1) + 2 \in 1..n /\ s[(i+1)+1].op = "measure"
          /\ s[(i+1)+2].op = "stop_burning" /\ s[(i+1)+2].step = s[i+1].step
      BY <1>2, <2>1, <2>2
    <3>2. i + 2 \in 1..(n - 1) /\ i + 1 \in 1..(n - 1) /\ (i + 1) + 2 = (i + 2) + 1  BY <1>1, <3>1
    <3>3. t[i+1] = s[(i+1)+1] /\ t[i+2] = s[(i+2)+1]  BY <1>1, <3>2
    <3> QED  BY <2>1, <3>1, <3>2, <3>3
  <2>3. ASSUME t[i].op = "stop_burning", i >= 3 PROVE t[i-2].op = "burn"
    <3>1. s[(i + 1) - 2].op = "burn"  BY <1>2, <2>1, <2>3
    <3>2. i - 2 \in 1..(n - 1) /\ (i + 1) - 2 = (i - 2) + 1  BY <1>1, <2>3
    <3> QED  BY <1>1, <3>1, <3>2
  <2>4. ASSUME t[i].op = "stop_burning", i = 2 PROVE t[1].op = "measure"
    <3>1. 3 \in 1..n /\ s[3].op = "stop_burning"  BY <1>1, <2>1, <2>4
    <3>2. s[3 - 2].op = "burn"  BY <1>2, <3>1
    <3>3. 1 \in 1..n /\ s[1].op = "burn"
      <4>1. 3 - 2 = 1 /\ 1 \in 1..n  BY <1>1, <3>1
      <4> QED  BY <3>2, <4>1, Zenon
    <3>4. s[1 + 1].op = "measure"  BY <1>2, <3>3
    <3>5. t[1] = s[1 + 1]  BY <1>1, <3>1
    <3> QED  BY <3>4, <3>5
  <2> QED  BY <2>2, <2>3, <2>4
<1>4. Trailing(t)  BY <1>1, <1>3 DEF Trailing
<1>5. ASSUME 2 \in 1..Len(t), t[2].op = "stop_burning"
      PROVE  s[1].op = "burn" /\ 3 \in 1..n /\ s[3] = t[2] /\ s[3].step = s[1].step
  <2>1. 3 \in 1..n /\ t[2] = s[2 + 1]  BY <1>1, <1>5
  <2>2. s[3].op = "stop_burning"  BY <1>5, <2>1
  <2>3. s[3 - 2].op = "burn"  BY <1>2, <2>1, <2>2
  <2>4. s[1].op = "burn" /\ 1 \in 1..n
    <3>1. 3 - 2 = 1 /\ 1 \in 1..n  BY <1>1, <2>1
    <3> QED  BY <2>3, <3>1, Zenon
  <2>5. s[1 + 2].step = s[1].step  BY <1>2, <2>4
  <2> QED  BY <2>1, <2>4, <2>5
<1> QED  BY <1>4, <1>5 DEF t, n

LEMMA CloseTail ==
  ASSUME NEW s \in Seq(Operations), s # <<>>
  PROVE  /\ s \in Seq(Plain) => Tail(s) \in Seq(Plain)
         /\ Unstarted(s) => Closing(Tail(s)) /\ s[1].op = "save_settings"
         /\ Closing(s) /\ s[1].op = "restore_settings" => Tail(s) \in Seq(Plain)
         /\ Closing(s) /\ s[1].op # "restore_settings" => Closing(Tail(s)) /\ s[1] \in Middle
<1> DEFINE t == Tail(s)
           n == Len(s)
<1>1. t \in Seq(Operations) /\ n \in Nat /\ n >= 1 /\ Len(t) = n - 1
      /\ \A i \in 1..(n - 1) : t[i] = s[i + 1]
  BY TailIs
<1>2. s \in Seq(Plain) => t \in Seq(Plain)  BY TailIs
<1> HIDE DEF t, n
<1>3. ASSUME NEW first \in 1..2, NEW r \in 2..n, CloseAt(s, first, r) PROVE Closing(t)
  <2>1. /\ s[r].op = "restore_settings"
        /\ \A i \in first..(r - 1) : s[i] \in Middle
        /\ \A i \in (r + 1)..n : s[i] \in Plain
    BY <1>3 DEF CloseAt, n
  <2>2. r - 1 \in 1..(n - 1) /\ t[r - 1] = s[r]  BY <1>1
  <2>3. ASSUME NEW i \in 1..((r - 1) - 1) PROVE t[i] \in Middle
    <3>1. i \in 1..(n - 1) /\ i + 1 \in first..(r - 1)  BY <1>1
    <3> QED  BY <1>1, <2>1, <3>1
  <2>4. ASSUME NEW i \in ((r - 1) + 1)..(n - 1) PROVE t[i] \in Plain
    <3>1. i \in 1..(n - 1) /\ i + 1 \in (r + 1)..n  BY <1>1
    <3> QED  BY <1>1, <2>1, <3>1
  <2>5. CloseAt(t, 1, r - 1)  BY <1>1, <2>1, <2>2, <2>3, <2>4 DEF CloseAt
  <2> QED  BY <1>1, <2>2, <2>5 DEF Closing
<1>4. ASSUME Unstarted(s) PROVE Closing(t) /\ s[1].op = "save_settings"
  BY <1>3, <1>4 DEF Unstarted, n
<1>5. ASSUME Closing(s), s[1].op = "restore_settings" PROVE t \in Seq(Plain)
  <2>1. PICK r \in 1..n : CloseAt(s, 1, r)  BY <1>5 DEF Closing, n
  <2>2. r = 1
    <3> SUFFICES ASSUME r # 1 PROVE FALSE  OBVIOUS
    <3>1. 1 \in 1..(r - 1)  OBVIOUS
    <3>2. s[1] \in Middle  BY <2>1, <3>1 DEF CloseAt
    <3> QED  BY <1>5, <3>2, Ops
  <2>3. \A i \in 1..(n - 1) : t[i] \in Plain
    <3>1. \A i \in 2..n : s[i] \in Plain  BY <2>1, <2>2 DEF CloseAt, n
    <3>2. \A i \in 1..(n - 1) : i + 1 \in 2..n  BY <1>1
    <3> QED  BY <1>1, <3>1, <3>2
  <2> QED  BY <1>1, <2>3
<1>6. ASSUME Closing(s), s[1].op # "restore_settings" PROVE Closing(t) /\ s[1] \in Middle
  <2>1. PICK r \in 1..n : CloseAt(s, 1, r)  BY <1>6 DEF Closing, n
  <2>2. r # 1  BY <1>6, <2>1 DEF CloseAt
  <2>3. r \in 2..n /\ 1 \in 1..(r - 1) /\ 1 \in 1..2  BY <2>2
  <2>4. s[1] \in Middle  BY <2>1, <2>3 DEF CloseAt
  <2> QED  BY <1>3, <2>1, <2>3, <2>4
<1> QED  BY <1>2, <1>4, <1>5, <1>6 DEF t

LEMMA AfterStopIs ==
  ASSUME NEW s \in Seq(Operations), s # <<>>, Trailing(s), s[1].op = "burn"
  PROVE  /\ 3 \in 1..Len(s) /\ s[2].op = "measure" /\ s[3].op = "stop_burning"
         /\ AfterStop(s, s[1].step) = Tail(Tail(Tail(s)))
<1> DEFINE n == Len(s)
           step == s[1].step
           I == {i \in 1..n : s[i].op = "stop_burning" /\ s[i].step = step}
<1>1. n \in Nat /\ n >= 1  BY TailIs
<1>2. 3 \in 1..n /\ s[2].op = "measure" /\ s[3].op = "stop_burning" /\ s[3].step = s[1].step
  <2>1. 1 + 2 \in 1..n /\ s[1+1].op = "measure" /\ s[1+2].op = "stop_burning" /\ s[1+2].step = s[1].step
    BY <1>1 DEF Trailing
  <2>2. 1 + 1 = 2 /\ 1 + 2 = 3  OBVIOUS
  <2> QED  BY <2>1, <2>2, Zenon
<1>3. 3 \in I /\ I # {} /\ 1 \notin I /\ 2 \notin I  BY <1>2
<1>4. \A i \in I : 3 <= i  BY <1>1, <1>3
<1>5. Min(I) = 3
  <2> HIDE DEF I
  <2>1. I \subseteq Int  BY DEF I
  <2>2. 3 \in I /\ \A i \in I : 3 <= i  BY <1>3, <1>4
  <2>3. \A m \in I : (\A i \in I : m <= i) => m = 3
    <3> SUFFICES ASSUME NEW m \in I, \A i \in I : m <= i PROVE m = 3  OBVIOUS
    <3>1. m <= 3 /\ 3 <= m /\ m \in Int  BY <2>1, <2>2
    <3> QED  BY <3>1
  <2> QED  BY <2>2, <2>3, Zenon DEF Min
<1>6. AfterStop(s, step) = SubSeq(s, Min(I) + 1, n)
  BY <1>3 DEF AfterStop, SelectInSeq
<1>7. AfterStop(s, step) = SubSeq(s, 4, n)
  <2>1. 3 + 1 = 4  OBVIOUS
  <2> QED  BY <1>5, <1>6, <2>1, Zenon
<1>8. SubSeq(s, 4, n) = Tail(Tail(Tail(s)))
  <2> DEFINE a == Tail(s)
             b == Tail(a)
             c == Tail(b)
             d == SubSeq(s, 4, n)
  <2>1. a \in Seq(Operations) /\ Len(a) = n - 1 /\ \A i \in 1..(n - 1) : a[i] = s[i + 1]  BY TailIs
  <2> HIDE DEF a
  <2>2. a # <<>>  BY <1>2, <2>1
  <2>3. b \in Seq(Operations) /\ Len(b) = n - 2 /\ \A i \in 1..(n - 2) : b[i] = a[i + 1]
    BY <1>1, <2>1, <2>2, TailIs
  <2> HIDE DEF b
  <2>4. b # <<>>  BY <1>2, <2>3
  <2>5. c \in Seq(Operations) /\ Len(c) = n - 3 /\ \A i \in 1..(n - 3) : c[i] = b[i + 1]
    BY <1>1, <2>3, <2>4, TailIs
  <2> HIDE DEF c
  <2>6. d \in Seq(Operations) /\ Len(d) = n - 3 /\ \A i \in 1..(n - 3) : d[i] = s[i + 3]
    <3>1. n >= 3 /\ n \in Nat  BY <1>1, <1>2
    <3>2. /\ d \in Seq(Operations)
          /\ Len(d) = IF 4 <= n THEN n - 4 + 1 ELSE 0
          /\ \A i \in 1..(n - 4 + 1) : d[i] = s[4 + i - 1]
      <4>1. 4 \in 1..n + 1 /\ n \in 0..Len(s) /\ \A i \in 4..n : i \in 1..Len(s)  BY <3>1
      <4> QED  BY <4>1, SubSeqProperties
    <3> HIDE DEF d
    <3> HIDE DEF n
    <3>3. Len(d) = n - 3 /\ n - 4 + 1 = n - 3  BY <3>1, <3>2
    <3>4. \A i \in 1..(n - 3) : 4 + i - 1 = i + 3  OBVIOUS
    <3> QED  BY <3>2, <3>3, <3>4
  <2> HIDE DEF d
  <2>7. \A i \in 1..(n - 3) : c[i] = d[i]
    <3> TAKE i \in 1..(n - 3)
    <3>1. /\ i + 1 \in 1..(n - 2) /\ (i + 1) + 1 \in 1..(n - 1)
          /\ ((i + 1) + 1) + 1 = i + 3
      BY <1>1
    <3>2. c[i] = s[((i + 1) + 1) + 1]  BY <2>1, <2>3, <2>5, <3>1
    <3> QED  BY <2>6, <3>1, <3>2
  <2>8. d = c  BY <2>5, <2>6, <2>7, SeqEqual
  <2> QED  BY <2>8 DEF a, b, c, d
<1> QED  BY <1>2, <1>7, <1>8, Zenon
-----------------------------------------------------------------------------
(***************************************************************************)
(* Plans and settings: steps of the main thread.                           *)
(***************************************************************************)
PlanAndSettings == PlanInv /\ SettingsInv

LEMMA PopKeepsPlan ==
  ASSUME PlanInv, todo # <<>>, todo' = Tail(todo), at' = "next", todo[1].op # "burn"
  PROVE  PlanInv'
<1>1. todo \in Seq(Operations) /\ Trailing(todo)  BY DEF PlanInv
<1>2. todo' \in Seq(Operations)  BY <1>1, TailIs
<1>3. Trailing(todo')  BY <1>1, TrailingTail
<1>4. ~(2 \in 1..Len(todo') /\ todo'[2].op = "stop_burning")  BY <1>1, TrailingTail
<1>5. Trailing(todo)'  BY <1>3 DEF Trailing
<1> QED  BY <1>2, <1>4, <1>5 DEF PlanInv, Places

LEMMA PopKeepsSettings ==
  ASSUME PlanInv, SettingsInv, todo # <<>>, todo' = Tail(todo),
         saved_sysfs' = saved_sysfs, todo[1].op \notin {"save_settings", "restore_settings"},
         settings' = settings \/ todo[1].op = "write"
  PROVE  SettingsInv'
<1>1. todo \in Seq(Operations)  BY DEF PlanInv
<1>2. CASE todo \in Seq(Plain) /\ AsFound
  <2>1. todo' \in Seq(Plain)  BY <1>1, <1>2, CloseTail
  <2>2. todo[1] \in Plain  BY <1>2, TailIs
  <2>3. settings' = settings  BY <2>2, Ops
  <2> QED  BY <1>2, <2>1, <2>3 DEF SettingsInv, AsFound
<1>3. CASE Unstarted(todo) /\ AsFound  BY <1>1, <1>3, CloseTail
<1>4. CASE Closing(todo) /\ FoundIsSaved
  <2>1. Closing(todo')  BY <1>1, <1>4, CloseTail
  <2>2. Closing(todo)'  BY <2>1 DEF Closing, CloseAt
  <2> QED  BY <1>4, <2>2 DEF SettingsInv, FoundIsSaved
<1> QED  BY <1>2, <1>3, <1>4 DEF SettingsInv

\* Steps that neither begin nor end an operation, and change no setting.
LEMMA SamePlan ==
  ASSUME PlanAndSettings, todo' = todo, UNCHANGED <<settings, saved_sysfs, stop_measurement, burners>>,
         \/ at' = at
         \/ at' \in Places /\ (at = "next" \/ at \in Places) /\ todo # <<>> /\ todo[1].op = "measure"
  PROVE  PlanAndSettings'
<1>1. Trailing(todo)'  BY DEF Trailing, PlanAndSettings, PlanInv
<1>2. PlanInv'
  <2>1. at' = "off" => at = "off"  BY DEF Places
  <2>2. \A step : Loaded(step)' <=> Loaded(step)  BY DEF Loaded
  <2> QED  BY <1>1, <2>1, <2>2 DEF PlanAndSettings, PlanInv
<1>3. SettingsInv'
  BY DEF PlanAndSettings, SettingsInv, AsFound, FoundIsSaved, Unstarted, Closing, CloseAt
<1> QED  BY <1>2, <1>3 DEF PlanAndSettings

LEMMA ForgetKeepsPlan ==
  ASSUME ForgetAll
  PROVE  PlanAndSettings'
<1>1. at' = "off" /\ todo' = <<>> /\ settings' = Original  BY DEF ForgetAll
<1>2. PlanInv'
  <2>1. Len(<<>>) = 0 /\ <<>> \in Seq(Operations)  OBVIOUS
  <2>2. Trailing(todo)'  BY <1>1, <2>1 DEF Trailing
  <2> QED  BY <1>1, <2>1, <2>2 DEF PlanInv, Places
<1>3. SettingsInv'
  <2>1. <<>> \in Seq(Plain)  OBVIOUS
  <2> QED  BY <1>1, <2>1 DEF SettingsInv, AsFound
<1> QED  BY <1>2, <1>3 DEF PlanAndSettings

LEMMA InitKeepsPlan ==
  ASSUME PlanAndSettings, PowertopInit
  PROVE  PlanAndSettings'
<1>1. /\ at = "off" /\ at' = "next" /\ todo' \in Plans \cup LaterPlans
      /\ UNCHANGED <<settings, saved_sysfs, stop_measurement, burners>>
  BY DEF PowertopInit, calibrationVars
<1>2. todo' \in Seq(Operations) /\ Orderly(todo') /\ (todo' \in Seq(Plain) \/ Unstarted(todo'))
  BY <1>1, PlansAre
<1>3. todo = <<>>  BY <1>1 DEF PlanAndSettings, PlanInv
<1>4. AsFound
  <2>1. Len(<<>>) = 0  OBVIOUS
  <2>2. ~Unstarted(todo) /\ ~Closing(todo)  BY <1>3, <2>1 DEF Unstarted, Closing
  <2> QED  BY <2>2 DEF PlanAndSettings, SettingsInv
<1>5. AsFound'  BY <1>1, <1>4 DEF AsFound
<1>6. SettingsInv'
  <2>1. Unstarted(todo') => Unstarted(todo)'  BY DEF Unstarted, CloseAt
  <2> QED  BY <1>2, <1>5, <2>1 DEF SettingsInv
<1>7. \A i \in 1..Len(todo') : todo'[i].op = "stop_burning" => i >= 3
  BY <1>2 DEF Orderly
<1>8. Trailing(todo)'
  BY <1>2, <1>7 DEF Trailing, Orderly
<1>9. ~(2 \in 1..Len(todo') /\ todo'[2].op = "stop_burning")  BY <1>7
<1>10. PlanInv'  BY <1>1, <1>2, <1>8, <1>9 DEF PlanInv, Places
<1> QED  BY <1>6, <1>10 DEF PlanAndSettings

LEMMA Runs ==
  ASSUME PlanInv, NEW op, Running(op)
  PROVE  at = "next" /\ todo # <<>> /\ todo[1].op = op /\ Head(todo) = todo[1]
         /\ todo[1] \in Operations /\ todo \in Seq(Operations)
<1>1. todo \in Seq(Operations) /\ todo # <<>>  BY DEF PlanInv, Running
<1> QED  BY <1>1, TailIs DEF Running

LEMMA LoopKeepsPlan ==
  ASSUME PlanAndSettings, MainLoop
  PROVE  PlanAndSettings'
<1> DEFINE ms == [op |-> "measure", seconds |-> Long, interval |-> 1, kind |-> "display"]
           p == <<ms>>
           s == p \o todo
<1>1. /\ todo \in Seq(Operations) /\ todo # <<>> /\ todo[1].op = "loop" /\ at = "next" /\ at' = at
      /\ todo[1] \in Operations
      /\ UNCHANGED <<settings, saved_sysfs, stop_measurement, burners>>
  <2>1. Running("loop") /\ UNCHANGED <<at, calibrationVars>>  BY DEF MainLoop
  <2> QED  BY <2>1, Runs DEF PlanAndSettings, calibrationVars
<1>2. todo' = Tail(todo) \/ todo' = s  BY DEF MainLoop, Measurement
<1>3. CASE todo' = Tail(todo)
  BY <1>1, <1>3, PopKeepsPlan, PopKeepsSettings DEF PlanAndSettings
<1>4. CASE todo' = s
  <2>1. ms \in Plain /\ ms.op = "measure" /\ ms \in Operations
    BY FilesAssumption DEF Plain, Measures, Kinds, Operations
  <2> HIDE DEF ms
  <2>2. p \in Seq(Plain) /\ p \in Seq(Operations) /\ Len(p) = 1 /\ p[1] = ms  BY <2>1
  <2> HIDE DEF p
  <2>3. /\ s \in Seq(Operations) /\ Len(s) = 1 + Len(todo) /\ Len(todo) \in Nat
        /\ \A i \in 1..1 + Len(todo) : s[i] = IF i <= 1 THEN p[i] ELSE todo[i - 1]
    BY <1>1, <2>2, ConcatProperties
  <2> HIDE DEF s
  <2>4. \A i \in 2..Len(s) : s[i] = todo[i - 1] /\ i - 1 \in 1..Len(todo)
    BY <2>3
  <2>5. s[1] = ms
    <3>1. 1 \in 1..1 + Len(todo) /\ 1 <= 1  BY <2>3
    <3> QED  BY ONLY <2>2, <2>3, <3>1
  <2>6. Trailing(todo)  BY DEF PlanAndSettings, PlanInv
  <2>7. ASSUME NEW i \in 1..Len(s)
        PROVE  /\ s[i].op = "burn" =>
                    /\ i + 2 \in 1..Len(s)
                    /\ s[i+1].op = "measure"
                    /\ s[i+2].op = "stop_burning" /\ s[i+2].step = s[i].step
               /\ s[i].op = "stop_burning" =>
                    /\ i >= 3 => s[i-2].op = "burn"
                    /\ i = 2 => s[1].op = "measure"
    <3>1. CASE i = 1  BY <2>1, <2>5, <3>1
    <3>2. CASE i # 1
      <4> DEFINE j == i - 1
      <4>1. j \in 1..Len(todo) /\ s[i] = todo[j] /\ i \in 2..Len(s)
        BY <2>3, <2>4, <3>2
      <4>2. /\ todo[j].op = "burn" =>
                 /\ j + 2 \in 1..Len(todo)
                 /\ todo[j+1].op = "measure"
                 /\ todo[j+2].op = "stop_burning" /\ todo[j+2].step = todo[j].step
            /\ todo[j].op = "stop_burning" =>
                 /\ j >= 3 => todo[j-2].op = "burn"
                 /\ j = 2 => todo[1].op = "measure"
        BY <2>6, <4>1 DEF Trailing
      <4>3. /\ j + 2 \in 1..Len(todo) => i + 1 \in 2..Len(s) /\ i + 2 \in 2..Len(s)
            /\ (i + 1) - 1 = j + 1 /\ (i + 2) - 1 = j + 2
        BY <2>3
      <4>4. j + 2 \in 1..Len(todo) => s[i + 1] = todo[j + 1] /\ s[i + 2] = todo[j + 2]
        BY <2>4, <4>3
      <4>5. j >= 3 => i - 2 \in 2..Len(s) /\ (i - 2) - 1 = j - 2  BY <2>3
      <4>6. j >= 3 => s[i - 2] = todo[j - 2]  BY <2>4, <4>5
      <4>7. i >= 3 /\ j < 3 => j = 2  BY <4>1
      <4>8. j = 2 => todo[j].op # "stop_burning"  BY <1>1, <4>2
      <4>9. i + 2 \in 2..Len(s) => i + 2 \in 1..Len(s)  OBVIOUS
      <4> HIDE DEF j
      <4>10. ASSUME s[i].op = "burn"
             PROVE  /\ i + 2 \in 1..Len(s)
                    /\ s[i+1].op = "measure"
                    /\ s[i+2].op = "stop_burning" /\ s[i+2].step = s[i].step
        BY <4>1, <4>2, <4>3, <4>4, <4>9, <4>10
      <4>11. ASSUME s[i].op = "stop_burning", i >= 3 PROVE s[i-2].op = "burn"
        <5>1. j >= 3  BY <4>1, <4>7, <4>8, <4>11
        <5> QED  BY <4>1, <4>2, <4>6, <4>11, <5>1
      <4>12. s[1].op = "measure"  BY <2>1, <2>5
      <4> QED  BY <4>10, <4>11, <4>12
    <3> QED  BY <3>1, <3>2
  <2>8. Trailing(s)  BY <2>7 DEF Trailing
  <2>9. ~(2 \in 1..Len(s) /\ s[2].op = "stop_burning")
    <3> SUFFICES ASSUME 2 \in 1..Len(s) PROVE s[2].op # "stop_burning"  OBVIOUS
    <3>1. 2 \in 2..Len(s) /\ 2 - 1 = 1  OBVIOUS
    <3>2. s[2] = todo[1]  BY ONLY <2>4, <3>1
    <3> QED  BY <1>1, <3>2
  <2>10. PlanInv'
    <3>1. Trailing(todo)'  BY <1>4, <2>8 DEF Trailing
    <3> QED  BY <1>1, <1>4, <2>3, <2>9, <3>1 DEF PlanInv, Places
  <2>11. todo \in Seq(Plain) /\ AsFound
    <3>1. ~Unstarted(todo)  BY <1>1 DEF Unstarted
    <3>2. ~Closing(todo)
      <4>1. Closing(todo) => todo[1].op = "restore_settings" \/ todo[1] \in Middle  BY <1>1, CloseTail
      <4> QED  BY <1>1, <4>1, Ops
    <3> QED  BY <3>1, <3>2 DEF PlanAndSettings, SettingsInv
  <2>12. s \in Seq(Plain)  BY <2>2, <2>11, ConcatProperties DEF s
  <2> QED  BY <1>1, <1>4, <2>10, <2>11, <2>12 DEF PlanAndSettings, SettingsInv, AsFound
<1> QED  BY <1>2, <1>3, <1>4

LEMMA SettingsKeepPlan ==
  ASSUME PlanAndSettings, ChangeSettings
  PROVE  PlanAndSettings'
<1>0. PlanInv /\ SettingsInv /\ at' = at /\ todo' = Tail(todo)  BY DEF PlanAndSettings, ChangeSettings, Done
<1>1. CASE Running("save_settings") /\ saved_sysfs' = [f \in SavedFiles |-> settings[f]] /\ UNCHANGED settings
  <2>1. todo # <<>> /\ todo[1].op = "save_settings" /\ at = "next"
        /\ todo[1] \in Operations /\ todo \in Seq(Operations)
    BY <1>0, <1>1, Runs
  <2>2. PlanInv'  BY <1>0, <2>1, PopKeepsPlan
  <2>3. ~(todo \in Seq(Plain))  BY <2>1, TailIs, Ops
  <2>4. ~Closing(todo)  BY <2>1, CloseTail, Ops
  <2>5. AsFound /\ Closing(todo')  BY <1>0, <2>1, <2>3, <2>4, CloseTail DEF SettingsInv
  <2>6. FoundIsSaved'  BY <1>1, <2>5 DEF AsFound, FoundIsSaved
  <2>7. Closing(todo)'  BY <2>5 DEF Closing, CloseAt
  <2> QED  BY <2>2, <2>6, <2>7 DEF PlanAndSettings, SettingsInv
<1>2. CASE Running("write") /\ UNCHANGED saved_sysfs
  <2>1. todo # <<>> /\ todo[1].op = "write" /\ at = "next"  BY <1>0, <1>2, Runs
  <2> QED  BY <1>0, <1>2, <2>1, PopKeepsPlan, PopKeepsSettings DEF PlanAndSettings
<1>3. CASE Running("restore_settings") /\ RestoreAllSysfs
  <2>1. todo # <<>> /\ todo[1].op = "restore_settings" /\ at = "next"
        /\ todo[1] \in Operations /\ todo \in Seq(Operations)
    BY <1>0, <1>3, Runs
  <2>2. PlanInv'  BY <1>0, <2>1, PopKeepsPlan
  <2>3. ~(todo \in Seq(Plain))  BY <2>1, TailIs, Ops
  <2>4. ~Unstarted(todo)  BY <2>1 DEF Unstarted
  <2>5. Closing(todo) /\ FoundIsSaved  BY <1>0, <2>3, <2>4 DEF SettingsInv
  <2>6. todo' \in Seq(Plain)  BY <1>0, <2>1, <2>5, CloseTail
  <2>7. AsFound'
    BY <1>3, <2>5 DEF AsFound, FoundIsSaved, RestoreAllSysfs, SavedFiles
  <2> QED  BY <2>2, <2>6, <2>7 DEF PlanAndSettings, SettingsInv
<1> QED  BY <1>1, <1>2, <1>3 DEF ChangeSettings

\* Threads were all created, or the rest of the step is left out.
LEMMA BurnKeepsPlan ==
  ASSUME PlanAndSettings, StartBurners
  PROVE  PlanAndSettings'
<1>1. /\ at = "next" /\ todo # <<>> /\ todo[1].op = "burn" /\ Head(todo) = todo[1]
      /\ todo[1] \in Operations /\ todo \in Seq(Operations) /\ at' = at
      /\ UNCHANGED <<settings, saved_sysfs>>
  <2>1. Running("burn") /\ UNCHANGED <<at, settings, saved_sysfs>>  BY DEF StartBurners
  <2> QED  BY <2>1, Runs DEF PlanAndSettings
<1>2. Trailing(todo) /\ todo[1].n \in Nat /\ todo[1].n # 0
  <2>1. todo[1] \in Burns  BY <1>1, Ops
  <2> QED  BY <2>1 DEF PlanAndSettings, PlanInv, Burns, ThreadsOf
<1>3. PICK k \in 0..todo[1].n :
        /\ CreateBurners(todo[1].step, k)
        /\ todo' = IF k = todo[1].n THEN Tail(todo) ELSE AfterStop(todo, todo[1].step)
  BY <1>1, Zenon DEF StartBurners
<1>4. CASE k = todo[1].n
  <2>1. todo' = Tail(todo) /\ todo' \in Seq(Operations)  BY <1>1, <1>3, <1>4, TailIs
  <2>2. Trailing(todo')  BY <1>1, <1>2, <2>1, TrailingTail
  <2>3. Trailing(todo)'  BY <2>2 DEF Trailing
  <2>4. PICK step : step = todo[1].step  OBVIOUS
  <2>5. Loaded(step)'
    <3>1. stop_measurement' = FALSE  BY <1>3 DEF CreateBurners
    <3>2. CASE burners' = burners \cup {[step |-> step, n |-> i] : i \in 1..k}
      <4>1. 1 \in 1..k  BY <1>2, <1>4
      <4>2. [step |-> step, n |-> 1] \in burners'  BY <3>2, <4>1
      <4>3. \E b \in burners' : b.step = step  BY <4>2
      <4> QED  BY <3>1, <4>3 DEF Loaded
    <3>3. CASE step = "disk"  BY <3>1, <3>3 DEF Loaded
    <3> QED  BY <1>3, <2>4, <3>2, <3>3 DEF CreateBurners
  <2>6. PlanInv'
    <3>1. 2 \in 1..Len(todo') /\ todo'[2].op = "stop_burning" => todo'[2].step = step
      BY <1>1, <1>2, <2>1, <2>4, TrailingTail
    <3>2. 2 \in 1..Len(todo') /\ todo'[2].op = "stop_burning" => Loaded(todo[2].step)'
      BY <2>5, <3>1 DEF Loaded
    <3> QED  BY <1>1, <2>1, <2>3, <3>2 DEF PlanInv, Places
  <2>7. SettingsInv'  BY <1>1, <2>1, PopKeepsSettings DEF PlanAndSettings
  <2> QED  BY <2>6, <2>7 DEF PlanAndSettings
<1>5. CASE k # todo[1].n
  <2> DEFINE a == Tail(todo)
             b == Tail(a)
             c == Tail(b)
  <2>1. /\ 3 \in 1..Len(todo) /\ todo[2].op = "measure" /\ todo[3].op = "stop_burning"
        /\ todo' = c
    BY <1>1, <1>2, <1>3, <1>5, AfterStopIs
  <2>2. /\ a \in Seq(Operations) /\ Len(a) = Len(todo) - 1 /\ Trailing(a) /\ Len(todo) \in Nat
        /\ \A i \in 1..(Len(todo) - 1) : a[i] = todo[i + 1]
    BY <1>1, <1>2, TailIs, TrailingTail
  <2>3. a # <<>> /\ a[1] = todo[2]
    <3> HIDE DEF a
    <3>1. 1 \in 1..(Len(todo) - 1) /\ 1 + 1 = 2  BY <2>1, <2>2
    <3>2. a[1] = todo[1 + 1]  BY ONLY <2>2, <3>1
    <3> QED  BY <2>1, <2>2, <3>1, <3>2
  <2>4. /\ b \in Seq(Operations) /\ Len(b) = Len(a) - 1 /\ Trailing(b)
        /\ \A i \in 1..(Len(a) - 1) : b[i] = a[i + 1]
    BY <2>2, <2>3, TailIs, TrailingTail
  <2>5. b # <<>> /\ b[1] = todo[3]
    <3> HIDE DEF a, b
    <3>1. 1 \in 1..(Len(a) - 1) /\ 1 + 1 = 2 /\ 2 \in 1..(Len(todo) - 1) /\ 2 + 1 = 3  BY <2>1, <2>2
    <3>2. b[1] = a[1 + 1] /\ a[2] = todo[2 + 1]  BY ONLY <2>2, <2>4, <3>1
    <3> QED  BY <2>1, <2>2, <2>4, <3>1, <3>2
  <2>6. /\ c \in Seq(Operations) /\ Trailing(c)
        /\ ~(2 \in 1..Len(c) /\ c[2].op = "stop_burning")
    <3>1. b[1].op # "burn"  BY <2>1, <2>5
    <3> HIDE DEF b
    <3> QED  BY <2>4, <2>5, <3>1, TailIs, TrailingTail
  <2>7. PlanInv'
    <3>1. Trailing(todo)'  BY <2>1, <2>6 DEF Trailing
    <3> QED  BY <1>1, <2>1, <2>6, <3>1 DEF PlanInv, Places
  <2>8. SettingsInv'
    <3>1. CASE todo \in Seq(Plain) /\ AsFound
      <4>1. todo[1] \in Plain  BY <1>1, <3>1, TailIs
      <4> QED  BY <1>1, <4>1, Ops
    <3>2. CASE Unstarted(todo) /\ AsFound  BY <1>1, <3>2 DEF Unstarted
    <3>3. CASE Closing(todo) /\ FoundIsSaved
      <4>1. Closing(a)  BY <1>1, <3>3, CloseTail
      <4>2. a[1].op # "restore_settings"  BY <2>1, <2>3
      <4>3. Closing(b)
        <5> HIDE DEF a
        <5> QED  BY <2>2, <2>3, <4>1, <4>2, CloseTail
      <4>4. b[1].op # "restore_settings"  BY <2>1, <2>5
      <4>5. Closing(c)
        <5> HIDE DEF b
        <5> QED  BY <2>4, <2>5, <4>3, <4>4, CloseTail
      <4>6. Closing(todo)'  BY <2>1, <4>5 DEF Closing, CloseAt
      <4> QED  BY <1>1, <3>3, <4>6 DEF SettingsInv, FoundIsSaved
    <3> QED  BY <3>1, <3>2, <3>3 DEF PlanAndSettings, SettingsInv
  <2> QED  BY <2>7, <2>8 DEF PlanAndSettings
<1> QED  BY <1>4, <1>5

\* The flag is set for threads that were not created for the next measurement.
LEMMA StopKeepsPlan ==
  ASSUME PlanAndSettings, StopBurners
  PROVE  PlanAndSettings'
<1>1. /\ at = "next" /\ todo # <<>> /\ todo[1].op = "stop_burning" /\ todo \in Seq(Operations)
      /\ at' = at /\ UNCHANGED <<settings, saved_sysfs, burners>>
  <2>1. Running("stop_burning") /\ UNCHANGED <<at, settings, saved_sysfs, burners>>  BY DEF StopBurners
  <2> QED  BY <2>1, Runs DEF PlanAndSettings
<1>2. CASE todo' = Tail(todo)
  BY <1>1, <1>2, PopKeepsPlan, PopKeepsSettings DEF PlanAndSettings
<1>3. CASE todo' = todo
  <2>1. Trailing(todo)  BY DEF PlanAndSettings, PlanInv
  <2>2. ~(2 \in 1..Len(todo) /\ todo[2].op = "stop_burning")
    <3>1. todo[1].op # "measure"  BY <1>1
    <3> QED  BY <2>1, <3>1 DEF Trailing
  <2>3. Trailing(todo)'  BY <1>3, <2>1 DEF Trailing
  <2>4. PlanInv'  BY <1>1, <1>3, <2>2, <2>3 DEF PlanInv, Places
  <2>5. SettingsInv'
    BY <1>1, <1>3 DEF PlanAndSettings, SettingsInv, AsFound, FoundIsSaved, Unstarted, Closing, CloseAt
  <2> QED  BY <2>4, <2>5 DEF PlanAndSettings
<1> QED  BY <1>2, <1>3 DEF StopBurners

LEMMA BurnerEndKeepsPlan ==
  ASSUME PlanAndSettings, BurnerStep
  PROVE  PlanAndSettings'
<1>1. stop_measurement /\ UNCHANGED <<at, todo, settings, saved_sysfs, stop_measurement>>
  BY DEF BurnerStep, BurnerEnds, mainVars
<1>2. ~(2 \in 1..Len(todo) /\ todo[2].op = "stop_burning")
  BY <1>1 DEF PlanAndSettings, PlanInv, Loaded
<1>3. Trailing(todo)'  BY <1>1 DEF Trailing, PlanAndSettings, PlanInv
<1>4. PlanInv'  BY <1>1, <1>2, <1>3 DEF PlanAndSettings, PlanInv
<1>5. SettingsInv'
  BY <1>1 DEF PlanAndSettings, SettingsInv, AsFound, FoundIsSaved, Unstarted, Closing, CloseAt
<1> QED  BY <1>4, <1>5 DEF PlanAndSettings

\* The steps of a measurement of the main thread.
MeasurementStep ==
  \/ StartMeasurement \/ MainSleeps \/ WorkloadEnds \/ JoinBackground \/ MainSamples
  \/ EndExtech \/ EndBatteries

LEMMA MeasurementMoves ==
  ASSUME PlanAndSettings, MeasurementStep
  PROVE  /\ todo' = todo /\ UNCHANGED <<settings, saved_sysfs, stop_measurement, burners>>
         /\ at = "next" \/ at \in Places
         /\ at' \in Places /\ todo # <<>> /\ todo[1].op = "measure"
<1>1. todo' = todo /\ UNCHANGED calibrationVars
  BY DEF MeasurementStep, StartMeasurement, MainSleeps, WorkloadEnds, JoinBackground, MainSamples,
         EndExtech, EndBatteries
<1>2. UNCHANGED <<settings, saved_sysfs, stop_measurement, burners>>  BY <1>1 DEF calibrationVars
<1>3. CASE StartMeasurement
  <2>1. Running("measure") /\ at' \in Places  BY <1>3 DEF StartMeasurement, Places
  <2> QED  BY <1>1, <1>2, <2>1, Runs DEF PlanAndSettings
<1>4. CASE ~StartMeasurement
  <2>1. at \in Places /\ at' \in Places
    BY <1>4 DEF MeasurementStep, MainSleeps, WorkloadEnds, JoinBackground, Joinable, MainSamples,
         EndExtech, EndBatteries, Places
  <2> QED  BY <1>1, <1>2, <2>1 DEF PlanAndSettings, PlanInv
<1> QED  BY <1>3, <1>4

LEMMA StoreKeepsPlan ==
  ASSUME PlanAndSettings, StoreResults
  PROVE  PlanAndSettings'
<1>1. at = "store" /\ at' = "next" /\ todo' = Tail(todo) /\ UNCHANGED <<settings, saved_sysfs>>
  BY DEF StoreResults, calibrationVars
<1>2. todo # <<>> /\ todo[1].op = "measure"  BY <1>1 DEF PlanAndSettings, PlanInv, Places
<1> QED  BY <1>1, <1>2, PopKeepsPlan, PopKeepsSettings DEF PlanAndSettings

LEMMA SaveKeepsPlan ==
  ASSUME PlanAndSettings, SavesResults \/ SavesParameters
  PROVE  PlanAndSettings'
<1>1. PICK op \in {"save_results", "save_parameters"} : Running(op)  BY DEF SavesResults, SavesParameters
<1>2. todo' = Tail(todo) /\ at' = at /\ UNCHANGED calibrationVars
  BY DEF SavesResults, SavesParameters, Done
<1>3. at = "next" /\ todo # <<>> /\ todo[1].op = op  BY <1>1, Runs DEF PlanAndSettings
<1>4. UNCHANGED <<settings, saved_sysfs>>  BY <1>2 DEF calibrationVars
<1> QED  BY <1>2, <1>3, <1>4, PopKeepsPlan, PopKeepsSettings DEF PlanAndSettings

\* No step loses the order of the plan, or the settings.
LEMMA StepKeepsPlan ==
  ASSUME PlanAndSettings, [Next]_vars
  PROVE  PlanAndSettings'
<1>1. CASE PowertopInit  BY <1>1, InitKeepsPlan
<1>2. CASE RemoveFiles \/ SamplerStep \/ BackgroundStep \/ TimePasses \/ UNCHANGED vars
  <2>1. UNCHANGED <<at, todo, calibrationVars>>
    BY <1>2 DEF RemoveFiles, SamplerStep, BackgroundStep, TimePasses, vars, mainVars
  <2>2. UNCHANGED <<settings, saved_sysfs, stop_measurement, burners>>  BY <2>1 DEF calibrationVars
  <2> QED  BY <2>1, <2>2, SamePlan
<1>3. CASE Exit \/ Crash \/ CrashWhileSaving
  BY <1>3, ForgetKeepsPlan DEF Exit, Crash, CrashWhileSaving
<1>4. CASE MainStep
  <2>1. CASE MeasurementStep  BY <2>1, MeasurementMoves, SamePlan
  <2>2. CASE SavesResults \/ SavesParameters  BY <2>2, SaveKeepsPlan
  <2>3. CASE ~MeasurementStep /\ ~SavesResults /\ ~SavesParameters
    BY <1>4, <2>3, LoopKeepsPlan, StoreKeepsPlan, SettingsKeepPlan, BurnKeepsPlan, StopKeepsPlan
    DEF MainStep, MeasurementStep
  <2> QED  BY <2>1, <2>2, <2>3
<1>5. CASE BurnerStep  BY <1>5, BurnerEndKeepsPlan
<1> QED  BY <1>1, <1>2, <1>3, <1>4, <1>5 DEF Next

LEMMA InitPlan ==
  ASSUME Init
  PROVE  PlanAndSettings
<1>1. at = "off" /\ todo = <<>> /\ settings = Original  BY DEF Init, CalibrationInit
<1>2. Len(<<>>) = 0 /\ <<>> \in Seq(Operations) /\ <<>> \in Seq(Plain)  OBVIOUS
<1>3. Trailing(todo)  BY <1>1, <1>2 DEF Trailing
<1> QED  BY <1>1, <1>2, <1>3 DEF PlanAndSettings, PlanInv, SettingsInv, AsFound, Places
-----------------------------------------------------------------------------
(***************************************************************************)
(* The threads that load the machine.                                      *)
(***************************************************************************)
\* The step is to be stopped next, or after the measurement at hand.
AtHand(plan, step) ==
  \E i \in 1..Len(plan) : i \in {1, 2} /\ plan[i].op = "stop_burning" /\ plan[i].step = step

BurnersInv == \A b \in burners : AtHand(todo, b.step) \/ LeftBehind(b)

\* Before operations that are not those of a step, nothing is at hand.
LEMMA NothingAtHand ==
  ASSUME PlanInv, BurnersInv, todo # <<>> => todo[1].op \notin {"measure", "stop_burning"}
  PROVE  \A b \in burners : LeftBehind(b)
<1>1. Trailing(todo) /\ todo \in Seq(Operations)  BY DEF PlanInv
<1>2. ASSUME NEW step, AtHand(todo, step) PROVE FALSE
  <2>1. PICK i \in 1..Len(todo) : i \in {1, 2} /\ todo[i].op = "stop_burning"  BY <1>2 DEF AtHand
  <2>2. todo # <<>>  BY <1>1, <2>1
  <2>3. i = 2 => todo[1].op = "measure"  BY <1>1, <2>1 DEF Trailing
  <2> QED  BY <2>1, <2>2, <2>3
<1> QED  BY <1>2 DEF BurnersInv

\* A measurement is over: what was to be stopped after it is to be stopped next.
LEMMA StoreKeepsBurners ==
  ASSUME PlanInv, BurnersInv, todo # <<>>, todo[1].op = "measure", todo' = Tail(todo), burners' = burners
  PROVE  BurnersInv'
<1>1. Trailing(todo) /\ todo \in Seq(Operations)  BY DEF PlanInv
<1>2. /\ Len(todo) \in Nat /\ Len(todo') = Len(todo) - 1
      /\ \A i \in 1..(Len(todo) - 1) : todo'[i] = todo[i + 1]
  BY <1>1, TailIs
<1>3. ASSUME NEW step, AtHand(todo, step) PROVE AtHand(todo', step)
  <2>1. PICK i \in 1..Len(todo) : i \in {1, 2} /\ todo[i].op = "stop_burning" /\ todo[i].step = step
    BY <1>3 DEF AtHand
  <2>2. i = 2  BY <2>1
  <2>3. 1 \in 1..(Len(todo) - 1) /\ 1 + 1 = 2  BY <1>2, <2>1, <2>2
  <2>4. todo'[1] = todo[2]  BY ONLY <1>2, <2>3
  <2>5. 1 \in 1..Len(todo')  BY <1>2, <2>3
  <2> QED  BY <2>1, <2>2, <2>4, <2>5 DEF AtHand
<1>4. ASSUME NEW b \in burners PROVE AtHand(todo', b.step) \/ LeftBehind(b)
  BY <1>3 DEF BurnersInv
<1> QED  BY <1>4 DEF BurnersInv, AtHand, LeftBehind

\* What ends or does not begin leaves the others as they are.
LEMMA FewerBurners ==
  ASSUME BurnersInv, burners' \subseteq burners, todo' = todo \/ \A b \in burners : LeftBehind(b)
  PROVE  BurnersInv'
BY DEF BurnersInv, AtHand, LeftBehind

\* Threads of a step are followed by its measurement, and are stopped after it; when
\* one could not be created, there are others of the step only if it has several.
LEMMA BurnKeepsBurners ==
  ASSUME PlanAndSettings, BurnersInv, StartBurners
  PROVE  BurnersInv'
<1>1. /\ todo # <<>> /\ todo[1].op = "burn" /\ Head(todo) = todo[1]
      /\ todo[1] \in Operations /\ todo \in Seq(Operations)
  <2>1. Running("burn")  BY DEF StartBurners
  <2> QED  BY <2>1, Runs DEF PlanAndSettings
<1>2. Trailing(todo) /\ todo[1].n \in Nat /\ todo[1].n = ThreadsOf(todo[1].step)
  <2>1. todo[1] \in Burns  BY <1>1, Ops
  <2> QED  BY <2>1 DEF PlanAndSettings, PlanInv, Burns
<1>3. PICK k \in 0..todo[1].n :
        /\ CreateBurners(todo[1].step, k)
        /\ todo' = IF k = todo[1].n THEN Tail(todo) ELSE AfterStop(todo, todo[1].step)
  BY <1>1, Zenon DEF StartBurners
<1>4. \A b \in burners : LeftBehind(b)  BY <1>1, NothingAtHand DEF PlanAndSettings
<1>5. PICK step : step = todo[1].step  OBVIOUS
<1>6. ASSUME NEW b \in burners', b \notin burners
      PROVE  \E i \in 1..k : b = [step |-> step, n |-> i]
  BY <1>3, <1>5, <1>6 DEF CreateBurners
<1>7. CASE k = todo[1].n
  <2>1. todo' = Tail(todo)  BY <1>3, <1>7
  <2>2. 1 + 2 \in 1..Len(todo) /\ todo[1 + 2].op = "stop_burning" /\ todo[1 + 2].step = step
    <3>1. 1 \in 1..Len(todo)  BY <1>1
    <3> QED  BY <1>1, <1>2, <1>5, <3>1 DEF Trailing
  <2>3. /\ Len(todo) \in Nat /\ Len(todo') = Len(todo) - 1
        /\ \A i \in 1..(Len(todo) - 1) : todo'[i] = todo[i + 1]
    BY <1>1, <2>1, TailIs
  <2>4. 2 \in 1..(Len(todo) - 1) /\ 2 + 1 = 1 + 2  BY <2>2, <2>3
  <2>5. todo'[2] = todo[1 + 2]  BY ONLY <2>3, <2>4
  <2>6. AtHand(todo', step)
    <3>1. 2 \in 1..Len(todo')  BY <2>3, <2>4
    <3> QED  BY <2>2, <2>5, <3>1 DEF AtHand
  <2>7. ASSUME NEW b \in burners' PROVE AtHand(todo', b.step) \/ LeftBehind(b)
    <3>1. CASE b \in burners  BY <1>4, <3>1
    <3>2. CASE b \notin burners
      <4>1. b.step = step  BY <1>6, <3>2
      <4> QED  BY <2>6, <4>1
    <3> QED  BY <3>1, <3>2
  <2> QED  BY <2>7 DEF BurnersInv, AtHand, LeftBehind
<1>8. CASE k # todo[1].n
  <2>1. ASSUME NEW b \in burners' PROVE LeftBehind(b)
    <3>1. CASE b \in burners  BY <1>4, <3>1
    <3>2. CASE b \notin burners
      <4>1. PICK i \in 1..k : b = [step |-> step, n |-> i]  BY <1>6, <3>2
      <4>2. i < ThreadsOf(step) /\ i >= 1  BY <1>2, <1>3, <1>5, <1>8
      <4>3. step = "cpu_4" /\ i # 2  BY <4>2 DEF ThreadsOf
      <4> QED  BY <4>1, <4>3 DEF LeftBehind
    <3> QED  BY <3>1, <3>2
  <2> QED  BY <2>1 DEF BurnersInv, LeftBehind
<1> QED  BY <1>7, <1>8

\* The threads of a step are over when its stop is.
LEMMA StopKeepsBurners ==
  ASSUME PlanAndSettings, BurnersInv, StopBurners
  PROVE  BurnersInv'
<1>1. todo # <<>> /\ todo[1].op = "stop_burning" /\ Head(todo) = todo[1] /\ burners' = burners
  <2>1. Running("stop_burning") /\ UNCHANGED burners  BY DEF StopBurners
  <2> QED  BY <2>1, Runs DEF PlanAndSettings
<1>2. CASE todo' = todo  BY <1>1, <1>2, FewerBurners
<1>3. CASE todo' # todo
  <2>1. \A b \in burners : b.step # todo[1].step  BY <1>1, <1>3 DEF StopBurners
  <2>2. Trailing(todo)  BY DEF PlanAndSettings, PlanInv
  <2>3. ASSUME NEW b \in burners, AtHand(todo, b.step) PROVE FALSE
    <3>1. PICK i \in 1..Len(todo) : i \in {1, 2} /\ todo[i].op = "stop_burning" /\ todo[i].step = b.step
      BY <2>3 DEF AtHand
    <3>2. i = 2 => todo[1].op = "measure"  BY <2>2, <3>1 DEF Trailing
    <3> QED  BY <1>1, <2>1, <3>1, <3>2
  <2>4. \A b \in burners : LeftBehind(b)  BY <2>3 DEF BurnersInv
  <2> QED  BY <1>1, <2>4, FewerBurners
<1> QED  BY <1>2, <1>3

LEMMA StepKeepsBurners ==
  ASSUME PlanAndSettings, BurnersInv, [Next]_vars
  PROVE  BurnersInv'
<1>0. PlanInv  BY DEF PlanAndSettings
<1>1. CASE PowertopInit
  <2>1. at = "off" /\ burners' = burners  BY <1>1 DEF PowertopInit, calibrationVars
  <2>2. todo = <<>>  BY <1>0, <2>1 DEF PlanInv
  <2> QED  BY <1>0, <2>1, <2>2, NothingAtHand, FewerBurners
<1>2. CASE RemoveFiles \/ SamplerStep \/ BackgroundStep \/ TimePasses \/ UNCHANGED vars
  <2>1. UNCHANGED <<todo, calibrationVars>>
    BY <1>2 DEF RemoveFiles, SamplerStep, BackgroundStep, TimePasses, vars, mainVars
  <2> QED  BY <2>1, FewerBurners DEF calibrationVars
<1>3. CASE Exit \/ Crash \/ CrashWhileSaving
  <2>1. burners' = {}  BY <1>3 DEF Exit, Crash, CrashWhileSaving, ForgetAll
  <2> QED  BY <2>1 DEF BurnersInv
<1>4. CASE MainStep
  <2>1. CASE MeasurementStep
    <3>1. todo' = todo /\ burners' = burners  BY <2>1, MeasurementMoves
    <3> QED  BY <3>1, FewerBurners
  <2>2. CASE SavesResults \/ SavesParameters \/ MainLoop \/ ChangeSettings
    <3>1. PICK op \in {"save_results", "save_parameters", "loop", "save_settings", "write", "restore_settings"} :
            Running(op)
      BY <2>2 DEF SavesResults, SavesParameters, MainLoop, ChangeSettings
    <3>2. burners' = burners
      BY <2>2 DEF SavesResults, SavesParameters, MainLoop, ChangeSettings, calibrationVars
    <3>3. todo[1].op \notin {"measure", "stop_burning"}  BY <1>0, <3>1, Runs
    <3> QED  BY <1>0, <3>2, <3>3, NothingAtHand, FewerBurners
  <2>3. CASE StoreResults
    <3>1. at = "store" /\ todo' = Tail(todo) /\ burners' = burners
      BY <2>3 DEF StoreResults, calibrationVars
    <3>2. todo # <<>> /\ todo[1].op = "measure"  BY <1>0, <3>1 DEF PlanInv, Places
    <3> QED  BY <1>0, <3>1, <3>2, StoreKeepsBurners
  <2> QED
    BY <1>4, <2>1, <2>2, <2>3, BurnKeepsBurners, StopKeepsBurners DEF MainStep, MeasurementStep
<1>5. CASE BurnerStep
  <2>1. todo' = todo /\ burners' \subseteq burners  BY <1>5 DEF BurnerStep, BurnerEnds, mainVars
  <2> QED  BY <2>1, FewerBurners
<1> QED  BY <1>1, <1>2, <1>3, <1>4, <1>5 DEF Next
-----------------------------------------------------------------------------
(***************************************************************************)
(* The energy.                                                             *)
(***************************************************************************)
LEMMA ForgetKeepsEnergy ==
  ASSUME ForgetAll
  PROVE  EnergyInv'
BY DEF ForgetAll, EnergyInv, Threads

LEMMA StartKeepsEnergy ==
  ASSUME PlanAndSettings, EnergyInv, StartMeasurement
  PROVE  EnergyInv'
<1>1. at = "next" /\ todo[1] \in Measures /\ Head(todo) = todo[1]
  <2>1. Running("measure")  BY DEF StartMeasurement
  <2> QED  BY <2>1, Runs, Ops DEF PlanAndSettings
<1>2. background = "none"  BY <1>1 DEF EnergyInv
<1>3. now' = 0 /\ tlast' = 0 /\ sampled' = 0 /\ tnow' = [t \in Threads |-> 0]
  BY DEF StartMeasurement, StartPowerMeasurement
<1>4. CASE at' = "workload" /\ left' = 0 /\ background' \in {"check", "none"}
  BY <1>3, <1>4 DEF EnergyInv, Threads
<1>5. CASE at' = "sleep" /\ left' = Head(todo).seconds /\ background' = background
  BY <1>1, <1>2, <1>3, <1>5 DEF EnergyInv, Threads, Measures
<1> QED  BY <1>4, <1>5 DEF StartMeasurement, backgroundVars

LEMMA SleepKeepsEnergy ==
  ASSUME PlanAndSettings, EnergyInv, MainSleeps
  PROVE  EnergyInv'
<1>1. at = "sleep" /\ at' = "clock" /\ UNCHANGED <<energyVars, backgroundVars>>  BY DEF MainSleeps
<1>2. Head(todo).interval \in Int
  <2>1. todo # <<>> /\ todo[1].op = "measure" /\ todo \in Seq(Operations)
    BY <1>1 DEF PlanAndSettings, PlanInv, Places
  <2>2. Head(todo) \in Measures  BY <2>1, TailIs, Ops
  <2> QED  BY <2>2 DEF Measures
<1>3. now' \in Int /\ left' \in Int  BY <1>2 DEF MainSleeps, EnergyInv
<1> QED  BY <1>1, <1>3 DEF EnergyInv, energyVars, backgroundVars

LEMMA MainSamplesKeepEnergy ==
  ASSUME EnergyInv, MainSamples
  PROVE  EnergyInv'
<1>1. /\ at \in {"clock", "energy", "last"} /\ background = "none"
      /\ UNCHANGED <<left, now, background>> /\ "main" \in Threads
  BY DEF MainSamples, backgroundVars, EnergyInv, Threads
<1>2. CASE at = "clock" /\ at' = "energy" /\ ReadClock("main") /\ UNCHANGED <<results_power, sampled, tlast>>
  BY <1>1, <1>2 DEF EnergyInv, ReadClock
<1>3. CASE at = "energy" /\ at' = "last" /\ AddEnergy("main")
  BY <1>1, <1>3 DEF EnergyInv, AddEnergy
<1>4. CASE at = "last" /\ at' = (IF left > 0 THEN "sleep" ELSE "end") /\ SetLast("main")
  BY <1>1, <1>4 DEF EnergyInv, SetLast
<1> QED  BY <1>2, <1>3, <1>4 DEF MainSamples

LEMMA BackgroundKeepsEnergy ==
  ASSUME EnergyInv, BackgroundStep
  PROVE  EnergyInv'
<1>1. /\ background \in {"check", "sleep", "energy", "last"} /\ UNCHANGED <<at, left, now>>
      /\ "background" \in Threads
  BY DEF BackgroundStep, BackgroundChecks, BackgroundWakes, BackgroundSamples, mainVars, Threads
<1>2. at \in {"workload", "join"}  BY <1>1 DEF EnergyInv
<1>3. CASE BackgroundChecks
  BY <1>1, <1>2, <1>3 DEF EnergyInv, BackgroundChecks, energyVars
<1>4. CASE BackgroundWakes
  BY <1>1, <1>2, <1>4 DEF EnergyInv, BackgroundWakes, ReadClock
<1>5. CASE BackgroundSamples
  BY <1>1, <1>2, <1>5 DEF EnergyInv, BackgroundSamples, AddEnergy, SetLast
<1> QED  BY <1>3, <1>4, <1>5 DEF BackgroundStep

\* Steps that neither sample nor wait.
LEMMA SameEnergy ==
  ASSUME EnergyInv, UNCHANGED <<now, sampled, tlast, tnow, background>>, left' = left \/ left' = 0,
         \/ at' = at
         \/ at = "off" /\ at' = "next"
         \/ at \in {"workload", "join"} /\ at' = "join"
         \/ at \in {"end", "extech", "batteries"} /\ at' \in {"extech", "batteries", "store"}
         \/ at = "store" /\ at' = "next"
  PROVE  EnergyInv'
BY DEF EnergyInv

LEMMA StepKeepsEnergy ==
  ASSUME PlanAndSettings, EnergyInv, [Next]_vars
  PROVE  EnergyInv'
<1>1. CASE PowertopInit
  BY <1>1, SameEnergy DEF PowertopInit, meters, energyVars, backgroundVars
<1>2. CASE RemoveFiles \/ SamplerStep \/ BurnerStep \/ UNCHANGED vars
  BY <1>2, SameEnergy
  DEF RemoveFiles, SamplerStep, BurnerStep, vars, mainVars, meters, energyVars, backgroundVars
<1>3. CASE TimePasses
  <2>1. UNCHANGED <<at, left, sampled, tlast, tnow, background>> /\ now' = now + 1
    BY <1>3 DEF TimePasses, mainVars, energyVars, backgroundVars
  <2> QED  BY <2>1 DEF EnergyInv
<1>4. CASE Exit \/ Crash \/ CrashWhileSaving
  BY <1>4, ForgetKeepsEnergy DEF Exit, Crash, CrashWhileSaving
<1>5. CASE BackgroundStep  BY <1>5, BackgroundKeepsEnergy
<1>6. CASE MainStep
  <2>1. CASE SavesResults \/ SavesParameters \/ ChangeSettings
    BY <2>1, SameEnergy
    DEF SavesResults, SavesParameters, ChangeSettings, Done, meters, energyVars, backgroundVars
  <2>2. CASE MainLoop \/ StartBurners \/ StopBurners
    BY <2>2, SameEnergy DEF MainLoop, StartBurners, StopBurners, meters, energyVars, backgroundVars
  <2>3. CASE WorkloadEnds
    BY <2>3, SameEnergy DEF WorkloadEnds, energyVars
  <2>4. CASE JoinBackground
    <3>1. /\ at = "join" /\ at' = "clock" /\ background \in {"none", "done"} /\ background' = "none"
          /\ UNCHANGED <<left, now, sampled, tlast, tnow>>
      BY <2>4 DEF JoinBackground, Joinable, energyVars
    <3> QED  BY <3>1 DEF EnergyInv
  <2>5. CASE EndExtech \/ EndBatteries
    BY <2>5, SameEnergy DEF EndExtech, EndBatteries, energyVars, backgroundVars
  <2>6. CASE StoreResults
    BY <2>6, SameEnergy DEF StoreResults, backgroundVars
  <2> QED  BY <1>6, <2>1, <2>2, <2>3, <2>4, <2>5, <2>6, StartKeepsEnergy, SleepKeepsEnergy,
              MainSamplesKeepEnergy DEF MainStep
<1> QED  BY <1>1, <1>2, <1>3, <1>4, <1>5, <1>6 DEF Next
-----------------------------------------------------------------------------
(***************************************************************************)
(* The thread of the Extech.                                               *)
(***************************************************************************)
LEMMA NoSamplerIs ==
  /\ NoSampler \in [at : {"none", "check", "asked", "done"}, turn : Int]
  /\ NoSampler.at = "none"
BY DEF NoSampler

LEMMA ForgetKeepsSampler ==
  ASSUME ForgetAll
  PROVE  SamplerInv'
<1>1. turn' = 0 /\ samples' = <<>>  BY DEF ForgetAll
<1>2. samples' \in Seq([watts : ExtechWatts, turn : {turn}])'  BY <1>1
<1>3. ~thread_started' /\ thread_started' \in BOOLEAN  BY Zenon DEF ForgetAll
<1>4. sampler' = NoSampler  BY DEF ForgetAll
<1> QED  BY <1>1, <1>2, <1>3, <1>4, NoSamplerIs DEF SamplerInv

\* Steps that the thread is not concerned with.
LEMMA SameSampler ==
  ASSUME SamplerInv, UNCHANGED <<turn, samples, sampler, thread_started>>,
         at' \in {"off", "next", "batteries", "store"} => at \in {"off", "next", "batteries", "store"}
  PROVE  SamplerInv'
BY DEF SamplerInv

LEMMA StartKeepsSampler ==
  ASSUME SamplerInv, StartMeasurement
  PROVE  SamplerInv'
<1>1. at = "next" /\ at' \in {"workload", "sleep"} /\ turn' = 1 - turn /\ StartSampling
  BY DEF StartMeasurement, Running, StartPowerMeasurement
<1>2. ~thread_started /\ sampler.at = "none" /\ turn \in Int
  BY <1>1 DEF SamplerInv
<1>3. samples' = <<>>  BY <1>1 DEF StartSampling
<1>4. CASE sampler' = [at |-> "check", turn |-> 1 - turn] /\ thread_started' = TRUE
  BY <1>1, <1>2, <1>3, <1>4 DEF SamplerInv
<1>5. CASE UNCHANGED <<sampler, thread_started>>
  BY <1>1, <1>2, <1>3, <1>5 DEF SamplerInv
<1> QED  BY <1>1, <1>4, <1>5 DEF StartSampling

LEMMA SamplerKeepsSampler ==
  ASSUME SamplerInv, SamplerStep
  PROVE  SamplerInv'
<1>1. UNCHANGED <<at, turn, thread_started>>
  BY DEF SamplerStep, SamplerChecks, SamplerReads, mainVars
<1>2. thread_started /\ turn \in Int
  BY DEF SamplerInv, SamplerStep, SamplerChecks, SamplerReads
<1>3. CASE SamplerChecks
  <2>1. samples' = samples  BY <1>3 DEF SamplerChecks
  <2>2. sampler' = [sampler EXCEPT !.at = "done"] \/ sampler' = [at |-> "asked", turn |-> turn]
    BY <1>3 DEF SamplerChecks
  <2> QED  BY <1>1, <1>2, <2>1, <2>2 DEF SamplerInv
<1>4. CASE SamplerReads
  <2>1. sampler.turn = turn /\ sampler' = [sampler EXCEPT !.at = "check"]  BY <1>4 DEF SamplerReads, SamplerInv
  <2>2. samples' \in Seq([watts : ExtechWatts, turn : {turn}])
    <3>1. PICK watts \in ExtechWatts :
            samples' = IF watts < 0 THEN samples ELSE Append(samples, [watts |-> watts, turn |-> sampler.turn])
      BY <1>4 DEF SamplerReads
    <3>2. [watts |-> watts, turn |-> sampler.turn] \in [watts : ExtechWatts, turn : {turn}]  BY <2>1
    <3>3. samples \in Seq([watts : ExtechWatts, turn : {turn}])  BY DEF SamplerInv
    <3> QED  BY <3>1, <3>2, <3>3, AppendProperties
  <2> QED  BY <1>1, <1>2, <2>1, <2>2 DEF SamplerInv
<1> QED  BY <1>3, <1>4 DEF SamplerStep

LEMMA StepKeepsSampler ==
  ASSUME SamplerInv, [Next]_vars
  PROVE  SamplerInv'
<1>1. CASE PowertopInit
  BY <1>1, SameSampler DEF PowertopInit, meters, extechVars
<1>2. CASE RemoveFiles \/ BackgroundStep \/ BurnerStep \/ TimePasses \/ UNCHANGED vars
  BY <1>2, SameSampler
  DEF RemoveFiles, BackgroundStep, BurnerStep, TimePasses, vars, mainVars, meters, extechVars
<1>3. CASE SamplerStep  BY <1>3, SamplerKeepsSampler
<1>4. CASE Exit \/ Crash \/ CrashWhileSaving
  BY <1>4, ForgetKeepsSampler DEF Exit, Crash, CrashWhileSaving
<1>5. CASE MainStep
  <2>1. CASE SavesResults \/ SavesParameters \/ ChangeSettings
    BY <2>1, SameSampler DEF SavesResults, SavesParameters, ChangeSettings, Done, meters, extechVars
  <2>2. CASE MainLoop \/ StartBurners \/ StopBurners
    BY <2>2, SameSampler DEF MainLoop, StartBurners, StopBurners, meters, extechVars
  <2>3. CASE MainSleeps \/ WorkloadEnds \/ JoinBackground \/ MainSamples
    <3>1. at' \notin {"off", "next", "batteries", "store"}
      BY <2>3 DEF MainSleeps, WorkloadEnds, JoinBackground, MainSamples
    <3>2. UNCHANGED <<turn, extechVars>>
      BY <2>3 DEF MainSleeps, WorkloadEnds, JoinBackground, MainSamples
    <3> QED  BY <3>1, <3>2, SameSampler DEF extechVars
  <2>4. CASE EndExtech
    <3>1. CASE at = "end" /\ at' = "extech" /\ StopSampling
      BY <2>4, <3>1, SameSampler DEF EndExtech, StopSampling
    <3>2. CASE JoinSampler
      <4>1. sampler' = NoSampler /\ UNCHANGED <<samples, turn>>
        BY <2>4, <3>2 DEF EndExtech, JoinSampler
      <4>2. ~thread_started' /\ thread_started' \in BOOLEAN  BY <3>2, Zenon DEF JoinSampler
      <4> QED  BY <4>1, <4>2, NoSamplerIs DEF SamplerInv
    <3> QED  BY <2>4, <3>1, <3>2 DEF EndExtech
  <2>5. CASE EndBatteries \/ StoreResults
    BY <2>5, SameSampler DEF EndBatteries, StoreResults, extechVars
  <2> QED  BY <1>5, <2>1, <2>2, <2>3, <2>4, <2>5, StartKeepsSampler DEF MainStep
<1> QED  BY <1>1, <1>2, <1>3, <1>4, <1>5 DEF Next
-----------------------------------------------------------------------------
(***************************************************************************)
(* The folds over lines and names.                                         *)
(***************************************************************************)
\* What is kept after each name.
LEMMA RegisterRuns ==
  ASSUME NEW S, NEW ps \in Seq(S), NEW table,
         NEW A, table \in A, \A a \in A : \A x \in S : RegisterDevice(a, x) \in A
  PROVE  \E t \in [0..Len(ps) -> A] :
           /\ t[0] = table /\ t[Len(ps)] = RegisterAll(table, ps)
           /\ \A k \in 1..Len(ps) : t[k] = RegisterDevice(t[k - 1], ps[k])
<1> DEFINE f == [a \in A |-> [x \in S |-> RegisterDevice(a, x)]]
           Behind(g) == g = [s \in SUBSET DOMAIN ps |->
                               IF s = {} THEN table ELSE RegisterDevice(g[s \ {Max(s)}], ps[Max(s)])]
<1>0. DOMAIN ps = 1..Len(ps)  OBVIOUS
<1>1. \E g : Behind(g)
  <2>1. \A a \in A : \A x \in S : f[a][x] = RegisterDevice(a, x)  OBVIOUS
  <2> HIDE DEF f
  <2>2. \A a \in A : \A x \in S : f[a][x] \in A  BY <2>1
  <2>3. PICK g : Folded(f, table, ps, g) /\ \A s \in SUBSET DOMAIN ps : g[s] \in A
    BY <2>2, LeftFold
  <2>4. ASSUME NEW s \in SUBSET DOMAIN ps, s # {}
        PROVE  f[g[s \ {Max(s)}]][ps[Max(s)]] = RegisterDevice(g[s \ {Max(s)}], ps[Max(s)])
    <3>1. Max(s) \in s  BY <2>4, MaxIn
    <3>2. ps[Max(s)] \in S /\ g[s \ {Max(s)}] \in A  BY <2>3, <3>1
    <3> QED  BY <2>1, <3>2
  <2>5. Behind(g)  BY <2>3, <2>4 DEF Folded
  <2> QED  BY <2>5
<1>2. PICK g : Behind(g) /\ RegisterAll(table, ps) = g[DOMAIN ps]
  BY <1>1 DEF RegisterAll, FoldLeft, MapThenFoldSet
<1>3. \A s \in SUBSET DOMAIN ps : g[s] = IF s = {} THEN table ELSE RegisterDevice(g[s \ {Max(s)}], ps[Max(s)])
  BY <1>2, Zenon
<1>4. ASSUME NEW s \in SUBSET DOMAIN ps, s # {}, g[s \ {Max(s)}] \in A PROVE g[s] \in A
  <2>1. g[s] = RegisterDevice(g[s \ {Max(s)}], ps[Max(s)])  BY <1>3, <1>4
  <2>2. ps[Max(s)] \in S
    <3>1. Max(s) \in s  BY <1>4, MaxIn
    <3> QED  BY <3>1
  <2> QED  BY <1>4, <2>1, <2>2
<1>5. g[{}] = table  BY <1>3
<1> HIDE DEF Behind, f
<1>6. PICK t \in [0..Len(ps) -> A] : Course(g, t, Len(ps))
  <2>1. g[{}] \in A  BY <1>5
  <2> QED  BY <1>4, <2>1, FoldCourse
<1>7. ASSUME NEW k \in 1..Len(ps) PROVE t[k] = RegisterDevice(t[k - 1], ps[k])
  <2>1. PICK s \in SUBSET (1..Len(ps)) : s # {} /\ Max(s) = k /\ g[s] = t[k] /\ g[s \ {Max(s)}] = t[k - 1]
    BY <1>6, Zenon DEF Course
  <2>2. g[s] = RegisterDevice(g[s \ {Max(s)}], ps[Max(s)])  BY <1>0, <1>3, <2>1
  <2> QED  BY <2>1, <2>2
<1>8. t[0] = table /\ t[Len(ps)] = RegisterAll(table, ps)  BY <1>0, <1>2, <1>5, <1>6 DEF Course
<1> QED  BY <1>7, <1>8

\* What is kept after each line of the parameters.
NoTable == [names |-> <<>>, slots |-> 0]
LEMMA ParameterRuns ==
  ASSUME NEW S, NEW ps \in Seq(S),
         NEW A, NoTable \in A, \A a \in A : \A x \in S : ReadParameter(a, x) \in A
  PROVE  \E t \in [0..Len(ps) -> A] :
           /\ t[0] = NoTable /\ t[Len(ps)] = LoadParameters(ps)
           /\ \A k \in 1..Len(ps) : t[k] = ReadParameter(t[k - 1], ps[k])
<1> DEFINE f == [a \in A |-> [x \in S |-> ReadParameter(a, x)]]
           Behind(g) == g = [s \in SUBSET DOMAIN ps |->
                               IF s = {} THEN NoTable ELSE ReadParameter(g[s \ {Max(s)}], ps[Max(s)])]
<1>0. DOMAIN ps = 1..Len(ps)  OBVIOUS
<1>1. \E g : Behind(g)
  <2>1. \A a \in A : \A x \in S : f[a][x] = ReadParameter(a, x)  OBVIOUS
  <2> HIDE DEF f
  <2>2. \A a \in A : \A x \in S : f[a][x] \in A  BY <2>1
  <2>3. PICK g : Folded(f, NoTable, ps, g) /\ \A s \in SUBSET DOMAIN ps : g[s] \in A
    BY <2>2, LeftFold
  <2>4. ASSUME NEW s \in SUBSET DOMAIN ps, s # {}
        PROVE  f[g[s \ {Max(s)}]][ps[Max(s)]] = ReadParameter(g[s \ {Max(s)}], ps[Max(s)])
    <3>1. Max(s) \in s  BY <2>4, MaxIn
    <3>2. ps[Max(s)] \in S /\ g[s \ {Max(s)}] \in A  BY <2>3, <3>1
    <3> QED  BY <2>1, <3>2
  <2>5. Behind(g)  BY <2>3, <2>4 DEF Folded
  <2> QED  BY <2>5
<1>2. PICK g : Behind(g) /\ LoadParameters(ps) = g[DOMAIN ps]
  BY <1>1 DEF LoadParameters, NoTable, FoldLeft, MapThenFoldSet
<1>3. \A s \in SUBSET DOMAIN ps : g[s] = IF s = {} THEN NoTable ELSE ReadParameter(g[s \ {Max(s)}], ps[Max(s)])
  BY <1>2, Zenon
<1>4. ASSUME NEW s \in SUBSET DOMAIN ps, s # {}, g[s \ {Max(s)}] \in A PROVE g[s] \in A
  <2>1. g[s] = ReadParameter(g[s \ {Max(s)}], ps[Max(s)])  BY <1>3, <1>4
  <2>2. ps[Max(s)] \in S
    <3>1. Max(s) \in s  BY <1>4, MaxIn
    <3> QED  BY <3>1
  <2> QED  BY <1>4, <2>1, <2>2
<1>5. g[{}] = NoTable  BY <1>3
<1> HIDE DEF Behind, f
<1>6. PICK t \in [0..Len(ps) -> A] : Course(g, t, Len(ps))
  <2>1. g[{}] \in A  BY <1>5
  <2> QED  BY <1>4, <2>1, FoldCourse
<1>7. ASSUME NEW k \in 1..Len(ps) PROVE t[k] = ReadParameter(t[k - 1], ps[k])
  <2>1. PICK s \in SUBSET (1..Len(ps)) : s # {} /\ Max(s) = k /\ g[s] = t[k] /\ g[s \ {Max(s)}] = t[k - 1]
    BY <1>6, Zenon DEF Course
  <2>2. g[s] = ReadParameter(g[s \ {Max(s)}], ps[Max(s)])  BY <1>0, <1>3, <2>1
  <2> QED  BY <2>1, <2>2
<1>8. t[0] = NoTable /\ t[Len(ps)] = LoadParameters(ps)  BY <1>0, <1>2, <1>5, <1>6 DEF Course
<1> QED  BY <1>7, <1>8

\* What is kept after each line of the results.
LEMMA LineRuns ==
  ASSUME NEW S, NEW ps \in Seq(S),
         NEW A, NothingRead \in A, \A a \in A : \A x \in S : ReadLine(a, x) \in A
  PROVE  \E t \in [0..Len(ps) -> A] :
           /\ t[0] = NothingRead /\ t[Len(ps)] = ReadLines(ps)
           /\ \A k \in 1..Len(ps) : t[k] = ReadLine(t[k - 1], ps[k])
<1> DEFINE f == [a \in A |-> [x \in S |-> ReadLine(a, x)]]
           Behind(g) == g = [s \in SUBSET DOMAIN ps |->
                               IF s = {} THEN NothingRead ELSE ReadLine(g[s \ {Max(s)}], ps[Max(s)])]
<1>0. DOMAIN ps = 1..Len(ps)  OBVIOUS
<1>1. \E g : Behind(g)
  <2>1. \A a \in A : \A x \in S : f[a][x] = ReadLine(a, x)  OBVIOUS
  <2> HIDE DEF f
  <2>2. \A a \in A : \A x \in S : f[a][x] \in A  BY <2>1
  <2>3. PICK g : Folded(f, NothingRead, ps, g) /\ \A s \in SUBSET DOMAIN ps : g[s] \in A
    BY <2>2, LeftFold
  <2>4. ASSUME NEW s \in SUBSET DOMAIN ps, s # {}
        PROVE  f[g[s \ {Max(s)}]][ps[Max(s)]] = ReadLine(g[s \ {Max(s)}], ps[Max(s)])
    <3>1. Max(s) \in s  BY <2>4, MaxIn
    <3>2. ps[Max(s)] \in S /\ g[s \ {Max(s)}] \in A  BY <2>3, <3>1
    <3> QED  BY <2>1, <3>2
  <2>5. Behind(g)  BY <2>3, <2>4 DEF Folded
  <2> QED  BY <2>5
<1>2. PICK g : Behind(g) /\ ReadLines(ps) = g[DOMAIN ps]
  BY <1>1 DEF ReadLines, FoldLeft, MapThenFoldSet
<1>3. \A s \in SUBSET DOMAIN ps : g[s] = IF s = {} THEN NothingRead ELSE ReadLine(g[s \ {Max(s)}], ps[Max(s)])
  BY <1>2, Zenon
<1>4. ASSUME NEW s \in SUBSET DOMAIN ps, s # {}, g[s \ {Max(s)}] \in A PROVE g[s] \in A
  <2>1. g[s] = ReadLine(g[s \ {Max(s)}], ps[Max(s)])  BY <1>3, <1>4
  <2>2. ps[Max(s)] \in S
    <3>1. Max(s) \in s  BY <1>4, MaxIn
    <3> QED  BY <3>1
  <2> QED  BY <1>4, <2>1, <2>2
<1>5. g[{}] = NothingRead  BY <1>3
<1> HIDE DEF Behind, f
<1>6. PICK t \in [0..Len(ps) -> A] : Course(g, t, Len(ps))
  <2>1. g[{}] \in A  BY <1>5
  <2> QED  BY <1>4, <2>1, FoldCourse
<1>7. ASSUME NEW k \in 1..Len(ps) PROVE t[k] = ReadLine(t[k - 1], ps[k])
  <2>1. PICK s \in SUBSET (1..Len(ps)) : s # {} /\ Max(s) = k /\ g[s] = t[k] /\ g[s \ {Max(s)}] = t[k - 1]
    BY <1>6, Zenon DEF Course
  <2>2. g[s] = ReadLine(g[s \ {Max(s)}], ps[Max(s)])  BY <1>0, <1>3, <2>1
  <2> QED  BY <2>1, <2>2
<1>8. t[0] = NothingRead /\ t[Len(ps)] = ReadLines(ps)  BY <1>0, <1>2, <1>5, <1>6 DEF Course
<1> QED  BY <1>7, <1>8
-----------------------------------------------------------------------------
(***************************************************************************)
(* Names and their slots.                                                  *)
(***************************************************************************)
Names == ToSet(Fixed) \cup HotPlug
Tables == [names : Seq(Names), slots : Nat]
HasSlots(table) == Len(table.names) + 1 < table.slots
Roomy == {t \in Tables : t.names = <<>> \/ HasSlots(t)}
Named == {t \in Tables : t.names # <<>> /\ HasSlots(t)}

Cuts == {"whole", "short", "long"}
FileLines == [kind : {"parameter"}, what : Names, cut : Cuts]

NamesInv ==
  /\ param_index \in Seq(Names) /\ slots \in Nat
  /\ parameters_file \in Seq(FileLines)
  /\ at # "off" => param_index # <<>> /\ Len(param_index) + 1 < slots

\* A known name has one of the indices, a new one gets the next.
LEMMA IndexIs ==
  ASSUME NEW names \in Seq(Names), NEW name, NEW slot
  PROVE  /\ name \in ToSet(names) => IndexOf([names |-> names, slots |-> slot], name) \in 1..(Len(names) + 1)
         /\ name \notin ToSet(names) =>
              IndexOf([names |-> Append(names, name), slots |-> slot], name) = Len(names) + 2
<1> DEFINE more == Append(names, name)
           I == {i \in 1..Len(names) : names[i] = name}
           J == {i \in 1..Len(more) : more[i] = name}
<1>0. Len(names) \in Nat /\ DOMAIN names = 1..Len(names)  OBVIOUS
<1>1. ASSUME name \in ToSet(names)
      PROVE  IndexOf([names |-> names, slots |-> slot], name) \in 1..(Len(names) + 1)
  <2>1. PICK i \in 1..Len(names) : names[i] = name  BY <1>0, <1>1 DEF ToSet
  <2>2. I # {} /\ I \subseteq Nat  BY <1>0, <2>1
  <2>3. Min(I) \in I  BY <2>2, LeastIn
  <2>4. IndexOf([names |-> names, slots |-> slot], name) = Min(I) + 1
    BY <2>2 DEF IndexOf, SelectInSeq
  <2>5. Min(I) \in 1..Len(names)  BY <2>3
  <2> QED  BY <1>0, <2>4, <2>5
<1>2. ASSUME name \notin ToSet(names)
      PROVE  IndexOf([names |-> more, slots |-> slot], name) = Len(names) + 2
  <2>1. Len(more) = Len(names) + 1 /\ more[Len(names) + 1] = name
        /\ \A i \in 1..Len(names) : more[i] = names[i] /\ names[i] # name
    BY <1>0, <1>2 DEF ToSet
  <2> HIDE DEF more
  <2>2. J = {Len(names) + 1}
    <3>1. ASSUME NEW i \in 1..Len(more), more[i] = name PROVE i = Len(names) + 1
      <4>1. i \notin 1..Len(names)  BY <2>1, <3>1
      <4> QED  BY <1>0, <2>1, <4>1
    <3>2. Len(names) + 1 \in 1..Len(more)  BY <1>0, <2>1
    <3> QED  BY <2>1, <3>1, <3>2
  <2>3. Min(J) = Len(names) + 1
    <3>1. J \subseteq Nat /\ J # {}  BY <1>0, <2>2
    <3>2. Min(J) \in J  BY <3>1, LeastIn
    <3> QED  BY <2>2, <3>2
  <2>4. IndexOf([names |-> more, slots |-> slot], name) = Min(J) + 1
    BY <2>2 DEF IndexOf, SelectInSeq
  <2> QED  BY <1>0, <2>3, <2>4
<1> QED  BY <1>1, <1>2 DEF more

\* Whoever registers a name leaves it with a slot, and no other without one.
LEMMA RegisterNames ==
  ASSUME NEW t \in Roomy, NEW name \in Names
  PROVE  RegisterParameter(t, name) \in Named /\ RegisterDevice(t, name) = RegisterParameter(t, name)
<1> DEFINE u == WithName(t, name)
           n == Len(t.names)
<1>1. /\ t.names \in Seq(Names) /\ t.slots \in Nat /\ n \in Nat
      /\ t = [names |-> t.names, slots |-> t.slots]
      /\ t.names # <<>> => n + 1 < t.slots
  BY DEF Roomy, Tables, HasSlots
<1>2. CASE name \in ToSet(t.names)
  <2>1. u = t  BY <1>2 DEF WithName
  <2>2. IndexOf(t, name) \in 1..(n + 1)  BY <1>1, <1>2, IndexIs
  <2>3. t.names # <<>>
    <3>1. DOMAIN t.names # {}  BY <1>2 DEF ToSet
    <3> QED  BY <1>1, <3>1
  <2>4. RegisterParameter(t, name) = [t EXCEPT !.slots = t.slots]
    BY <1>1, <2>1, <2>2, <2>3 DEF RegisterParameter
  <2>5. RegisterParameter(t, name) = t  BY <1>1, <2>4
  <2> QED  BY <1>1, <2>1, <2>3, <2>5 DEF RegisterDevice, Named, Tables, HasSlots
<1>3. CASE name \notin ToSet(t.names)
  <2> DEFINE more == Append(t.names, name)
             room == IF n + 2 >= t.slots THEN n + 3 ELSE t.slots
  <2>1. u = [names |-> more, slots |-> t.slots]
    <3>1. u = [t EXCEPT !.names = more]  BY <1>3 DEF WithName
    <3> QED  BY <1>1, <3>1
  <2>2. more \in Seq(Names) /\ Len(more) = n + 1 /\ more # <<>> /\ name \in ToSet(more)
    <3>1. more \in Seq(Names) /\ Len(more) = n + 1 /\ more[n + 1] = name  BY <1>1
    <3>2. n + 1 \in DOMAIN more  BY <1>1, <3>1
    <3> QED  BY <1>1, <3>1, <3>2 DEF ToSet
  <2> HIDE DEF more
  <2>3. IndexOf(u, name) = n + 2  BY <1>1, <1>3, <2>1, IndexIs DEF more
  <2>4. RegisterParameter(t, name) = [names |-> more, slots |-> room]
    <3>1. RegisterParameter(t, name) = [u EXCEPT !.slots = IF n + 2 >= t.slots THEN (n + 2) + 1 ELSE t.slots]
      BY <2>1, <2>3 DEF RegisterParameter
    <3>2. (n + 2) + 1 = n + 3  BY <1>1
    <3> QED  BY <2>1, <3>1, <3>2
  <2>5. RegisterParameter(u, name) = [names |-> more, slots |-> room]
    <3>1. WithName(u, name) = u  BY <2>1, <2>2 DEF WithName
    <3>2. RegisterParameter(u, name) = [u EXCEPT !.slots = IF n + 2 >= t.slots THEN (n + 2) + 1 ELSE t.slots]
      BY <2>1, <2>3, <3>1 DEF RegisterParameter
    <3>3. (n + 2) + 1 = n + 3  BY <1>1
    <3> QED  BY <2>1, <3>2, <3>3
  <2>6. room \in Nat /\ n + 2 < room  BY <1>1
  <2> HIDE DEF room
  <2>7. [names |-> more, slots |-> room] \in Named
    <3>1. Len(more) + 1 = n + 2  BY <1>1, <2>2
    <3> QED  BY <2>2, <2>6, <3>1 DEF Named, Tables, HasSlots
  <2> QED  BY <2>4, <2>5, <2>7 DEF RegisterDevice
<1> QED  BY <1>2, <1>3

LEMMA RegisterAllNames ==
  ASSUME NEW names \in Seq(Names), NEW t \in Roomy, t \in Named \/ names # <<>>
  PROVE  RegisterAll(t, names) \in Named
<1>1. Named \subseteq Roomy  BY DEF Named, Roomy
<1>2. \A a \in Roomy : \A x \in Names : RegisterDevice(a, x) \in Named  BY RegisterNames
<1>3. PICK c \in [0..Len(names) -> Roomy] :
        /\ c[0] = t /\ c[Len(names)] = RegisterAll(t, names)
        /\ \A k \in 1..Len(names) : c[k] = RegisterDevice(c[k - 1], names[k])
  <2>1. \A a \in Roomy : \A x \in Names : RegisterDevice(a, x) \in Roomy  BY <1>1, <1>2
  <2>2. names \in Seq(Names) /\ t \in Roomy  OBVIOUS
  <2> QED  BY ONLY <2>1, <2>2, RegisterRuns
<1>4. CASE names = <<>>  BY <1>3, <1>4
<1>5. CASE names # <<>>
  <2>1. Len(names) \in 1..Len(names) /\ Len(names) - 1 \in 0..Len(names) /\ names[Len(names)] \in Names
    BY <1>5
  <2>2. c[Len(names)] = RegisterDevice(c[Len(names) - 1], names[Len(names)])  BY <1>3, <2>1
  <2>3. c[Len(names) - 1] \in Roomy  BY <2>1
  <2> QED  BY <1>2, <1>3, <2>1, <2>2, <2>3
<1> QED  BY <1>4, <1>5

LEMMA LoadNames ==
  ASSUME NEW lines \in Seq(FileLines)
  PROVE  LoadParameters(lines) \in Roomy
<1>1. NoTable \in Roomy
  <2>1. <<>> \in Seq(Names)  OBVIOUS
  <2> QED  BY <2>1 DEF NoTable, Roomy, Tables
<1>2. ASSUME NEW a \in Roomy, NEW l \in FileLines PROVE ReadParameter(a, l) \in Roomy
  <2>1. l.what \in Names  BY DEF FileLines
  <2> QED  BY <2>1, RegisterNames DEF ReadParameter, Named, Roomy
<1>3. PICK c \in [0..Len(lines) -> Roomy] : c[Len(lines)] = LoadParameters(lines)
  BY <1>1, <1>2, ParameterRuns
<1>4. Len(lines) \in 0..Len(lines)  OBVIOUS
<1> QED  BY <1>3, <1>4

LEMMA SequenceOfAll ==
  ASSUME NEW S, IsFiniteSet(S)
  PROVE  SetToSeq(S) \in Seq(S)
<1>1. Cardinality(S) \in Nat /\ ExistsBijection(1..Cardinality(S), S)  BY FS_CardinalityType
<1>2. \E f \in [1..Cardinality(S) -> S] : IsInjective(f)
  BY <1>1 DEF ExistsBijection, Bijection, Injection, IsInjective
<1>3. SetToSeq(S) \in [1..Cardinality(S) -> S]  BY <1>2 DEF SetToSeq
<1> QED  BY <1>1, <1>3

LEMMA CutsAre ==
  ASSUME NEW lines, NEW file \in CutFiles(lines)
  PROVE  \/ \E k \in 0..Len(lines) : file = SubSeq(lines, 1, k)
         \/ \E k \in {n \in DOMAIN lines : lines[n].kind # "end"}, c \in {"short", "long"} :
              file = Append(SubSeq(lines, 1, k - 1), [lines[k] EXCEPT !.cut = c])
<1> DEFINE front(k) == SubSeq(lines, 1, k)
           last(k, c) == Append(SubSeq(lines, 1, k - 1), [lines[k] EXCEPT !.cut = c])
           K == {n \in DOMAIN lines : lines[n].kind # "end"}
           C == {"short", "long"}
<1>1. CutFiles(lines) = {front(k) : k \in 0..Len(lines)} \cup {last(k, c) : k \in K, c \in C}
  BY DEF CutFiles
<1> HIDE DEF front, last, K, C
<1>2. (\E k \in 0..Len(lines) : file = front(k)) \/ (\E k \in K, c \in C : file = last(k, c))
  BY <1>1
<1> QED  BY <1>2, Zenon DEF front, last, K, C

LEMMA CutIsFile ==
  ASSUME NEW S, NEW lines \in Seq(S), \A l \in S : \A c \in Cuts : [l EXCEPT !.cut = c] \in S,
         NEW file \in CutFiles(lines)
  PROVE  file \in Seq(S)
<1>0. \A k \in 0..Len(lines) : SubSeq(lines, 1, k) \in Seq(S)
  <2> SUFFICES ASSUME NEW k \in 0..Len(lines) PROVE SubSeq(lines, 1, k) \in Seq(S)  OBVIOUS
  <2>1. \A i \in 1..k : lines[i] \in S  OBVIOUS
  <2> QED  BY <2>1, SubSeqProperties
<1>1. CASE \E k \in 0..Len(lines) : file = SubSeq(lines, 1, k)  BY <1>0, <1>1
<1>2. CASE \E k \in DOMAIN lines, c \in {"short", "long"} :
             file = Append(SubSeq(lines, 1, k - 1), [lines[k] EXCEPT !.cut = c])
  <2>1. PICK k \in DOMAIN lines, c \in {"short", "long"} :
          file = Append(SubSeq(lines, 1, k - 1), [lines[k] EXCEPT !.cut = c])
    BY <1>2
  <2>0. k \in 1..Len(lines)  OBVIOUS
  <2>2. k - 1 \in 0..Len(lines) /\ lines[k] \in S /\ c \in Cuts  BY <2>0 DEF Cuts
  <2>3. SubSeq(lines, 1, k - 1) \in Seq(S) /\ [lines[k] EXCEPT !.cut = c] \in S  BY <1>0, <2>2
  <2> QED  BY ONLY <2>1, <2>3, AppendProperties
<1>3. \/ \E k \in 0..Len(lines) : file = SubSeq(lines, 1, k)
      \/ \E k \in {n \in DOMAIN lines : lines[n].kind # "end"}, c \in {"short", "long"} :
           file = Append(SubSeq(lines, 1, k - 1), [lines[k] EXCEPT !.cut = c])
  BY Zenon, CutsAre
<1> QED  BY <1>1, <1>2, <1>3

LEMMA SavedNames ==
  ASSUME NEW names \in Seq(Names)
  PROVE  /\ ParameterLines(names) \in Seq(FileLines)
         /\ CutFiles(ParameterLines(names)) \subseteq Seq(FileLines)
<1>1. ParameterLines(names) \in Seq(FileLines)
  <2>1. \A i \in 1..Len(names) : Line("parameter", names[i]) \in FileLines
    BY DEF Line, FileLines, Cuts
  <2>2. ParameterLines(names) \in [1..Len(names) -> FileLines] /\ Len(names) \in Nat
    BY <2>1 DEF ParameterLines
  <2> QED  BY <2>2
<1>2. \A l \in FileLines : \A c \in Cuts : [l EXCEPT !.cut = c] \in FileLines  BY DEF FileLines
<1> QED  BY <1>1, <1>2, CutIsFile

\* Steps that register nothing.
LEMMA SameNames ==
  ASSUME NamesInv, UNCHANGED <<param_index, slots, parameters_file>>, at # "off" \/ at' = at
  PROVE  NamesInv'
BY DEF NamesInv

LEMMA StepKeepsNames ==
  ASSUME PlanAndSettings, NamesInv, [Next]_vars
  PROVE  NamesInv'
<1>1. CASE PowertopInit
  <2> DEFINE table == RegisterFixed(LoadParameters(parameters_file))
  <2>1. parameters_file \in Seq(FileLines)  BY DEF NamesInv
  <2>2. LoadParameters(parameters_file) \in Roomy  BY <2>1, LoadNames
  <2>3. Fixed \in Seq(Names) /\ Fixed # <<>>
    <3>1. Fixed \in Seq(ToSet(Fixed)) /\ ToSet(Fixed) \subseteq Names  BY NamesAssumption DEF Names
    <3> QED  BY <3>1, NamesAssumption, SeqMonotonic
  <2>4. table \in Named  BY ONLY <2>2, <2>3, RegisterAllNames DEF RegisterFixed
  <2>5. param_index' = table.names /\ slots' = table.slots /\ UNCHANGED parameters_file
    BY <1>1 DEF PowertopInit, fileVars
  <2> HIDE DEF table
  <2> QED  BY <2>1, <2>4, <2>5 DEF NamesInv, Named, Tables, HasSlots
<1>2. CASE RemoveFiles
  <2>1. UNCHANGED <<at, param_index, slots>> /\ parameters_file' = <<>>
    BY <1>2 DEF RemoveFiles, mainVars, parameterVars
  <2>2. <<>> \in Seq(FileLines)  OBVIOUS
  <2> QED  BY <2>1, <2>2 DEF NamesInv
<1>3. CASE Exit \/ Crash \/ CrashWhileSaving
  <2>1. at' = "off" /\ param_index' = <<>> /\ slots' = 0
    BY <1>3 DEF Exit, Crash, CrashWhileSaving, ForgetAll
  <2>2. parameters_file' \in Seq(FileLines)
    <3>1. param_index \in Seq(Names) /\ parameters_file \in Seq(FileLines)  BY DEF NamesInv
    <3>2. parameters_file' = parameters_file \/ parameters_file' \in CutFiles(ParameterLines(param_index))
      BY <1>3 DEF Exit, Crash, CrashWhileSaving, fileVars
    <3> QED  BY <3>1, <3>2, SavedNames
  <2>3. <<>> \in Seq(Names)  OBVIOUS
  <2> QED  BY <2>1, <2>2, <2>3 DEF NamesInv
<1>4. CASE StartMeasurement
  <2>1. PICK usb \in SUBSET HotPlug :
          LET table == RegisterAll([names |-> param_index, slots |-> slots], SetToSeq(usb))
          IN param_index' = table.names /\ slots' = table.slots
    BY <1>4 DEF StartMeasurement
  <2> DEFINE t == [names |-> param_index, slots |-> slots]
             table == RegisterAll(t, SetToSeq(usb))
  <2>2. at = "next"  BY <1>4 DEF StartMeasurement, Running
  <2>3. t \in Named /\ t \in Roomy  BY <2>2 DEF NamesInv, Named, Roomy, Tables, HasSlots
  <2>4. SetToSeq(usb) \in Seq(Names)
    <3>1. IsFiniteSet(usb)  BY NamesAssumption, FS_Subset
    <3>2. usb \subseteq Names  BY DEF Names
    <3> QED  BY <3>1, <3>2, SequenceOfAll, SeqMonotonic
  <2> HIDE DEF t
  <2>5. table \in Named  BY ONLY <2>3, <2>4, RegisterAllNames
  <2>6. param_index' = table.names /\ slots' = table.slots /\ UNCHANGED parameters_file
    BY <1>4, <2>1 DEF t, StartMeasurement, fileVars
  <2> HIDE DEF table
  <2> QED  BY <2>5, <2>6 DEF NamesInv, Named, Tables, HasSlots
<1>5. CASE SavesParameters
  <2>1. parameters_file' = ParameterLines(param_index) /\ UNCHANGED <<at, param_index, slots>>
    BY <1>5 DEF SavesParameters, Done, parameterVars
  <2>2. param_index \in Seq(Names)  BY DEF NamesInv
  <2>3. parameters_file' \in Seq(FileLines)  BY <2>1, <2>2, SavedNames
  <2> QED  BY <2>1, <2>3 DEF NamesInv
<1>6. CASE MeasurementStep /\ ~StartMeasurement
  <2>1. at # "off"  BY <1>6, MeasurementMoves DEF Places
  <2>2. UNCHANGED <<param_index, slots, parameters_file>>
    BY <1>6 DEF MeasurementStep, MainSleeps, WorkloadEnds, JoinBackground, MainSamples, EndExtech,
       EndBatteries, results, parameterVars, fileVars
  <2> QED  BY <2>1, <2>2, SameNames
<1>7. CASE StoreResults
  <2>1. UNCHANGED <<param_index, slots, parameters_file>>
    BY <1>7 DEF StoreResults, parameterVars, fileVars
  <2>2. at # "off"  BY <1>7 DEF StoreResults
  <2> QED  BY <2>1, <2>2, SameNames
<1>8. CASE SavesResults \/ MainLoop \/ ChangeSettings \/ StartBurners \/ StopBurners
  <2>1. UNCHANGED <<at, param_index, slots, parameters_file>>
    BY <1>8 DEF SavesResults, MainLoop, ChangeSettings, StartBurners, StopBurners, Done, results,
       parameterVars, fileVars
  <2> QED  BY <2>1, SameNames
<1>9. CASE SamplerStep \/ BackgroundStep \/ BurnerStep \/ TimePasses \/ UNCHANGED vars
  <2>1. UNCHANGED <<at, param_index, slots, parameters_file>>
    BY <1>9 DEF SamplerStep, BackgroundStep, BurnerStep, TimePasses, vars, mainVars, results,
       parameterVars, fileVars
  <2> QED  BY <2>1, SameNames
<1> QED  BY <1>1, <1>2, <1>3, <1>4, <1>5, <1>6, <1>7, <1>8, <1>9 DEF Next, MainStep, MeasurementStep

LEMMA InitNames == Init => NamesInv
<1>1. <<>> \in Seq(Names) /\ <<>> \in Seq(FileLines)  OBVIOUS
<1> QED  BY <1>1 DEF Init, ResultsInit, NamesInv
-----------------------------------------------------------------------------
(***************************************************************************)
(* The results: what is read of a file that was cut.                       *)
(***************************************************************************)
\* Where parts of W lines each begin.
Starts(W, start) ==
  /\ start \in [Nat -> Nat] /\ start[0] = 0
  /\ \A i \in Nat : start[i + 1] = start[i] + W
  /\ \A i, k \in Nat : i <= k => start[i] <= start[k]

LaidOut(whole, parts, W, start, m) ==
  /\ Len(whole) = start[m]
  /\ \A i \in 1..m : \A j \in 1..W : whole[start[i - 1] + j] = parts[i][j]

LEMMA ProductGrows ==
  ASSUME NEW W \in Nat, NEW i \in Nat, NEW k \in Nat
  PROVE  (i + 1) * W = i * W + W /\ (i <= k => i * W <= k * W)
OBVIOUS

LEMMA StartsExist ==
  ASSUME NEW W \in Nat
  PROVE  \E start : Starts(W, start)
<1> DEFINE start == [i \in Nat |-> i * W]
<1>1. \A i \in Nat : start[i] = i * W /\ i * W \in Nat  OBVIOUS
<1>2. start \in [Nat -> Nat]  OBVIOUS
<1>3. start[0] = 0  OBVIOUS
<1> HIDE DEF start
<1>4. \A i \in Nat : start[i + 1] = start[i] + W  BY <1>1, ProductGrows
<1>5. \A i, k \in Nat : i <= k => start[i] <= start[k]  BY <1>1, ProductGrows
<1> QED  BY <1>2, <1>3, <1>4, <1>5 DEF Starts

LEMMA LayOn ==
  ASSUME NEW S, NEW whole \in Seq(S), NEW last \in Seq(S), NEW parts, NEW W \in Nat, NEW start,
         Starts(W, start), NEW m \in Nat, LaidOut(whole, parts, W, start, m),
         Len(last) = W, parts[m + 1] = last
  PROVE  LaidOut(whole \o last, parts, W, start, m + 1)
<1>1. /\ whole \o last \in Seq(S) /\ Len(whole \o last) = Len(whole) + Len(last)
      /\ \A i \in 1..(Len(whole) + Len(last)) :
           (whole \o last)[i] = IF i <= Len(whole) THEN whole[i] ELSE last[i - Len(whole)]
  BY ConcatProperties
<1>2. Len(whole) = start[m] /\ start[m] \in Nat /\ start[m + 1] = start[m] + W
  BY DEF Starts, LaidOut
<1>3. ASSUME NEW i \in 1..(m + 1), NEW j \in 1..W
      PROVE  (whole \o last)[start[i - 1] + j] = parts[i][j]
  <2>1. CASE i = m + 1
    <3>1. i - 1 = m  BY <2>1
    <3>2. start[m] + j \in 1..(Len(whole) + Len(last)) /\ ~(start[m] + j <= Len(whole))
          /\ (start[m] + j) - Len(whole) = j
      BY <1>2
    <3> QED  BY <1>1, <2>1, <3>1, <3>2
  <2>2. CASE i # m + 1
    <3>1. i \in 1..m /\ i - 1 \in Nat /\ i \in Nat /\ (i - 1) + 1 = i /\ i <= m  BY <2>2
    <3>2. start[i - 1] \in Nat /\ start[i] = start[i - 1] + W /\ start[i] <= start[m]
      <4>1. start[(i - 1) + 1] = start[i - 1] + W  BY <3>1 DEF Starts
      <4> QED  BY <3>1, <4>1 DEF Starts
    <3>3. start[i - 1] + j \in 1..(Len(whole) + Len(last)) /\ start[i - 1] + j <= Len(whole)
      BY <1>2, <3>2
    <3>4. whole[start[i - 1] + j] = parts[i][j]  BY <3>1 DEF LaidOut
    <3> QED  BY <1>1, <3>3, <3>4
  <2> QED  BY <2>1, <2>2
<1>4. Len(whole \o last) = start[m + 1]  BY <1>1, <1>2
<1> QED  BY <1>3, <1>4 DEF LaidOut

LEMMA FlattenLays ==
  ASSUME NEW S, NEW parts \in Seq(Seq(S)), NEW W \in Nat, NEW start, Starts(W, start),
         \A i \in 1..Len(parts) : Len(parts[i]) = W
  PROVE  LaidOut(FlattenSeq(parts), parts, W, start, Len(parts))
<1>1. CASE Len(parts) = 0
  <2>1. parts = <<>>  BY <1>1
  <2>2. FlattenSeq(parts) = <<>>  BY <1>1, <2>1 DEF FlattenSeq
  <2>3. start[0] = 0 /\ Len(<<>>) = 0 /\ 1..0 = {}  BY DEF Starts
  <2> QED  BY <1>1, <2>2, <2>3 DEF LaidOut
<1>2. CASE Len(parts) # 0
  <2> DEFINE n == Len(parts)
  <2>1. n \in Nat /\ n # 0  BY <1>2
  <2>2. PICK g : IsFlattened(parts, g) /\ FlattenSeq(parts) = g[n]
    <3>1. \E g : IsFlattened(parts, g)  BY <2>1, FlattenExists
    <3> QED  BY <1>2, <3>1, FlattenIs, Zenon
  <2>3. \A i \in 1..n : g[i] = IF i = 1 THEN parts[i] ELSE g[i-1] \o parts[i]
    BY <2>2, Zenon DEF IsFlattened
  <2> DEFINE A == {m \in Nat : m + 1 \in 1..n =>
                     g[m + 1] \in Seq(S) /\ LaidOut(g[m + 1], parts, W, start, m + 1)}
  <2>4. \A i \in 1..n : parts[i] \in Seq(S) /\ Len(parts[i]) = W  OBVIOUS
  <2>5. 0 \in A
    <3>1. 1 \in 1..n /\ 0 + 1 = 1  BY <2>1
    <3>2. g[1] = parts[1] /\ parts[1] \in Seq(S)  BY <2>3, <2>4, <3>1
    <3>3. LaidOut(<<>>, parts, W, start, 0)
      <4>1. start[0] = 0 /\ Len(<<>>) = 0 /\ 1..0 = {}  BY DEF Starts
      <4> QED  BY <4>1 DEF LaidOut
    <3>4. LaidOut(<<>> \o parts[1], parts, W, start, 0 + 1)
      <4>1. <<>> \in Seq(S) /\ 0 \in Nat /\ parts[0 + 1] = parts[1] /\ Len(parts[1]) = W  BY <2>4, <3>1
      <4> QED  BY <3>2, <3>3, <4>1, LayOn
    <3>5. <<>> \o parts[1] = parts[1]  BY <3>2
    <3> QED  BY <3>1, <3>2, <3>4, <3>5
  <2>6. ASSUME NEW m \in Nat, m \in A PROVE m + 1 \in A
    <3> SUFFICES ASSUME m + 2 \in 1..n
                 PROVE  g[m + 2] \in Seq(S) /\ LaidOut(g[m + 2], parts, W, start, m + 2)
      OBVIOUS
    <3>1. g[m + 1] \in Seq(S) /\ LaidOut(g[m + 1], parts, W, start, m + 1)  BY <2>6
    <3>2. g[m + 2] = g[m + 1] \o parts[m + 2]
      <4>1. m + 2 # 1 /\ (m + 2) - 1 = m + 1 /\ m + 2 \in 1..n  OBVIOUS
      <4> HIDE DEF n
      <4> QED  BY ONLY <2>3, <4>1
    <3> HIDE DEF n
    <3>3. (m + 1) + 1 = m + 2 /\ m + 1 \in Nat  OBVIOUS
    <3>4. parts[m + 2] \in Seq(S) /\ Len(parts[m + 2]) = W  BY <2>4
    <3>5. LaidOut(g[m + 1] \o parts[m + 2], parts, W, start, m + 2)
      BY <3>1, <3>3, <3>4, LayOn
    <3> QED  BY <3>1, <3>2, <3>4, <3>5, ConcatProperties
  <2>7. n - 1 \in A
    <3>1. n - 1 \in Nat  BY <2>1
    <3> HIDE DEF A, n
    <3> QED  BY <2>5, <2>6, <3>1, Induction
  <2>8. (n - 1) + 1 \in 1..n /\ (n - 1) + 1 = n  BY <2>1
  <2> QED  BY <2>2, <2>7, <2>8
<1> QED  BY <1>1, <1>2

\* Results of which a file was written, and its lines.
Bundles(P) == [power : P, values : Nat]
FullBundles(P) == [power : P, values : {Utilizations}]
ResultFileLines(P) == [kind : {"power", "value", "end"}, what : P \cup Nat, cut : Cuts]
ReadersOf(P) ==
  [first : BOOLEAN, bundle : Bundles(P \cup Int), loaded : Seq(Bundles(P \cup Int))]

LEMMA RecordIs ==
  ASSUME NEW P, NEW b \in Bundles(P)
  PROVE  /\ RecordLines(b) \in Seq(ResultFileLines(P)) /\ Len(RecordLines(b)) = Utilizations + 2
         /\ RecordLines(b)[1] = Line("power", b.power)
         /\ \A j \in 1..Utilizations : RecordLines(b)[j + 1] = Line("value", j)
         /\ RecordLines(b)[Utilizations + 2] = Line("end", 0)
<1> DEFINE head == <<Line("power", b.power)>>
           middle == [i \in 1..Utilizations |-> Line("value", i)]
           end == <<Line("end", 0)>>
           S == ResultFileLines(P)
<1>0. Utilizations \in Nat  BY ValuesAssumption
<1>1. Line("power", b.power) \in S /\ Line("end", 0) \in S /\ \A i \in 1..Utilizations : Line("value", i) \in S
  BY DEF Line, ResultFileLines, Cuts, Bundles
<1>2. head \in Seq(S) /\ Len(head) = 1 /\ head[1] = Line("power", b.power)  BY <1>1
<1>3. end \in Seq(S) /\ Len(end) = 1 /\ end[1] = Line("end", 0)  BY <1>1
<1>4. middle \in Seq(S) /\ Len(middle) = Utilizations /\ \A i \in 1..Utilizations : middle[i] = Line("value", i)
  BY <1>0, <1>1
<1>5. RecordLines(b) = head \o middle \o end  BY DEF RecordLines
<1> HIDE DEF head, middle, end, S
<1>6. /\ head \o middle \in Seq(S) /\ Len(head \o middle) = Utilizations + 1
      /\ (head \o middle)[1] = head[1]
      /\ \A j \in 1..Utilizations : (head \o middle)[j + 1] = middle[j]
  <2>1. /\ Len(head \o middle) = 1 + Utilizations /\ head \o middle \in Seq(S)
        /\ \A i \in 1..(1 + Utilizations) : (head \o middle)[i] = IF i <= 1 THEN head[i] ELSE middle[i - 1]
    <3>1. /\ Len(head \o middle) = Len(head) + Len(middle) /\ head \o middle \in Seq(S)
          /\ \A i \in 1..(Len(head) + Len(middle)) :
               (head \o middle)[i] = IF i <= Len(head) THEN head[i] ELSE middle[i - Len(head)]
      <4>1. head \in Seq(S) /\ middle \in Seq(S)  BY <1>2, <1>4
      <4> QED  BY ONLY <4>1, ConcatProperties
    <3>2. Len(head) = 1 /\ Len(middle) = Utilizations  BY <1>2, <1>4
    <3> QED  BY ONLY <3>1, <3>2
  <2>2. 1 \in 1..(1 + Utilizations) /\ 1 <= 1
        /\ \A j \in 1..Utilizations : j + 1 \in 1..(1 + Utilizations) /\ ~(j + 1 <= 1) /\ (j + 1) - 1 = j
    BY <1>0
  <2>3. 1 + Utilizations = Utilizations + 1  BY <1>0
  <2> QED  BY ONLY <2>1, <2>2, <2>3
<1>7. /\ (head \o middle) \o end \in Seq(S) /\ Len((head \o middle) \o end) = Utilizations + 2
      /\ \A j \in 1..(Utilizations + 1) : ((head \o middle) \o end)[j] = (head \o middle)[j]
      /\ ((head \o middle) \o end)[Utilizations + 2] = end[1]
  <2> DEFINE most == head \o middle
  <2>1. most \in Seq(S) /\ Len(most) = Utilizations + 1  BY <1>6
  <2> HIDE DEF most
  <2>2. /\ Len(most \o end) = (Utilizations + 1) + 1 /\ most \o end \in Seq(S)
        /\ \A i \in 1..((Utilizations + 1) + 1) :
             (most \o end)[i] = IF i <= Utilizations + 1 THEN most[i] ELSE end[i - (Utilizations + 1)]
    BY <1>3, <2>1, ConcatProperties
  <2>3. /\ (Utilizations + 1) + 1 = Utilizations + 2
        /\ Utilizations + 2 \in 1..(Utilizations + 2) /\ ~(Utilizations + 2 <= Utilizations + 1)
        /\ (Utilizations + 2) - (Utilizations + 1) = 1
        /\ \A j \in 1..(Utilizations + 1) : j \in 1..(Utilizations + 2) /\ j <= Utilizations + 1
    BY <1>0
  <2>4. /\ most \o end \in Seq(S) /\ Len(most \o end) = Utilizations + 2
        /\ \A j \in 1..(Utilizations + 1) : (most \o end)[j] = most[j]
        /\ (most \o end)[Utilizations + 2] = end[1]
    BY ONLY <2>2, <2>3
  <2> QED  BY <2>4 DEF most
<1>8. 1 \in 1..(Utilizations + 1) /\ \A j \in 1..Utilizations : j + 1 \in 1..(Utilizations + 1)  BY <1>0
<1> QED  BY <1>2, <1>3, <1>4, <1>5, <1>6, <1>7, <1>8 DEF S

\* What load_results has after i whole records and j more lines.
ReadSoFar(r, i, j) ==
  IF j = 0
  THEN [first |-> TRUE, bundle |-> NoBundle, loaded |-> SubSeq(r, 1, i)]
  ELSE [first |-> FALSE, bundle |-> [power |-> r[i + 1].power, values |-> j - 1], loaded |-> SubSeq(r, 1, i)]

LEMMA OneMore ==
  ASSUME NEW S, NEW r \in Seq(S), NEW i \in 0..(Len(r) - 1)
  PROVE  Append(SubSeq(r, 1, i), r[i + 1]) = SubSeq(r, 1, i + 1)
<1>1. /\ SubSeq(r, 1, i) \in Seq(S) /\ Len(SubSeq(r, 1, i)) = i
      /\ \A k \in 1..i : SubSeq(r, 1, i)[k] = r[k]
  <2>1. \A k \in 1..i : r[k] \in S  OBVIOUS
  <2> QED  BY <2>1, SubSeqProperties
<1>2. /\ SubSeq(r, 1, i + 1) \in Seq(S) /\ Len(SubSeq(r, 1, i + 1)) = i + 1
      /\ \A k \in 1..(i + 1) : SubSeq(r, 1, i + 1)[k] = r[k]
  <2>1. \A k \in 1..(i + 1) : r[k] \in S  OBVIOUS
  <2> QED  BY <2>1, SubSeqProperties
<1>3. r[i + 1] \in S /\ i \in Nat  OBVIOUS
<1>4. /\ Append(SubSeq(r, 1, i), r[i + 1]) \in Seq(S) /\ Len(Append(SubSeq(r, 1, i), r[i + 1])) = i + 1
      /\ \A k \in 1..i : Append(SubSeq(r, 1, i), r[i + 1])[k] = SubSeq(r, 1, i)[k]
      /\ Append(SubSeq(r, 1, i), r[i + 1])[i + 1] = r[i + 1]
  BY <1>1, <1>3, AppendProperties
<1>5. \A k \in 1..(i + 1) : Append(SubSeq(r, 1, i), r[i + 1])[k] = SubSeq(r, 1, i + 1)[k]
  <2>1. \A k \in 1..(i + 1) : k = i + 1 \/ k \in 1..i  BY <1>3
  <2> QED  BY <1>1, <1>2, <1>4, <2>1
<1> QED  BY ONLY <1>2, <1>4, <1>5, SeqEqual

LEMMA FullIs ==
  ASSUME NEW P, NEW r \in Seq(FullBundles(P)), NEW i \in 0..(Len(r) - 1)
  PROVE  /\ r[i + 1] \in FullBundles(P) /\ r[i + 1] \in Bundles(P)
         /\ r[i + 1] = [power |-> r[i + 1].power, values |-> Utilizations]
<1> DEFINE S == FullBundles(P)
<1>1. r[i + 1] \in S
  <2>1. r \in Seq(S)  OBVIOUS
  <2> HIDE DEF S
  <2> QED  BY <2>1
<1>2. \A b \in FullBundles(P) : b \in Bundles(P) /\ b = [power |-> b.power, values |-> Utilizations]
  BY ValuesAssumption DEF FullBundles, Bundles
<1> QED  BY <1>1, <1>2

\* The lines of a record.
LEMMA ReadsPower ==
  ASSUME NEW l, NEW bundle, NEW loaded
  PROVE  ReadLine([first |-> TRUE, bundle |-> bundle, loaded |-> loaded], l) =
           [first |-> FALSE, bundle |-> [bundle EXCEPT !.power = PowerRead(l)], loaded |-> loaded]
BY DEF ReadLine

LEMMA ReadsEnd ==
  ASSUME NEW l, l.kind = "end" \/ l.cut = "short", NEW bundle, NEW loaded
  PROVE  ReadLine([first |-> FALSE, bundle |-> bundle, loaded |-> loaded], l) =
           [first |-> TRUE, bundle |-> NoBundle, loaded |-> Append(loaded, bundle)]
BY DEF ReadLine

LEMMA ReadsValue ==
  ASSUME NEW l, l.kind = "value", l.cut = "whole", NEW bundle, NEW loaded
  PROVE  ReadLine([first |-> FALSE, bundle |-> bundle, loaded |-> loaded], l) =
           [first |-> FALSE, bundle |-> [bundle EXCEPT !.values = @ + 1], loaded |-> loaded]
BY DEF ReadLine

LEMMA ReadsNothing ==
  ASSUME NEW l, l.kind = "value", l.cut = "long", NEW bundle, NEW loaded
  PROVE  ReadLine([first |-> FALSE, bundle |-> bundle, loaded |-> loaded], l) =
           [first |-> FALSE, bundle |-> bundle, loaded |-> loaded]
BY DEF ReadLine

LEMMA ReadsElse ==
  ASSUME NEW acc, acc.first = FALSE, NEW l, l.kind # "end", l.cut # "short", l.kind # "value" \/ l.cut # "whole"
  PROVE  ReadLine(acc, l) = acc
BY DEF ReadLine

LEMMA ReadsOn ==
  ASSUME NEW P, NEW r \in Seq(FullBundles(P)), NEW i \in 0..(Len(r) - 1), NEW j \in 0..(Utilizations + 1)
  PROVE  ReadLine(ReadSoFar(r, i, j), RecordLines(r[i + 1])[j + 1]) =
           IF j = Utilizations + 1 THEN ReadSoFar(r, i + 1, 0) ELSE ReadSoFar(r, i, j + 1)
<1>0. Utilizations \in Nat  BY ValuesAssumption
<1>1. r[i + 1] \in Bundles(P) /\ r[i + 1] = [power |-> r[i + 1].power, values |-> Utilizations]
  BY FullIs
<1> DEFINE b == r[i + 1]
           done == SubSeq(r, 1, i)
<1>2. b = [power |-> b.power, values |-> Utilizations]  BY <1>1
<1>3. /\ RecordLines(b)[1] = Line("power", b.power)
      /\ \A k \in 1..Utilizations : RecordLines(b)[k + 1] = Line("value", k)
      /\ RecordLines(b)[Utilizations + 2] = Line("end", 0)
  BY <1>1, RecordIs
<1>4. Append(done, b) = SubSeq(r, 1, i + 1)  BY OneMore
<1> HIDE DEF b, done
<1>5. CASE j = 0
  <2>1. ReadSoFar(r, i, 0) = [first |-> TRUE, bundle |-> NoBundle, loaded |-> done]
    BY DEF ReadSoFar, done
  <2>2. ReadSoFar(r, i, 1) = [first |-> FALSE, bundle |-> [power |-> b.power, values |-> 0], loaded |-> done]
    <3>1. 1 # 0 /\ 1 - 1 = 0  OBVIOUS
    <3> QED  BY <3>1, Zenon DEF ReadSoFar, done, b
  <2>3. ReadLine(ReadSoFar(r, i, 0), Line("power", b.power)) = ReadSoFar(r, i, 1)
    <3>1. [NoBundle EXCEPT !.power = PowerRead(Line("power", b.power))] = [power |-> b.power, values |-> 0]
      BY DEF NoBundle, Line, PowerRead
    <3> DEFINE l == Line("power", b.power)
    <3> HIDE DEF l
    <3>2. ReadLine([first |-> TRUE, bundle |-> NoBundle, loaded |-> done], l) =
            [first |-> FALSE, bundle |-> [NoBundle EXCEPT !.power = PowerRead(l)], loaded |-> done]
      BY ReadsPower
    <3> QED  BY <2>1, <2>2, <3>1, <3>2 DEF l
  <2>4. 0 # Utilizations + 1 /\ 0 + 1 = 1  BY <1>0
  <2> QED  BY <1>3, <1>5, <2>3, <2>4 DEF b
<1>6. CASE j \in 1..Utilizations
  <2>1. ReadSoFar(r, i, j) =
          [first |-> FALSE, bundle |-> [power |-> b.power, values |-> j - 1], loaded |-> done]
    BY <1>6 DEF ReadSoFar, done, b
  <2>2. ReadSoFar(r, i, j + 1) =
          [first |-> FALSE, bundle |-> [power |-> b.power, values |-> j], loaded |-> done]
    <3>1. j + 1 # 0 /\ (j + 1) - 1 = j  BY <1>6
    <3> QED  BY <3>1, Zenon DEF ReadSoFar, done, b
  <2>3. ReadLine(ReadSoFar(r, i, j), Line("value", j)) = ReadSoFar(r, i, j + 1)
    <3>1. (j - 1) + 1 = j  BY <1>6
    <3>2. [[power |-> b.power, values |-> j - 1] EXCEPT !.values = @ + 1] = [power |-> b.power, values |-> j]
      BY <3>1
    <3>3. Line("value", j).kind = "value" /\ Line("value", j).cut = "whole"  BY DEF Line
    <3> QED  BY <2>1, <2>2, <3>2, <3>3, ReadsValue
  <2>4. j # Utilizations + 1  BY <1>0, <1>6
  <2> QED  BY <1>3, <1>6, <2>3, <2>4 DEF b
<1>7. CASE j = Utilizations + 1
  <2>1. ReadSoFar(r, i, j) =
          [first |-> FALSE, bundle |-> [power |-> b.power, values |-> Utilizations], loaded |-> done]
    <3>1. j # 0 /\ j - 1 = Utilizations  BY <1>0, <1>7
    <3> QED  BY <3>1, Zenon DEF ReadSoFar, done, b
  <2>2. ReadSoFar(r, i + 1, 0) = [first |-> TRUE, bundle |-> NoBundle, loaded |-> Append(done, b)]
    BY <1>4 DEF ReadSoFar
  <2>3. ReadLine(ReadSoFar(r, i, j), Line("end", 0)) = ReadSoFar(r, i + 1, 0)
    <3>1. Line("end", 0).kind = "end"  BY DEF Line
    <3> QED  BY <1>2, <2>1, <2>2, <3>1, ReadsEnd
  <2>4. j + 1 = Utilizations + 2  BY <1>0, <1>7
  <2> QED  BY <1>3, <1>7, <2>3, <2>4 DEF b
<1> QED  BY <1>0, <1>5, <1>6, <1>7

\* A line that was cut ends a record, or adds nothing to what was loaded.
LEMMA ReadsCut ==
  ASSUME NEW P, NEW r \in Seq(FullBundles(P)), NEW i \in 0..(Len(r) - 1), NEW j \in 0..(Utilizations + 1),
         NEW c \in {"short", "long"}, RecordLines(r[i + 1])[j + 1].kind # "end"
  PROVE  LET cut == [RecordLines(r[i + 1])[j + 1] EXCEPT !.cut = c]
         IN ReadLine(ReadSoFar(r, i, j), cut).loaded \in
              {SubSeq(r, 1, i), Append(SubSeq(r, 1, i), [power |-> r[i + 1].power, values |-> j - 1])}
<1>0. Utilizations \in Nat  BY ValuesAssumption
<1> DEFINE b == r[i + 1]
           done == SubSeq(r, 1, i)
<1>1. b \in Bundles(P)  BY FullIs
<1>2. /\ RecordLines(b)[1] = Line("power", b.power)
      /\ \A k \in 1..Utilizations : RecordLines(b)[k + 1] = Line("value", k)
      /\ RecordLines(b)[Utilizations + 2] = Line("end", 0)
  BY <1>1, RecordIs
<1>3. RecordLines(b)[j + 1].kind # "end"  OBVIOUS
<1> HIDE DEF b, done
<1>4. CASE j = 0
  <2>1. ReadSoFar(r, i, j) = [first |-> TRUE, bundle |-> NoBundle, loaded |-> done]
    BY <1>4 DEF ReadSoFar, done
  <2>2. ReadLine(ReadSoFar(r, i, j), [RecordLines(b)[j + 1] EXCEPT !.cut = c]).loaded = done
    <3> DEFINE l == [RecordLines(b)[j + 1] EXCEPT !.cut = c]
               next == [NoBundle EXCEPT !.power = PowerRead(l)]
    <3> HIDE DEF l
    <3>1. ReadLine([first |-> TRUE, bundle |-> NoBundle, loaded |-> done], l) =
            [first |-> FALSE, bundle |-> next, loaded |-> done]
      BY ReadsPower
    <3> HIDE DEF next
    <3>2. [first |-> FALSE, bundle |-> next, loaded |-> done].loaded = done  OBVIOUS
    <3>3. ReadLine(ReadSoFar(r, i, j), l).loaded = done  BY ONLY <2>1, <3>1, <3>2, Zenon
    <3> QED  BY <3>3 DEF l
  <2> QED  BY <2>2 DEF b, done
<1>5. CASE j \in 1..Utilizations
  <2>1. ReadSoFar(r, i, j) =
          [first |-> FALSE, bundle |-> [power |-> b.power, values |-> j - 1], loaded |-> done]
    BY <1>5 DEF ReadSoFar, done, b
  <2>2. [RecordLines(b)[j + 1] EXCEPT !.cut = c] = [kind |-> "value", what |-> j, cut |-> c]
    <3>1. RecordLines(b)[j + 1] = Line("value", j)  BY <1>2, <1>5
    <3>2. [Line("value", j) EXCEPT !.cut = c] = [kind |-> "value", what |-> j, cut |-> c]  BY DEF Line
    <3> QED  BY <3>1, <3>2
  <2>3. ReadLine(ReadSoFar(r, i, j), [RecordLines(b)[j + 1] EXCEPT !.cut = c]).loaded
          \in {done, Append(done, [power |-> b.power, values |-> j - 1])}
    <3> DEFINE l == [kind |-> "value", what |-> j, cut |-> c]
               read == [power |-> b.power, values |-> j - 1]
    <3>1. l.kind = "value" /\ (l.cut = "short" \/ l.cut = "long")  OBVIOUS
    <3> HIDE DEF l, read
    <3>2. ReadLine([first |-> FALSE, bundle |-> read, loaded |-> done], l).loaded \in {done, Append(done, read)}
      <4>1. CASE l.cut = "short"
        <5>1. ReadLine([first |-> FALSE, bundle |-> read, loaded |-> done], l) =
                [first |-> TRUE, bundle |-> NoBundle, loaded |-> Append(done, read)]
          BY <4>1, ReadsEnd
        <5>2. [first |-> TRUE, bundle |-> NoBundle, loaded |-> Append(done, read)].loaded = Append(done, read)
          OBVIOUS
        <5> QED  BY ONLY <5>1, <5>2, Zenon
      <4>2. CASE l.cut = "long"
        <5>1. ReadLine([first |-> FALSE, bundle |-> read, loaded |-> done], l) =
                [first |-> FALSE, bundle |-> read, loaded |-> done]
          BY <3>1, <4>2, ReadsNothing
        <5>2. [first |-> FALSE, bundle |-> read, loaded |-> done].loaded = done  OBVIOUS
        <5> QED  BY ONLY <5>1, <5>2, Zenon
      <4> QED  BY <3>1, <4>1, <4>2
    <3> QED  BY <2>1, <2>2, <3>2 DEF l, read
  <2> QED  BY <2>3 DEF b, done
<1>6. CASE j = Utilizations + 1
  <2>1. j + 1 = Utilizations + 2  BY <1>0, <1>6
  <2> QED  BY <1>2, <1>3, <2>1 DEF Line
<1>7. j = 0 \/ j \in 1..Utilizations \/ j = Utilizations + 1  BY <1>0
<1> QED  BY ONLY <1>4, <1>5, <1>6, <1>7

LEMMA LinesAre ==
  ASSUME NEW P, NEW r \in Seq(FullBundles(P)), NEW start, Starts(Utilizations + 2, start)
  PROVE  /\ ResultLines(r) \in Seq(ResultFileLines(P)) /\ Len(ResultLines(r)) = start[Len(r)]
         /\ \A i \in 0..(Len(r) - 1) : \A j \in 0..(Utilizations + 1) :
              ResultLines(r)[(start[i] + j) + 1] = RecordLines(r[i + 1])[j + 1]
<1> DEFINE parts == [i \in DOMAIN r |-> RecordLines(r[i])]
           W == Utilizations + 2
           S == ResultFileLines(P)
<1>0. W \in Nat /\ Utilizations \in Nat  BY ValuesAssumption
<1>1. \A i \in 1..Len(r) : RecordLines(r[i]) \in Seq(S) /\ Len(RecordLines(r[i])) = W
  <2> SUFFICES ASSUME NEW i \in 1..Len(r) PROVE RecordLines(r[i]) \in Seq(S) /\ Len(RecordLines(r[i])) = W
    OBVIOUS
  <2>1. i - 1 \in 0..(Len(r) - 1) /\ (i - 1) + 1 = i  OBVIOUS
  <2>2. r[i] \in Bundles(P)
    <3>1. r[(i - 1) + 1] \in Bundles(P)  BY <2>1, FullIs
    <3> QED  BY <2>1, <3>1
  <2> QED  BY <2>2, RecordIs
<1>2. DOMAIN r = 1..Len(r) /\ Len(r) \in Nat  OBVIOUS
<1>3. parts \in Seq(Seq(S)) /\ Len(parts) = Len(r) /\ \A i \in 1..Len(r) : parts[i] = RecordLines(r[i])
  <2> HIDE DEF S
  <2>1. parts \in [1..Len(r) -> Seq(S)]  BY <1>1, <1>2
  <2>2. \A i \in 1..Len(r) : parts[i] = RecordLines(r[i])  BY <1>2
  <2> HIDE DEF parts
  <2> QED  BY <1>2, <2>1, <2>2
<1>4. ResultLines(r) = FlattenSeq(parts)  BY DEF ResultLines
<1> HIDE DEF parts, S
<1>5. LaidOut(ResultLines(r), parts, W, start, Len(r))
  <2>1. \A i \in 1..Len(parts) : Len(parts[i]) = W  BY <1>1, <1>3
  <2>2. Starts(W, start)  OBVIOUS
  <2> HIDE DEF W
  <2> QED  BY <1>0, <1>3, <1>4, <2>1, <2>2, FlattenLays
<1>6. ResultLines(r) \in Seq(S)  BY <1>3, <1>4, FlattenType
<1>7. ASSUME NEW i \in 0..(Len(r) - 1), NEW j \in 0..(Utilizations + 1)
      PROVE  ResultLines(r)[(start[i] + j) + 1] = RecordLines(r[i + 1])[j + 1]
  <2>1. i + 1 \in 1..Len(r) /\ (i + 1) - 1 = i /\ i \in Nat  OBVIOUS
  <2>2. j + 1 \in 1..W  BY <1>0
  <2>3. ResultLines(r)[start[(i + 1) - 1] + (j + 1)] = parts[i + 1][j + 1]  BY <1>5, <2>1, <2>2 DEF LaidOut
  <2>4. start[i] + (j + 1) = (start[i] + j) + 1
    <3>1. start[i] \in Nat  BY <2>1 DEF Starts
    <3> QED  BY <3>1
  <2> QED  BY <1>3, <2>1, <2>3, <2>4
<1> QED  BY <1>5, <1>6, <1>7 DEF LaidOut, S

LEMMA ReadersRead ==
  ASSUME NEW P, NEW a \in ReadersOf(P), NEW l \in ResultFileLines(P)
  PROVE  ReadLine(a, l) \in ReadersOf(P)
<1>1. /\ a = [first |-> a.first, bundle |-> a.bundle, loaded |-> a.loaded] /\ a.first \in BOOLEAN
      /\ a.bundle \in Bundles(P \cup Int) /\ a.loaded \in Seq(Bundles(P \cup Int))
  BY DEF ReadersOf
<1>2. PowerRead(l) \in P \cup Int  BY DEF ResultFileLines, PowerRead
<1>3. [a.bundle EXCEPT !.power = PowerRead(l)] \in Bundles(P \cup Int)
      /\ [a.bundle EXCEPT !.values = @ + 1] \in Bundles(P \cup Int) /\ NoBundle \in Bundles(P \cup Int)
  BY <1>1, <1>2 DEF Bundles, NoBundle
<1>4. Append(a.loaded, a.bundle) \in Seq(Bundles(P \cup Int))  BY <1>1
<1>5. /\ l.kind \in {"power", "value", "end"} /\ l.cut \in Cuts  BY DEF ResultFileLines
<1>6. CASE a.first = TRUE
  <2>1. ReadLine(a, l) = [first |-> FALSE, bundle |-> [a.bundle EXCEPT !.power = PowerRead(l)], loaded |-> a.loaded]
    BY <1>1, <1>6, ReadsPower
  <2> QED  BY <1>1, <1>3, <2>1 DEF ReadersOf
<1>7. CASE a.first = FALSE /\ (l.kind = "end" \/ l.cut = "short")
  <2>1. ReadLine(a, l) = [first |-> TRUE, bundle |-> NoBundle, loaded |-> Append(a.loaded, a.bundle)]
    BY <1>1, <1>7, ReadsEnd
  <2> QED  BY <1>3, <1>4, <2>1 DEF ReadersOf
<1>8. CASE a.first = FALSE /\ l.kind = "value" /\ l.cut = "whole"
  <2>1. ReadLine(a, l) = [first |-> FALSE, bundle |-> [a.bundle EXCEPT !.values = @ + 1], loaded |-> a.loaded]
    <3>1. a = [first |-> FALSE, bundle |-> a.bundle, loaded |-> a.loaded]  BY <1>1, <1>8
    <3>2. ReadLine([first |-> FALSE, bundle |-> a.bundle, loaded |-> a.loaded], l) =
            [first |-> FALSE, bundle |-> [a.bundle EXCEPT !.values = @ + 1], loaded |-> a.loaded]
      BY <1>8, ReadsValue
    <3> QED  BY ONLY <3>1, <3>2, Zenon
  <2> QED  BY <1>1, <1>3, <2>1 DEF ReadersOf
<1>9. CASE a.first = FALSE /\ l.cut # "short" /\ l.kind # "end" /\ (l.kind = "power" \/ l.cut = "long")
  <2>1. ReadLine(a, l) = a  BY <1>9, ReadsElse
  <2> QED  BY <2>1
<1> QED  BY <1>1, <1>5, <1>6, <1>7, <1>8, <1>9 DEF Cuts

\* After k lines of the results.
SoFar(r, start, k, a) ==
  \E i \in 0..Len(r) : \E j \in 0..(Utilizations + 1) :
    k = start[i] + j /\ (i = Len(r) => j = 0) /\ a = ReadSoFar(r, i, j)

\* A file that begins as the lines of r do, and what has been read of it.
Begins(file, r, K) == \A k \in 1..K : file[k] = ResultLines(r)[k]
Reads(t, file, K) == t[0] = NothingRead /\ \A k \in 1..K : t[k] = ReadLine(t[k - 1], file[k])

LEMMA StartsOf ==
  ASSUME NEW W \in Nat, NEW start, Starts(W, start)
  PROVE  start[0] = 0 /\ \A i \in Nat : start[i] \in Nat /\ start[i + 1] = start[i] + W
BY DEF Starts

LEMMA ReadCourse ==
  ASSUME NEW P, NEW r \in Seq(FullBundles(P)), NEW start, Starts(Utilizations + 2, start),
         NEW file, NEW K \in Nat, K <= start[Len(r)], Begins(file, r, K), NEW t, Reads(t, file, K)
  PROVE  SoFar(r, start, K, t[K])
<1> DEFINE A == {k \in Nat : k <= K => SoFar(r, start, k, t[k])}
<1>0. /\ Utilizations \in Nat /\ Len(r) \in Nat
      /\ \A i \in Nat : start[i] \in Nat /\ start[i + 1] = start[i] + (Utilizations + 2)
      /\ start[0] = 0
  <2>1. Utilizations \in Nat /\ Utilizations + 2 \in Nat  BY ValuesAssumption
  <2>2. Starts(Utilizations + 2, start)  OBVIOUS
  <2>3. Len(r) \in Nat  OBVIOUS
  <2> QED  BY ONLY <2>1, <2>2, <2>3, StartsOf
<1>1. 0 \in A
  <2>1. SubSeq(r, 1, 0) = <<>>  OBVIOUS
  <2>2. ReadSoFar(r, 0, 0) = NothingRead  BY <2>1 DEF ReadSoFar, NothingRead
  <2>3. 0 \in 0..Len(r) /\ 0 \in 0..(Utilizations + 1) /\ 0 = start[0] + 0  BY <1>0
  <2>4. t[0] = NothingRead  BY DEF Reads
  <2> QED  BY <2>2, <2>3, <2>4 DEF SoFar
<1>2. ASSUME NEW k \in Nat, k \in A PROVE k + 1 \in A
  <2> SUFFICES ASSUME k + 1 <= K PROVE SoFar(r, start, k + 1, t[k + 1])  OBVIOUS
  <2>1. k <= K /\ k + 1 \in 1..K /\ (k + 1) - 1 = k  OBVIOUS
  <2>2. PICK i \in 0..Len(r), j \in 0..(Utilizations + 1) :
          k = start[i] + j /\ (i = Len(r) => j = 0) /\ t[k] = ReadSoFar(r, i, j)
    BY <1>2, <2>1 DEF SoFar
  <2>3. i \in 0..(Len(r) - 1)
    <3>1. i = Len(r) => k = start[Len(r)]
      <4>1. start[Len(r)] \in Nat /\ k = start[i] + j /\ (i = Len(r) => j = 0)  BY <1>0, <2>2
      <4> QED  BY ONLY <4>1
    <3>2. K <= start[Len(r)] /\ start[Len(r)] \in Nat /\ k + 1 <= K  BY <1>0
    <3>3. i # Len(r)  BY ONLY <3>1, <3>2, K \in Nat, k \in Nat
    <3> QED  BY <1>0, <3>3
  <2>4. file[k + 1] = RecordLines(r[i + 1])[j + 1]
    <3>1. file[k + 1] = ResultLines(r)[k + 1]  BY <2>1 DEF Begins
    <3>2. ResultLines(r)[(start[i] + j) + 1] = RecordLines(r[i + 1])[j + 1]  BY <2>3, LinesAre
    <3> QED  BY <2>2, <3>1, <3>2
  <2>5. t[k + 1] = ReadLine(ReadSoFar(r, i, j), RecordLines(r[i + 1])[j + 1])
    <3>1. t[k + 1] = ReadLine(t[(k + 1) - 1], file[k + 1])  BY <2>1 DEF Reads
    <3> QED  BY <2>1, <2>2, <2>4, <3>1
  <2>6. t[k + 1] = IF j = Utilizations + 1 THEN ReadSoFar(r, i + 1, 0) ELSE ReadSoFar(r, i, j + 1)
    BY <2>3, <2>5, ReadsOn
  <2>7. CASE j = Utilizations + 1
    <3>1. i + 1 \in 0..Len(r) /\ 0 \in 0..(Utilizations + 1)  BY <1>0, <2>3
    <3>2. k + 1 = start[i + 1] + 0
      <4>1. start[i] \in Nat /\ start[i + 1] = start[i] + (Utilizations + 2)  BY <1>0, <2>3
      <4>2. Utilizations \in Nat /\ k = start[i] + j  BY <1>0, <2>2
      <4> QED  BY ONLY <2>7, <4>1, <4>2
    <3> QED  BY <2>6, <2>7, <3>1, <3>2 DEF SoFar
  <2>8. CASE j # Utilizations + 1
    <3>1. j + 1 \in 0..(Utilizations + 1) /\ i # Len(r)  BY <1>0, <2>3, <2>8
    <3>2. k + 1 = start[i] + (j + 1)
      <4>1. start[i] \in Nat  BY <1>0, <2>3
      <4> QED  BY <2>2, <4>1
    <3> QED  BY <2>6, <2>8, <3>1, <3>2 DEF SoFar
  <2> QED  BY <2>7, <2>8
<1>3. K \in A
  <2> HIDE DEF A
  <2> QED  BY <1>1, <1>2, Induction
<1> QED  BY <1>3

\* What may be loaded when r was to be saved.
LoadedOf(loaded, r) ==
  /\ Len(loaded) <= Len(r)
  /\ \A i \in DOMAIN loaded :
       /\ loaded[i].power = r[i].power
       /\ i < Len(loaded) => loaded[i] = r[i]

LEMMA FrontOf ==
  ASSUME NEW S, NEW r \in Seq(S), NEW i \in 0..Len(r)
  PROVE  /\ SubSeq(r, 1, i) \in Seq(S) /\ Len(SubSeq(r, 1, i)) = i
         /\ \A k \in 1..i : SubSeq(r, 1, i)[k] = r[k]
<1>1. \A k \in 1..i : r[k] \in S  OBVIOUS
<1> QED  BY <1>1, SubSeqProperties

LEMMA FrontIsLoaded ==
  ASSUME NEW P, NEW r \in Seq(FullBundles(P)), NEW i \in 0..Len(r)
  PROVE  /\ LoadedOf(SubSeq(r, 1, i), r)
         /\ \A v : i < Len(r) => LoadedOf(Append(SubSeq(r, 1, i), [power |-> r[i + 1].power, values |-> v]), r)
<1> DEFINE S == FullBundles(P)
<1>0. Len(r) \in Nat /\ i \in Nat /\ r \in Seq(S)  OBVIOUS
<1> HIDE DEF S
<1>1. /\ SubSeq(r, 1, i) \in Seq(S) /\ Len(SubSeq(r, 1, i)) = i /\ DOMAIN SubSeq(r, 1, i) = 1..i
      /\ \A k \in 1..i : SubSeq(r, 1, i)[k] = r[k]
  BY <1>0, FrontOf
<1>2. LoadedOf(SubSeq(r, 1, i), r)  BY <1>0, <1>1 DEF LoadedOf
<1>3. ASSUME NEW v, i < Len(r)
      PROVE  LoadedOf(Append(SubSeq(r, 1, i), [power |-> r[i + 1].power, values |-> v]), r)
  <2> DEFINE b == [power |-> r[i + 1].power, values |-> v]
             T == S \cup {b}
             next == Append(SubSeq(r, 1, i), b)
  <2>1. SubSeq(r, 1, i) \in Seq(T) /\ b \in T  BY <1>1, SeqMonotonic
  <2>2. b.power = r[i + 1].power  OBVIOUS
  <2> HIDE DEF b, T
  <2>3. /\ Len(next) = i + 1 /\ DOMAIN next = 1..(i + 1) /\ next[i + 1] = b
        /\ \A k \in 1..i : next[k] = SubSeq(r, 1, i)[k]
    BY <1>0, <1>1, <2>1, AppendProperties
  <2> HIDE DEF next
  <2>4. \A k \in 1..(i + 1) : k = i + 1 \/ (k \in 1..i /\ next[k] = r[k])  BY <1>0, <1>1, <2>3
  <2>5. LoadedOf(next, r)
    <3>1. Len(next) <= Len(r)  BY <1>0, <1>3, <2>3
    <3>2. ASSUME NEW k \in 1..(i + 1)
          PROVE  next[k].power = r[k].power /\ (k < i + 1 => next[k] = r[k])
      <4>1. CASE k = i + 1  BY <1>0, <2>2, <2>3, <4>1
      <4>2. CASE k # i + 1  BY <2>4, <4>2
      <4> QED  BY <4>1, <4>2
    <3> QED  BY <2>3, <3>1, <3>2 DEF LoadedOf
  <2> QED  BY <2>5 DEF next, b
<1> QED  BY <1>2, <1>3

LEMMA CutReads ==
  ASSUME NEW P, NEW r \in Seq(FullBundles(P)), NEW k \in 1..Len(ResultLines(r)), NEW c \in {"short", "long"},
         ResultLines(r)[k].kind # "end", NEW start, Starts(Utilizations + 2, start),
         NEW a, SoFar(r, start, k - 1, a)
  PROVE  LoadedOf(ReadLine(a, [ResultLines(r)[k] EXCEPT !.cut = c]).loaded, r)
<1>1. PICK i \in 0..Len(r), j \in 0..(Utilizations + 1) :
        k - 1 = start[i] + j /\ (i = Len(r) => j = 0) /\ a = ReadSoFar(r, i, j)
  BY DEF SoFar
<1>0. /\ Len(r) \in Nat /\ k \in Nat /\ k <= start[Len(r)]
      /\ \A m \in Nat : start[m] \in Nat
  <2>1. Utilizations + 2 \in Nat  BY ValuesAssumption
  <2>2. Len(r) \in Nat /\ k \in Nat /\ k <= Len(ResultLines(r))
    <3>1. Len(ResultLines(r)) \in Nat
      <4>1. ResultLines(r) \in Seq(ResultFileLines(P))  BY LinesAre
      <4> QED  BY <4>1, LenProperties
    <3> QED  BY <3>1
  <2>3. Len(ResultLines(r)) = start[Len(r)]  BY LinesAre
  <2>4. \A m \in Nat : start[m] \in Nat  BY DEF Starts
  <2> QED  BY ONLY <2>2, <2>3, <2>4
<1>2. i \in 0..(Len(r) - 1)
  <2>1. i = Len(r) => k - 1 = start[Len(r)]
    <3>1. start[Len(r)] \in Nat  BY <1>0
    <3> QED  BY ONLY <1>1, <3>1
  <2>2. i # Len(r)
    <3>1. start[Len(r)] \in Nat  BY <1>0
    <3> QED  BY ONLY <1>0, <2>1, <3>1
  <2> QED  BY <1>0, <2>2
<1>3. ResultLines(r)[k] = RecordLines(r[i + 1])[j + 1]
  <2>1. ResultLines(r)[(start[i] + j) + 1] = RecordLines(r[i + 1])[j + 1]  BY <1>2, LinesAre
  <2>2. (start[i] + j) + 1 = k
    <3>1. (k - 1) + 1 = k  BY <1>0
    <3> QED  BY <1>1, <3>1
  <2> QED  BY <2>1, <2>2
<1>4. ReadLine(ReadSoFar(r, i, j), [RecordLines(r[i + 1])[j + 1] EXCEPT !.cut = c]).loaded \in
        {SubSeq(r, 1, i), Append(SubSeq(r, 1, i), [power |-> r[i + 1].power, values |-> j - 1])}
  <2>1. RecordLines(r[i + 1])[j + 1].kind # "end"  BY <1>3
  <2> QED  BY <1>2, <2>1, ReadsCut
<1>5. i \in 0..Len(r) /\ i < Len(r)  BY <1>0, <1>2
<1>6. LoadedOf(SubSeq(r, 1, i), r) /\ LoadedOf(Append(SubSeq(r, 1, i), [power |-> r[i + 1].power, values |-> j - 1]), r)
  BY <1>5, FrontIsLoaded
<1> QED  BY ONLY <1>1, <1>3, <1>4, <1>6

\* A file of r, or one of which the writing was cut off.
FileOf(file, r) == file = ResultLines(r) \/ file \in CutFiles(ResultLines(r))

LEMMA FileType ==
  ASSUME NEW P, NEW r \in Seq(FullBundles(P)), NEW file, FileOf(file, r)
  PROVE  file \in Seq(ResultFileLines(P))
<1>1. PICK start : Starts(Utilizations + 2, start)
  <2>1. Utilizations + 2 \in Nat  BY ValuesAssumption
  <2> QED  BY <2>1, StartsExist
<1>2. ResultLines(r) \in Seq(ResultFileLines(P))  BY <1>1, LinesAre
<1>3. \A l \in ResultFileLines(P) : \A c \in Cuts : [l EXCEPT !.cut = c] \in ResultFileLines(P)
  BY DEF ResultFileLines
<1> QED  BY <1>2, <1>3, CutIsFile DEF FileOf

\* The course of reading a file, its start, and what it ends with.
LEMMA LoadCourse ==
  ASSUME NEW P, NEW file \in Seq(ResultFileLines(P))
  PROVE  /\ LoadResults(file) \in Seq(Bundles(P \cup Int))
         /\ \E t : /\ \A K \in 0..Len(file) : Reads(t, file, K)
                   /\ LoadResults(file) = t[Len(file)].loaded
<1> DEFINE A == ReadersOf(P)
           S == ResultFileLines(P)
<1>1. NothingRead \in A
  <2>1. <<>> \in Seq(Bundles(P \cup Int))  OBVIOUS
  <2> QED  BY <2>1 DEF NothingRead, ReadersOf, NoBundle, Bundles
<1>2. \A a \in A : \A l \in S : ReadLine(a, l) \in A  BY ReadersRead
<1>3. file \in Seq(S)  OBVIOUS
<1> HIDE DEF A, S
<1>4. PICK t \in [0..Len(file) -> A] :
        /\ t[0] = NothingRead /\ t[Len(file)] = ReadLines(file)
        /\ \A k \in 1..Len(file) : t[k] = ReadLine(t[k - 1], file[k])
  BY ONLY <1>1, <1>2, <1>3, LineRuns
<1>5. Len(file) \in Nat /\ Len(file) \in 0..Len(file)  BY <1>3
<1>6. t[Len(file)] \in A  BY <1>5
<1>7. t[Len(file)].loaded \in Seq(Bundles(P \cup Int))  BY <1>6 DEF A, ReadersOf
<1>8. LoadResults(file) = t[Len(file)].loaded  BY <1>4 DEF LoadResults
<1>9. ASSUME NEW K \in 0..Len(file) PROVE Reads(t, file, K)
  <2>1. \A k \in 1..K : k \in 1..Len(file)  BY <1>5
  <2>2. \A k \in 1..K : t[k] = ReadLine(t[k - 1], file[k])  BY ONLY <1>4, <2>1
  <2> QED  BY ONLY <1>4, <2>2 DEF Reads
<1> QED  BY <1>7, <1>8, <1>9

\* What is read of a file that begins as it should.
LEMMA ReadsFront ==
  ASSUME NEW P, NEW r \in Seq(FullBundles(P)), NEW start, Starts(Utilizations + 2, start),
         NEW file, NEW K \in 0..Len(ResultLines(r)), NEW t, Reads(t, file, K), Begins(file, r, K)
  PROVE  SoFar(r, start, K, t[K])
<1>1. Len(ResultLines(r)) = start[Len(r)]  BY LinesAre
<1>2. start[Len(r)] \in Nat
  <2>1. Len(r) \in Nat  OBVIOUS
  <2> QED  BY <2>1 DEF Starts
<1>3. K \in Nat /\ K <= start[Len(r)]  BY <1>1, <1>2
<1> QED  BY <1>3, ReadCourse

LEMMA FrontIsRead ==
  ASSUME NEW P, NEW r \in Seq(FullBundles(P)), NEW start, NEW K, NEW a, SoFar(r, start, K, a)
  PROVE  LoadedOf(a.loaded, r)
<1>1. PICK i \in 0..Len(r), j \in 0..(Utilizations + 1) : a = ReadSoFar(r, i, j)  BY DEF SoFar
<1>2. ReadSoFar(r, i, j).loaded = SubSeq(r, 1, i)  BY DEF ReadSoFar
<1> QED  BY <1>1, <1>2, FrontIsLoaded

LEMMA WholeIsRead ==
  ASSUME NEW P, NEW r \in Seq(FullBundles(P)), NEW start, Starts(Utilizations + 2, start),
         NEW a, SoFar(r, start, start[Len(r)], a)
  PROVE  a.loaded = r
<1>1. PICK i \in 0..Len(r), j \in 0..(Utilizations + 1) :
        start[Len(r)] = start[i] + j /\ (i = Len(r) => j = 0) /\ a = ReadSoFar(r, i, j)
  BY DEF SoFar
<1>2. i = Len(r)
  <2> SUFFICES ASSUME i # Len(r) PROVE FALSE  OBVIOUS
  <2>1. i \in Nat /\ i + 1 \in Nat /\ Len(r) \in Nat /\ i + 1 <= Len(r)  OBVIOUS
  <2>2. start[i + 1] = start[i] + (Utilizations + 2) /\ start[i + 1] <= start[Len(r)] /\ start[i] \in Nat
        /\ start[Len(r)] \in Nat
    BY <2>1 DEF Starts
  <2>3. Utilizations \in Nat  BY ValuesAssumption
  <2> QED  BY ONLY <1>1, <2>2, <2>3
<1>3. ReadSoFar(r, i, j).loaded = SubSeq(r, 1, i)  BY DEF ReadSoFar
<1>4. SubSeq(r, 1, Len(r)) = r
  <2> DEFINE S == FullBundles(P)
  <2>1. r \in Seq(S) /\ Len(r) \in 0..Len(r)  OBVIOUS
  <2> HIDE DEF S
  <2>2. /\ SubSeq(r, 1, Len(r)) \in Seq(S) /\ Len(SubSeq(r, 1, Len(r))) = Len(r)
        /\ \A k \in 1..Len(r) : SubSeq(r, 1, Len(r))[k] = r[k]
    BY <2>1, FrontOf
  <2> QED  BY ONLY <2>1, <2>2, SeqEqual
<1> QED  BY <1>1, <1>2, <1>3, <1>4

LEMMA LoadsTheSaved ==
  ASSUME NEW P, NEW r \in Seq(FullBundles(P)), NEW file, FileOf(file, r)
  PROVE  /\ LoadResults(file) \in Seq(Bundles(P \cup Int))
         /\ LoadedOf(LoadResults(file), r)
         /\ file = ResultLines(r) => LoadResults(file) = r
<1> DEFINE S == ResultFileLines(P)
           lines == ResultLines(r)
<1>1. PICK start : Starts(Utilizations + 2, start)
  <2>1. Utilizations + 2 \in Nat  BY ValuesAssumption
  <2> QED  BY <2>1, StartsExist
<1>2. lines \in Seq(S) /\ Len(lines) = start[Len(r)]  BY <1>1, LinesAre
<1>3. file \in Seq(S)  BY FileType
<1>4. LoadResults(file) \in Seq(Bundles(P \cup Int))  BY <1>3, LoadCourse
<1>5. PICK t : /\ \A K \in 0..Len(file) : Reads(t, file, K)
               /\ LoadResults(file) = t[Len(file)].loaded
  BY <1>3, LoadCourse
<1> HIDE DEF S, lines
<1>6. Len(lines) \in Nat /\ Len(file) \in Nat  BY <1>2, <1>3, LenProperties
<1>7. ASSUME NEW K \in 0..Len(lines), K <= Len(file), \A k \in 1..K : file[k] = lines[k]
      PROVE  SoFar(r, start, K, t[K])
  <2>1. Begins(file, r, K)  BY <1>7, Zenon DEF Begins, lines
  <2>2. K \in 0..Len(file)  BY <1>6, <1>7
  <2>3. Reads(t, file, K)  BY ONLY <1>5, <2>2
  <2>4. K \in 0..Len(ResultLines(r))  BY DEF lines
  <2> QED  BY <1>1, <2>1, <2>3, <2>4, ReadsFront
<1>8. ASSUME file = lines PROVE LoadResults(file) = r /\ LoadedOf(LoadResults(file), r)
  <2>1. Len(lines) \in 0..Len(lines) /\ Len(lines) <= Len(file)  BY <1>6, <1>8
  <2>2. SoFar(r, start, Len(lines), t[Len(lines)])  BY <1>7, <1>8, <2>1
  <2>3. t[Len(lines)].loaded = r  BY <1>1, <1>2, <2>2, WholeIsRead
  <2>4. LoadedOf(t[Len(lines)].loaded, r)  BY <2>2, FrontIsRead
  <2> QED  BY ONLY <1>5, <1>8, <2>3, <2>4
<1>9. ASSUME NEW n \in 0..Len(lines), file = SubSeq(lines, 1, n) PROVE LoadedOf(LoadResults(file), r)
  <2>1. Len(file) = n /\ \A k \in 1..n : file[k] = lines[k]  BY <1>2, <1>9, FrontOf
  <2>2. n <= Len(file)  BY <1>6, <2>1
  <2>3. SoFar(r, start, n, t[n])  BY <1>7, <2>1, <2>2
  <2>4. LoadedOf(t[n].loaded, r)  BY <2>3, FrontIsRead
  <2> QED  BY ONLY <1>5, <2>1, <2>4
<1>10. ASSUME NEW n \in {i \in DOMAIN lines : lines[i].kind # "end"}, NEW c \in {"short", "long"},
              file = Append(SubSeq(lines, 1, n - 1), [lines[n] EXCEPT !.cut = c])
       PROVE  LoadedOf(LoadResults(file), r)
  <2> DEFINE l == [lines[n] EXCEPT !.cut = c]
             front == SubSeq(lines, 1, n - 1)
             T == S \cup {l}
  <2>1. n \in 1..Len(lines) /\ lines[n].kind # "end"  BY <1>2
  <2>2. n - 1 \in 0..Len(lines) /\ n - 1 \in Nat /\ (n - 1) + 1 = n  BY <1>6, <2>1
  <2>3. front \in Seq(S) /\ Len(front) = n - 1 /\ \A k \in 1..(n - 1) : front[k] = lines[k]
    BY <1>2, <2>2, FrontOf
  <2>4. l \in T /\ front \in Seq(T)  BY <2>3, SeqMonotonic
  <2>5. file = Append(front, l)  BY <1>10
  <2> HIDE DEF l, front, T
  <2>6. /\ Len(file) = n /\ file[n] = l
        /\ \A k \in 1..(n - 1) : file[k] = front[k]
    <3>1. /\ Len(Append(front, l)) = Len(front) + 1 /\ Append(front, l)[Len(front) + 1] = l
          /\ \A k \in 1..Len(front) : Append(front, l)[k] = front[k]
      BY <2>4, AppendProperties
    <3> QED  BY ONLY <2>2, <2>3, <2>5, <3>1
  <2>7. \A k \in 1..(n - 1) : file[k] = lines[k]  BY <2>3, <2>6
  <2>8. n - 1 <= Len(file)  BY <1>6, <2>6
  <2>9. SoFar(r, start, n - 1, t[n - 1])  BY <1>7, <2>2, <2>7, <2>8
  <2>10. t[n] = ReadLine(t[n - 1], l)
    <3>1. n \in 0..Len(file) /\ n \in 1..n  BY <1>6, <2>1, <2>6
    <3>2. Reads(t, file, n)  BY ONLY <1>5, <3>1
    <3> QED  BY ONLY <2>6, <3>1, <3>2 DEF Reads
  <2>11. LoadedOf(ReadLine(t[n - 1], l).loaded, r)
    <3>1. n \in 1..Len(ResultLines(r)) /\ ResultLines(r)[n].kind # "end"  BY <2>1 DEF lines
    <3> QED  BY <1>1, <2>9, <3>1, CutReads DEF l, lines
  <2> QED  BY ONLY <1>5, <2>6, <2>10, <2>11
<1>11. LoadedOf(LoadResults(file), r)
  <2>1. CASE file = ResultLines(r)  BY <1>8, <2>1 DEF lines
  <2>2. CASE file \in CutFiles(lines)
    <3>1. \/ \E k \in 0..Len(lines) : file = SubSeq(lines, 1, k)
          \/ \E k \in {n \in DOMAIN lines : lines[n].kind # "end"}, c \in {"short", "long"} :
               file = Append(SubSeq(lines, 1, k - 1), [lines[k] EXCEPT !.cut = c])
      BY <2>2, Zenon, CutsAre
    <3> QED  BY ONLY <1>9, <1>10, <3>1
  <2> QED  BY <2>1, <2>2 DEF FileOf, lines
<1> QED  BY <1>4, <1>8, <1>11 DEF lines

(***************************************************************************)
(* The results in memory and in their file.                                *)
(***************************************************************************)
Powers(r) == {r[i].power : i \in DOMAIN r}
Recorded(r) == r \in Seq(Bundles(Powers(r)))

ResultsInv ==
  /\ Recorded(past_results)
  /\ saved \in Seq(FullBundles(Powers(saved)))
  /\ FileOf(results_file, saved)

LEMMA RecordedIs ==
  ASSUME NEW P, NEW r \in Seq(Bundles(P))
  PROVE  Recorded(r)
<1> DEFINE S == Bundles(Powers(r))
<1>1. \A i \in 1..Len(r) : r[i] \in S
  <2> SUFFICES ASSUME NEW i \in 1..Len(r) PROVE r[i] \in S  OBVIOUS
  <2>1. r[i] \in Bundles(P)  OBVIOUS
  <2>2. r[i].power \in Powers(r)  BY DEF Powers
  <2> QED  BY <2>1, <2>2 DEF Bundles
<1>2. r = [i \in 1..Len(r) |-> r[i]] /\ Len(r) \in Nat
  <2> DEFINE T == Bundles(P)
  <2>1. r \in Seq(T)  OBVIOUS
  <2> HIDE DEF T
  <2> QED  BY <2>1
<1> HIDE DEF S
<1>3. r \in [1..Len(r) -> S]  BY <1>1, <1>2
<1>4. r \in Seq(S)  BY <1>2, <1>3
<1> QED  BY <1>4 DEF Recorded, S

LEMMA StoredIsRecorded ==
  ASSUME NEW r, Recorded(r), NEW p, NEW v \in Nat, NEW stored \in Stored(r, [power |-> p, values |-> v])
  PROVE  Recorded(stored)
<1> DEFINE b == [power |-> p, values |-> v]
           S == Bundles(Powers(r) \cup {p})
<1>1. b \in S  BY DEF Bundles
<1>2. r \in Seq(S)
  <2>1. Bundles(Powers(r)) \subseteq S  BY DEF Bundles
  <2>2. r \in Seq(Bundles(Powers(r)))  BY DEF Recorded
  <2> QED  BY <2>1, <2>2, SeqMonotonic
<1>3. stored \in Stored(r, b)  OBVIOUS
<1> HIDE DEF b
<1>4. stored \in Seq(S)
  <2> HIDE DEF S
  <2>1. CASE stored = Append(r, b)  BY <1>1, <1>2, <2>1, AppendProperties
  <2>2. CASE \E i \in (FIRST_KEPT + 1)..MAX_PARAM : stored = [r EXCEPT ![i] = b]
    <3>1. PICK i : stored = [r EXCEPT ![i] = b]  BY <2>2
    <3>2. r \in [1..Len(r) -> S] /\ Len(r) \in Nat  BY <1>2
    <3>3. stored \in [1..Len(r) -> S]  BY <1>1, <3>1, <3>2
    <3> QED  BY <3>2, <3>3
  <2> QED  BY <1>3, <2>1, <2>2 DEF Stored
<1> QED  BY <1>4, RecordedIs

LEMMA WrittenIs ==
  ASSUME NEW r, Recorded(r)
  PROVE  /\ Written(r) \in Seq(FullBundles(Powers(Written(r))))
         /\ ResultLines(r) = ResultLines(Written(r))
<1> DEFINE w == Written(r)
           S == FullBundles(Powers(w))
<1>1. DOMAIN r = 1..Len(r) /\ Len(r) \in Nat /\ \A i \in 1..Len(r) : r[i] \in Bundles(Powers(r))
  <2> DEFINE T == Bundles(Powers(r))
  <2>1. r \in Seq(T)  BY DEF Recorded
  <2> HIDE DEF T
  <2>2. DOMAIN r = 1..Len(r) /\ Len(r) \in Nat /\ \A i \in 1..Len(r) : r[i] \in T  BY <2>1
  <2> QED  BY <2>2 DEF T
<1>2. DOMAIN w = 1..Len(r) /\ \A i \in 1..Len(r) : w[i] = [r[i] EXCEPT !.values = Utilizations]
  BY <1>1 DEF Written
<1>3. ASSUME NEW i \in 1..Len(r)
      PROVE  w[i] = [power |-> r[i].power, values |-> Utilizations] /\ w[i].power = r[i].power
  <2>1. r[i] \in Bundles(Powers(r))  BY <1>1
  <2> QED  BY <1>2, <2>1 DEF Bundles
<1>4. w = [i \in 1..Len(r) |-> w[i]]  BY <1>1 DEF Written
<1> HIDE DEF w, S
<1>5. \A i \in 1..Len(r) : w[i] \in S
  <2> SUFFICES ASSUME NEW i \in 1..Len(r) PROVE w[i] \in S  OBVIOUS
  <2>1. w[i].power \in Powers(w)  BY <1>2 DEF Powers
  <2>2. \A p \in Powers(w) : [power |-> p, values |-> Utilizations] \in S  BY DEF S, FullBundles
  <2>3. w[i] = [power |-> w[i].power, values |-> Utilizations]  BY Zenon, <1>3
  <2> QED  BY ONLY <2>1, <2>2, <2>3, Zenon
<1>6. w \in Seq(S)
  <2>1. w \in [1..Len(r) -> S]  BY <1>4, <1>5
  <2> QED  BY <1>1, <2>1
<1>7. \A i \in 1..Len(r) : RecordLines(r[i]) = RecordLines(w[i])
  BY <1>3 DEF RecordLines
<1>8. [i \in DOMAIN r |-> RecordLines(r[i])] = [i \in DOMAIN w |-> RecordLines(w[i])]
  BY <1>1, <1>2, <1>7
<1>9. ResultLines(r) = ResultLines(w)  BY <1>8 DEF ResultLines
<1> QED  BY <1>6, <1>9 DEF S, w

\* The file is written, as a whole or until the program is stopped.
LEMMA SavingKeeps ==
  ASSUME NEW r, Recorded(r), SaveAllResults(r) \/ CutResults(r)
  PROVE  saved' \in Seq(FullBundles(Powers(saved'))) /\ FileOf(results_file', saved')
<1>1. saved' = Written(r)  BY DEF SaveAllResults, CutResults
<1>2. results_file' = ResultLines(r) \/ results_file' \in CutFiles(ResultLines(r))
  BY DEF SaveAllResults, CutResults
<1> QED  BY <1>1, <1>2, WrittenIs DEF FileOf

LEMMA NothingRecorded == Recorded(<<>>) /\ <<>> \in Seq(FullBundles(Powers(<<>>))) /\ FileOf(<<>>, <<>>)
<1>1. Recorded(<<>>)  BY DEF Recorded
<1>2. <<>> \in Seq(FullBundles(Powers(<<>>)))  OBVIOUS
<1>3. ResultLines(<<>>) = <<>>
  <2>1. [i \in DOMAIN <<>> |-> RecordLines(<<>>[i])] = <<>>  OBVIOUS
  <2>2. Len(<<>>) = 0  OBVIOUS
  <2> QED  BY <2>1, <2>2 DEF ResultLines, FlattenSeq
<1> QED  BY <1>1, <1>2, <1>3 DEF FileOf

LEMMA InitResults == Init => ResultsInv
BY NothingRecorded DEF Init, ResultsInit, ResultsInv

LEMMA LoadedIsRecorded ==
  ASSUME ResultsInv, PowertopInit
  PROVE  /\ Recorded(past_results') /\ LoadedOf(past_results', saved)
         /\ results_file = ResultLines(saved) => past_results' = saved
<1>1. saved \in Seq(FullBundles(Powers(saved))) /\ FileOf(results_file, saved)  BY DEF ResultsInv
<1>2. past_results' = LoadResults(results_file)  BY DEF PowertopInit
<1>3. /\ LoadResults(results_file) \in Seq(Bundles(Powers(saved) \cup Int))
      /\ LoadedOf(LoadResults(results_file), saved)
      /\ results_file = ResultLines(saved) => LoadResults(results_file) = saved
  BY <1>1, LoadsTheSaved
<1>4. Recorded(LoadResults(results_file))  BY <1>3, RecordedIs
<1> QED  BY <1>2, <1>3, <1>4

LEMMA SameResults ==
  ASSUME ResultsInv, UNCHANGED <<past_results, results_file, saved>>
  PROVE  ResultsInv'
BY DEF ResultsInv

LEMMA NewIsStored ==
  ASSUME NEW r, Recorded(r), NEW stored \in Stored(r, NewResult)
  PROVE  Recorded(stored)
<1>1. NewResult = [power |-> PowerNow, values |-> Utilizations]  BY DEF NewResult
<1>2. Utilizations \in Nat  BY ValuesAssumption
<1> QED  BY <1>1, <1>2, StoredIsRecorded

LEMMA StepKeepsResults ==
  ASSUME ResultsInv, [Next]_vars
  PROVE  ResultsInv'
<1>0. Recorded(past_results)  BY DEF ResultsInv
<1>1. CASE PowertopInit
  <2>1. UNCHANGED <<results_file, saved>>  BY <1>1 DEF PowertopInit, fileVars
  <2>2. Recorded(past_results')  BY <1>1, LoadedIsRecorded
  <2> QED  BY <2>1, <2>2 DEF ResultsInv
<1>2. CASE RemoveFiles
  <2>1. results_file' = <<>> /\ saved' = <<>> /\ past_results' = past_results
    BY <1>2 DEF RemoveFiles, resultVars
  <2> QED  BY <1>0, <2>1, NothingRecorded DEF ResultsInv
<1>3. CASE Exit \/ Crash
  <2>1. past_results' = <<>> /\ UNCHANGED <<results_file, saved>>
    BY <1>3 DEF Exit, Crash, ForgetAll, fileVars
  <2> QED  BY <2>1, NothingRecorded DEF ResultsInv
<1>4. CASE CrashWhileSaving
  <2>1. past_results' = <<>>  BY <1>4 DEF CrashWhileSaving, ForgetAll
  <2>2. \/ CutResults(past_results)
        \/ UNCHANGED <<results_file, saved>>
        \/ \E stored \in Stored(past_results, NewResult) : CutResults(stored)
    BY <1>4 DEF CrashWhileSaving
  <2>3. saved' \in Seq(FullBundles(Powers(saved'))) /\ FileOf(results_file', saved')
    <3>1. CASE CutResults(past_results)  BY <1>0, <3>1, SavingKeeps
    <3>2. CASE UNCHANGED <<results_file, saved>>  BY <3>2 DEF ResultsInv
    <3>3. CASE \E stored \in Stored(past_results, NewResult) : CutResults(stored)
      <4>1. PICK stored \in Stored(past_results, NewResult) : CutResults(stored)  BY <3>3
      <4>2. Recorded(stored)  BY <1>0, NewIsStored
      <4> QED  BY <4>1, <4>2, SavingKeeps
    <3> QED  BY <2>2, <3>1, <3>2, <3>3
  <2> QED  BY <2>1, <2>3, NothingRecorded DEF ResultsInv
<1>5. CASE SavesResults
  <2>1. SaveAllResults(past_results) /\ past_results' = past_results  BY <1>5 DEF SavesResults, resultVars
  <2>2. saved' \in Seq(FullBundles(Powers(saved'))) /\ FileOf(results_file', saved')
    BY <1>0, <2>1, SavingKeeps
  <2> QED  BY <1>0, <2>1, <2>2 DEF ResultsInv
<1>6. CASE StoreResults
  <2>1. \/ UNCHANGED <<past_results, results_file, saved>>
        \/ /\ past_results' \in Stored(past_results, NewResult)
           /\ SaveAllResults(past_results') \/ UNCHANGED <<results_file, saved>>
    BY <1>6 DEF StoreResults, fileVars
  <2>2. CASE UNCHANGED <<past_results, results_file, saved>>  BY <2>2, SameResults
  <2>3. CASE past_results' \in Stored(past_results, NewResult)
    <3>1. Recorded(past_results')  BY <1>0, <2>3, NewIsStored
    <3>2. CASE SaveAllResults(past_results')
      <4>1. saved' \in Seq(FullBundles(Powers(saved'))) /\ FileOf(results_file', saved')
        BY <3>1, <3>2, SavingKeeps
      <4> QED  BY <3>1, <4>1 DEF ResultsInv
    <3>3. CASE UNCHANGED <<results_file, saved>>  BY <3>1, <3>3 DEF ResultsInv
    <3> QED  BY <2>1, <2>2, <3>2, <3>3
  <2> QED  BY <2>1, <2>2, <2>3
<1>7. CASE SavesParameters \/ MainLoop \/ ChangeSettings \/ StartBurners \/ StopBurners
  <2>1. UNCHANGED <<past_results, results_file, saved>>
    BY <1>7 DEF SavesParameters, MainLoop, ChangeSettings, StartBurners, StopBurners, results,
       resultVars, fileVars
  <2> QED  BY <2>1, SameResults
<1>8. CASE StartMeasurement \/ MainSleeps \/ WorkloadEnds \/ JoinBackground \/ MainSamples \/ EndExtech \/ EndBatteries
  <2>1. UNCHANGED <<past_results, results_file, saved>>
    BY <1>8 DEF StartMeasurement, MainSleeps, WorkloadEnds, JoinBackground, MainSamples, EndExtech,
       EndBatteries, results, resultVars, fileVars
  <2> QED  BY <2>1, SameResults
<1>9. CASE SamplerStep \/ BackgroundStep \/ BurnerStep \/ TimePasses \/ UNCHANGED vars
  <2>1. UNCHANGED <<past_results, results_file, saved>>
    BY <1>9 DEF SamplerStep, BackgroundStep, BurnerStep, TimePasses, vars, results, resultVars, fileVars
  <2> QED  BY <2>1, SameResults
<1> QED  BY <1>1, <1>2, <1>3, <1>4, <1>5, <1>6, <1>7, <1>8, <1>9 DEF Next, MainStep
-----------------------------------------------------------------------------
(***************************************************************************)
(* The theorems.                                                           *)
(***************************************************************************)
IInv == PlanInv /\ SettingsInv /\ BurnersInv /\ EnergyInv /\ SamplerInv /\ NamesInv /\ ResultsInv

LEMMA InitInv == Init => IInv
<1> SUFFICES ASSUME Init PROVE IInv  OBVIOUS
<1>1. EnergyInv  BY DEF Init, MetersInit, EnergyInv, Threads
<1>2. SamplerInv
  <2>1. turn = 0 /\ samples = <<>> /\ sampler = NoSampler  BY DEF Init, MetersInit
  <2>2. ~thread_started /\ thread_started \in BOOLEAN  BY Zenon DEF Init, MetersInit
  <2> QED  BY <2>1, <2>2, NoSamplerIs DEF SamplerInv
<1>3. BurnersInv  BY DEF Init, CalibrationInit, BurnersInv
<1> QED  BY <1>1, <1>2, <1>3, InitPlan, InitNames, InitResults DEF IInv, PlanAndSettings

LEMMA NextInv == IInv /\ [Next]_vars => IInv'
<1> SUFFICES ASSUME IInv, [Next]_vars PROVE IInv'  OBVIOUS
<1>1. PlanAndSettings /\ BurnersInv /\ EnergyInv /\ SamplerInv /\ NamesInv /\ ResultsInv
  BY DEF IInv, PlanAndSettings
<1>2. PlanAndSettings'  BY <1>1, StepKeepsPlan
<1>3. EnergyInv'  BY <1>1, StepKeepsEnergy
<1>4. SamplerInv'  BY <1>1, StepKeepsSampler
<1>5. NamesInv'  BY <1>1, StepKeepsNames
<1>6. ResultsInv'  BY <1>1, StepKeepsResults
<1>7. BurnersInv'  BY <1>1, StepKeepsBurners
<1> QED  BY <1>2, <1>3, <1>4, <1>5, <1>6, <1>7 DEF IInv, PlanAndSettings

LEMMA Invariance == Spec => []IInv
BY InitInv, NextInv, PTL DEF Spec

(***************************************************************************)
(* At the end of one_measurement() the time since start_power_measurement  *)
(* has been counted once: tlast is only read by a thread that has not yet  *)
(* added the time up to its tnow, and the two threads that sample never do *)
(* so at once, as the main thread joins the other one first.               *)
(***************************************************************************)
THEOREM TimeIsSampledOnce == Spec => []TimeSampledOnce
<1>1. IInv => TimeSampledOnce  BY DEF IInv, EnergyInv, TimeSampledOnce
<1> QED  BY <1>1, Invariance, PTL

(***************************************************************************)
(* No sample of the Extech is from an earlier measurement, as its thread   *)
(* is joined by end_measurement(); and whatever the number of devices, the *)
(* threads of a step of calibrate() run until what they cost was measured, *)
(* beside none but those that the calibration of the CPU left behind.      *)
(***************************************************************************)
THEOREM ThreadsAreOwn == Spec => []OwnThreadsOnly
<1>1. IInv => OwnThreadsOnly
  <2> SUFFICES ASSUME IInv PROVE OwnThreadsOnly  OBVIOUS
  <2>1. ASSUME NEW s \in ToSet(samples) PROVE s.turn = turn
    <3>1. samples \in Seq([watts : ExtechWatts, turn : {turn}])  BY DEF IInv, SamplerInv
    <3>2. PICK i \in DOMAIN samples : s = samples[i]  BY <2>1 DEF ToSet
    <3>3. s \in [watts : ExtechWatts, turn : {turn}]
      <4>1. DOMAIN samples = 1..Len(samples) /\ \A j \in 1..Len(samples) : samples[j] \in [watts : ExtechWatts, turn : {turn}]
        BY <3>1, ElementOfSeq, LenProperties
      <4> QED  BY ONLY <3>2, <4>1
    <3> QED  BY <3>3
  <2>2. ASSUME Measuring, NEW step \in StepOfMeasurement \ {"disk"}
        PROVE  ~stop_measurement /\ \E b \in burners : b.step = step
    <3>1. todo \in Seq(Operations) /\ todo # <<>>  BY <2>2 DEF IInv, PlanInv, Measuring
    <3>2. Tail(todo) # <<>> /\ Head(Tail(todo)).op = "stop_burning" /\ step = Head(Tail(todo)).step
      BY <2>2 DEF StepOfMeasurement
    <3>3. Tail(todo) \in Seq(Operations)  BY <3>1, TailIs
    <3>4. Head(Tail(todo)) = Tail(todo)[1] /\ Len(Tail(todo)) >= 1  BY <3>2, <3>3, TailIs
    <3>5. 2 \in 1..Len(todo) /\ Tail(todo)[1] = todo[2]
      <4>1. Len(todo) \in Nat /\ Len(Tail(todo)) = Len(todo) - 1
            /\ \A i \in 1..(Len(todo) - 1) : Tail(todo)[i] = todo[i + 1]
        BY <3>1, TailIs
      <4>2. 1 \in 1..(Len(todo) - 1) /\ 1 + 1 = 2 /\ 2 \in 1..Len(todo)  BY <3>4, <4>1
      <4> QED  BY ONLY <4>1, <4>2
    <3>6. Loaded(step)  BY <3>2, <3>4, <3>5 DEF IInv, PlanInv
    <3> QED  BY <2>2, <3>6 DEF Loaded
  <2>3. ASSUME Measuring, NEW b \in burners PROVE b.step \in StepOfMeasurement \/ LeftBehind(b)
    <3>1. CASE AtHand(todo, b.step)
      <4>1. todo \in Seq(Operations) /\ todo # <<>> /\ todo[1].op = "measure"
        BY <2>3 DEF IInv, PlanInv, Measuring
      <4>2. PICK i \in 1..Len(todo) : i \in {1, 2} /\ todo[i].op = "stop_burning" /\ todo[i].step = b.step
        BY <3>1 DEF AtHand
      <4>3. i = 2  BY <4>1, <4>2
      <4>4. /\ Tail(todo) \in Seq(Operations) /\ Len(todo) \in Nat /\ Len(Tail(todo)) = Len(todo) - 1
            /\ \A j \in 1..(Len(todo) - 1) : Tail(todo)[j] = todo[j + 1]
        BY <4>1, TailIs
      <4>5. 1 \in 1..(Len(todo) - 1) /\ 1 + 1 = 2  BY <4>2, <4>3, <4>4
      <4>6. Tail(todo)[1] = todo[2]  BY ONLY <4>4, <4>5
      <4>7. Tail(todo) # <<>>
        <5> DEFINE rest == Tail(todo)
        <5>1. Len(rest) # 0 /\ Len(<<>>) = 0  BY <4>4, <4>5
        <5> HIDE DEF rest
        <5>2. rest # <<>>  BY <5>1
        <5> QED  BY <5>2 DEF rest
      <4>8. Head(Tail(todo)) = Tail(todo)[1]  BY <4>4, <4>7, TailIs
      <4> QED  BY <4>2, <4>3, <4>6, <4>7, <4>8 DEF StepOfMeasurement
    <3> QED  BY <3>1 DEF IInv, BurnersInv
  <2> QED  BY <2>1, <2>2, <2>3 DEF OwnThreadsOnly
<1> QED  BY <1>1, Invariance, PTL

(***************************************************************************)
(* calibrate() changes settings only between save_all_sysfs() and          *)
(* restore_all_sysfs(), also when threads could not be created and a part  *)
(* of it is left out: whatever the devices are, the settings are those of  *)
(* the user again when it is over.                                         *)
(***************************************************************************)
THEOREM SettingsAreRestored == Spec => []SettingsRestored
<1>1. IInv => SettingsRestored
  <2> SUFFICES ASSUME IInv, \A i \in DOMAIN todo : todo[i].op \in {"save_results", "save_parameters"}
               PROVE  AsFound
    BY DEF SettingsRestored, AsFound
  <2>1. \A i \in 1..Len(todo) : todo[i].op \in {"save_results", "save_parameters"}
    BY DEF IInv, PlanInv
  <2>2. ~Closing(todo)
    <3>1. \A r \in 1..Len(todo) : todo[r].op # "restore_settings"  BY <2>1
    <3> QED  BY <3>1 DEF Closing, CloseAt
  <2>3. ~Unstarted(todo)
    <3> SUFFICES ASSUME Unstarted(todo) PROVE FALSE  OBVIOUS
    <3>1. PICK r \in 2..Len(todo) : CloseAt(todo, 2, r)  BY DEF Unstarted
    <3>2. r \in 1..Len(todo) /\ todo[r].op = "restore_settings"  BY <3>1 DEF CloseAt
    <3> QED  BY <2>1, <3>2
  <2> QED  BY <2>2, <2>3 DEF IInv, SettingsInv
<1> QED  BY <1>1, Invariance, PTL

(***************************************************************************)
(* Whatever parameters were loaded, from a file that may have been cut     *)
(* anywhere, and whatever USB devices are plugged in: as long as the       *)
(* program runs no name is without its slot.                               *)
(***************************************************************************)
THEOREM NamesAlwaysHaveSlots == Spec => []NamesHaveSlots
<1>1. IInv => NamesHaveSlots  BY DEF IInv, NamesInv, NamesHaveSlots
<1> QED  BY <1>1, Invariance, PTL

(***************************************************************************)
(* However many results of however many utilizations were being saved, and *)
(* wherever the writing was cut off, the next start of the program loads a *)
(* front of them: whole records but for the last, which may lack values.   *)
(***************************************************************************)
THEOREM LoadsTheSavedOnly == Spec => LoadsWhatWasSaved
<1>1. ASSUME IInv, [Next]_vars
      PROVE  [PowertopInit =>
               /\ Len(past_results') <= Len(saved)
               /\ \A i \in DOMAIN past_results' :
                    /\ past_results'[i].power = saved[i].power
                    /\ i < Len(past_results') => past_results'[i] = saved[i]
               /\ results_file = ResultLines(saved) => past_results' = saved]_vars
  <2> SUFFICES ASSUME PowertopInit
               PROVE  LoadedOf(past_results', saved) /\ (results_file = ResultLines(saved) => past_results' = saved)
    BY DEF LoadedOf
  <2>1. ResultsInv  BY <1>1 DEF IInv
  <2> QED  BY <2>1, LoadedIsRecorded
<1> QED  BY <1>1, Invariance, PTL DEF Spec, LoadsWhatWasSaved
=================================================================================
