----------------------------- MODULE TestFramework -----------------------------
(***************************************************************************)
(* How powertop reads the machine (src/src/lib.cpp) and how the test       *)
(* framework records what it read and serves it again                      *)
(* (src/src/test_framework.cpp).  What is read has a key <<kind, name>>:   *)
(* "R" a file, "A" whether it may be read, "D" a directory, "M" a register *)
(* of a CPU, "T" the time.  All reads of one key in a handler give the     *)
(* same value, and "reads" says how often the handler reads each key.      *)
(***************************************************************************)
EXTENDS Integers, Sequences, SequencesExt

CONSTANTS
  Absent,       \* a file that cannot be opened, a register that cannot be read
  MaxInt,       \* the largest int
  MaxSize       \* of a register's answer: the bytes that pread returns

\* No content of a file is taken for one that cannot be read.
ASSUME FrameworkAssumption ==
  Absent \notin Int /\ MaxInt \in Nat /\ MaxSize \in Nat \ {0}

VARIABLES
  mode,         \* "recording" or "replaying"
  kernel,       \* [key -> value]: the machine
  gone,         \* keys that cannot be read now
  records,      \* [key -> sequence]: the recorded values
  queues        \* [key -> sequence]: what is left to be replayed

frameworkVars == <<mode, records, queues>>

R(name) == <<"R", name>>
D(name) == <<"D", name>>
M(name) == <<"M", name>>

\* pt_access
A(name) == <<"A", name>>

All(keys, value) == [k \in keys |-> value]
Once(keys) == All(keys, 1)

\* f, and g where f has nothing.
Over(f, g) == [k \in DOMAIN f \cup DOMAIN g |-> IF k \in DOMAIN f THEN f[k] ELSE g[k]]

Content(k) == IF k \in gone THEN Absent ELSE kernel[k]

\* read_file_content and list_directory record failures too.
RecordedRead(k, times) == records[k] \o [i \in 1..times |-> Content(k)]

\* read_msr records only what it could read.
RecordedMsr(k, times) ==
  IF Content(k) = Absent THEN records[k] ELSE records[k] \o [i \in 1..times |-> Content(k)]

\* The last of the reads takes the value; with too few records the replay throws.
Replayed(k, times) == queues[k][times]

Served(reads) == mode = "replaying" => \A k \in DOMAIN reads : reads[k] <= Len(queues[k])

ReadContent(k, times) == IF mode = "replaying" THEN Replayed(k, times) ELSE Content(k)

\* What is listed by a directory, and what pt_access allows.
Present(k) == ReadContent(k, 1) # Absent
Accessible(name) == ReadContent(A(name), 1) # Absent

\* write_sysfs ignores what it cannot open.
Writable(k) == mode = "recording" /\ k \notin gone

\* A replay only logs what would be written.
Written(k, value) == IF Writable(k) THEN [kernel EXCEPT ![k] = value] ELSE kernel

\* What read_msr returns: the size, or 0 in a replay, or an error.
MsrReturned(k, times) ==
  CASE mode = "replaying" -> 0
    [] mode = "recording" /\ Content(k) = Absent -> -1
    [] OTHER -> MaxSize

Got(reads) == [k \in DOMAIN reads |-> ReadContent(k, reads[k])]

Recorded(k, times) == IF k[1] = "M" THEN RecordedMsr(k, times) ELSE RecordedRead(k, times)

Reads(reads) ==
  /\ records' = [k \in DOMAIN records |->
       IF mode = "recording" /\ k \in DOMAIN reads THEN Recorded(k, reads[k]) ELSE records[k]]
  /\ queues' = [k \in DOMAIN queues |->
       IF mode = "replaying" /\ k \in DOMAIN reads
       THEN SubSeq(queues[k], reads[k] + 1, Len(queues[k])) ELSE queues[k]]

\* save() at the end of one run of powertop and load() at the start of the next:
\* the order is kept for each key.
SaveAndLoad ==
  /\ mode = "recording"
  /\ mode' = "replaying"
  /\ queues' = records
  /\ records' = [k \in DOMAIN records |-> <<>>]

\* read_sysfs: an int, 0 for what cannot be read or does not fit.
ReadInt(content) == IF content = Absent \/ content > MaxInt THEN 0 ELSE content

\* read_sysfs_uint64.
ReadUint64(content) == IF content = Absent THEN 0 ELSE content

FrameworkInit(keys) ==
  /\ mode = "recording"
  /\ gone = {}
  /\ records = [k \in keys |-> <<>>]
  /\ queues = [k \in keys |-> <<>>]
=============================================================================
