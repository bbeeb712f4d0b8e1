------------------------------- MODULE PerfBundle -------------------------------
(***************************************************************************)
(* The records of a measurement (src/src/perf/perf.cpp, perf_bundle.cpp):  *)
(* a bundle has a perf_event for each tracepoint of each CPU, each with a  *)
(* buffer that it shares with the kernel.  Starting maps and enables them  *)
(* one after the other, stopping disables them one after the other, so     *)
(* some already or still record while others do not.  Processing copies    *)
(* the records of each buffer, sorts the copies and hands them over;       *)
(* clearing unmaps the buffers and frees the copies.                       *)
(*                                                                         *)
(* The kernel's side is external: it appends a record if there is room     *)
(* between data_head, which it never wraps, and data_tail; it counts what  *)
(* it dropped and says so in a PERF_RECORD_LOST before the next record     *)
(* that fits.  Sizes and offsets are in units, not bytes.                  *)
(***************************************************************************)
EXTENDS Integers, Sequences

CONSTANTS
  NEvents,       \* perf_events of the bundle, numbered in the order of `events'
  BufSize,       \* units in a buffer
  SampleSizes,   \* units in a sample
  LostSize,      \* units in a PERF_RECORD_LOST
  MaxStamp       \* bound: the largest time stamp

ASSUME SizesAssumption ==
  /\ NEvents \in Nat \ {0}
  /\ BufSize \in Nat \ {0}
  /\ SampleSizes \subseteq Nat \ {0}
  /\ LostSize \in Nat \ {0}
  /\ MaxStamp \in Nat

Events  == 1..NEvents
Stamps  == 1..MaxStamp
Offsets == 0..BufSize - 1

\* A header in a buffer.  A fresh mapping is zero, so a size of 0 says that
\* nothing was written there.
Sample(e, pos, size, time) ==
  [type |-> "sample", event |-> e, pos |-> pos, size |-> size, time |-> time]
Lost(e, pos) == [type |-> "lost", event |-> e, pos |-> pos, size |-> LostSize, time |-> 0]
Zero(e)      == [type |-> "none", event |-> e, pos |-> 0, size |-> 0, time |-> 0]

Samples ==
  {Sample(e, pos, size, time) : e \in Events, pos \in Offsets, size \in SampleSizes, time \in Stamps}
Headers == Samples \cup {Lost(e, pos) : e \in Events, pos \in Offsets} \cup {Zero(e) : e \in Events}
-----------------------------------------------------------------------------
VARIABLES
  phase,         \* what the bundle is doing: see Phases
  at,            \* index into `events' of the loop that is running
  fd,            \* perf_fd: "closed" is -1, else whether the kernel records
  data_mmap,     \* per buffer: the header at each offset
  data_head, data_tail,
  lost,          \* kernel: it dropped records since it last wrote one
  records,       \* the copies, in the order they were made
  done,          \* indices of the copies handed to handle_trace_point
  handed         \* what was handed over, in this order

ringVars == <<fd, data_mmap, data_head, data_tail, lost>>
copyVars == <<records, done, handed>>
vars == <<phase, at, ringVars, copyVars>>

Phases == {"idle", "starting", "measuring", "stopping", "stopped", "draining", "handing",
           "processed", "exited"}

TypeOK ==
  /\ phase \in Phases
  /\ at \in Events
  /\ fd \in [Events -> {"closed", "disabled", "enabled"}]
  /\ data_mmap \in [Events -> [Offsets -> Headers]]
  /\ data_head \in [Events -> Nat]
  /\ data_tail \in [Events -> Nat]
  /\ lost \in [Events -> BOOLEAN]
  /\ records \in Seq(Samples)
  /\ done \subseteq DOMAIN records
  /\ handed \in Seq(Samples)

Init ==
  /\ phase = "idle"
  /\ at = 1
  /\ fd = [e \in Events |-> "closed"]
  /\ data_mmap = [e \in Events |-> [offset \in Offsets |-> Zero(e)]]
  /\ data_head = [e \in Events |-> 0]
  /\ data_tail = [e \in Events |-> 0]
  /\ lost = [e \in Events |-> FALSE]
  /\ records = <<>>
  /\ done = {}
  /\ handed = <<>>

\* One turn of a loop over `events' in phase `now'; the last leads to `after'.
IsLast_OnePast(e) == e = NEvents + 1   \* mutant

IsLast(e) == e = NEvents

Turn(e, now, after) ==
  /\ phase = now
  /\ at = e
  /\ at' = IF IsLast(e) THEN 1 ELSE e + 1
  /\ phase' = IF IsLast(e) THEN after ELSE now

Enter(now, next) ==
  /\ phase = now
  /\ phase' = next
  /\ UNCHANGED at
-----------------------------------------------------------------------------
(***************************************************************************)
(* perf_bundle::start: create_perf_event for each event.                   *)
(***************************************************************************)
Start ==
  /\ Enter("idle", "starting")
  /\ handed' = <<>>
  /\ UNCHANGED <<ringVars, records, done>>

\* A fresh mapping, unless clear() left the old one in place.
FreshBuffer(e) ==
  /\ data_mmap' = [data_mmap EXCEPT ![e] = [offset \in Offsets |-> Zero(e)]]
  /\ data_head' = [data_head EXCEPT ![e] = 0]
  /\ data_tail' = [data_tail EXCEPT ![e] = 0]
  /\ lost' = [lost EXCEPT ![e] = FALSE]

\* mmap fails: "closed"; the ioctl that enables the event fails: "disabled".
CreatePerfEvent(e, outcome) ==
  /\ Turn(e, "starting", "measuring")
  /\ fd' = [fd EXCEPT ![e] = outcome]
  /\ FreshBuffer(e)
  /\ UNCHANGED copyVars

\* perf_event_open fails or the descriptor cannot be read: the program exits.
OpenFails ==
  /\ Enter("starting", "exited")
  /\ UNCHANGED <<ringVars, copyVars>>
-----------------------------------------------------------------------------
(***************************************************************************)
(* The kernel.                                                             *)
(***************************************************************************)
Wrap(n) == n % BufSize

Room(e) == BufSize - 1 - (data_head[e] - data_tail[e])

\* The offsets of `size' units from `from' on.
Units(from, size) == {Wrap(from + k) : k \in 0..size - 1}

Commit(e, size, time) ==
  LET before == IF lost[e] THEN LostSize ELSE 0
      pos    == data_head[e] + before
  IN
  /\ before + size <= Room(e)
  /\ data_mmap' = [data_mmap EXCEPT ![e] = [offset \in Offsets |->
       CASE offset = Wrap(pos) -> Sample(e, offset, size, time)
         [] offset # Wrap(pos) /\ lost[e] /\ offset = Wrap(data_head[e]) -> Lost(e, offset)
         [] OTHER -> IF offset \in Units(data_head[e], before + size) THEN Zero(e) ELSE @[offset]]]
  /\ data_head' = [data_head EXCEPT ![e] = pos + size]
  /\ lost' = [lost EXCEPT ![e] = FALSE]
  /\ UNCHANGED data_tail

Drop(e, size) ==
  /\ (IF lost[e] THEN LostSize ELSE 0) + size > Room(e)
  /\ lost' = [lost EXCEPT ![e] = TRUE]
  /\ UNCHANGED <<data_mmap, data_head, data_tail>>

KernelRecords(e, size, time) ==
  /\ fd[e] = "enabled"
  /\ phase # "exited"
  /\ Commit(e, size, time) \/ Drop(e, size)
  /\ UNCHANGED <<phase, at, fd, copyVars>>
-----------------------------------------------------------------------------
(***************************************************************************)
(* perf_bundle::stop.  The ioctl that disables an open event is taken to   *)
(* succeed: the program prints a message if not, and goes on.              *)
(***************************************************************************)
Stop ==
  /\ Enter("measuring", "stopping")
  /\ UNCHANGED <<ringVars, copyVars>>

Stopped_LeavesEnabled(e) == fd   \* mutant: the ioctl is not made

Stopped(e) == [fd EXCEPT ![e] = IF @ = "enabled" THEN "disabled" ELSE @]

StopEvent(e) ==
  /\ Turn(e, "stopping", "stopped")
  /\ fd' = Stopped(e)
  /\ UNCHANGED <<data_mmap, data_head, data_tail, lost, copyVars>>
-----------------------------------------------------------------------------
(***************************************************************************)
(* perf_bundle::process: perf_event::process for each event, then the sort *)
(* and the loop that hands the copies over.  std::ranges::sort is not      *)
(* stable: among equal times any copy may come first.                      *)
(***************************************************************************)
Process ==
  /\ Enter("stopped", "draining")
  /\ UNCHANGED <<ringVars, copyVars>>

HeaderAt(e) == data_mmap[e][Wrap(data_tail[e])]

\* One turn of the loop over the records of a buffer.
TailAfter_SamplesOnly(e) ==   \* mutant: other records are skipped before the tail moves
  IF HeaderAt(e).type = "sample" THEN Wrap(data_tail[e] + HeaderAt(e).size) ELSE data_tail[e]

TailAfter(e) == Wrap(Wrap(data_tail[e]) + HeaderAt(e).size)

ReadRecord(e) ==
  /\ phase = "draining" /\ at = e
  /\ fd[e] # "closed"
  /\ data_tail[e] # data_head[e]
  /\ HeaderAt(e).size # 0
  /\ data_tail' = [data_tail EXCEPT ![e] = TailAfter(e)]
  /\ records' = IF HeaderAt(e).type = "sample" THEN Append(records, HeaderAt(e)) ELSE records
  /\ UNCHANGED <<phase, at, fd, data_mmap, data_head, lost, done, handed>>

\* The loop ends, or there was none; the copies are sorted when all are made.
BufferDone(e) ==
  /\ Turn(e, "draining", "handing")
  /\ \/ fd[e] = "closed" /\ UNCHANGED data_tail
     \/ /\ fd[e] # "closed"
        /\ data_tail[e] = data_head[e] \/ HeaderAt(e).size = 0
        /\ data_tail' = [data_tail EXCEPT ![e] = data_head[e]]
  /\ UNCHANGED <<fd, data_mmap, data_head, lost, copyVars>>

SortsFirst_Reversed(i, j) == records[i].time >= records[j].time   \* mutant

SortsFirst(i, j) == records[i].time <= records[j].time

HandOver(i) ==
  /\ phase = "handing"
  /\ i \in DOMAIN records \ done
  /\ \A j \in DOMAIN records \ done : SortsFirst(i, j)
  /\ done' = done \cup {i}
  /\ handed' = Append(handed, records[i])
  /\ UNCHANGED <<phase, at, ringVars, records>>

HandedOver ==
  /\ Enter("handing", "processed")
  /\ done = DOMAIN records
  /\ UNCHANGED <<ringVars, copyVars>>
-----------------------------------------------------------------------------
(***************************************************************************)
(* perf_bundle::clear, after processing, or instead of it when a replayed  *)
(* test skips process_process_data.  Release is the same at the end.       *)
(***************************************************************************)
ClearAll ==
  /\ fd' = [e \in Events |-> "closed"]
  /\ data_mmap' = [e \in Events |-> [offset \in Offsets |-> Zero(e)]]
  /\ data_head' = [e \in Events |-> 0]
  /\ data_tail' = [e \in Events |-> 0]
  /\ lost' = [e \in Events |-> FALSE]
  /\ records' = <<>>
  /\ done' = {}
  /\ UNCHANGED handed

Clear ==
  /\ Enter("stopped", "idle") \/ Enter("processed", "idle")
  /\ ClearAll

Release ==
  /\ Enter("idle", "exited")
  /\ ClearAll
-----------------------------------------------------------------------------
Drain == \E e \in Events : ReadRecord(e) \/ BufferDone(e)
Hand  == (\E i \in DOMAIN records : HandOver(i)) \/ HandedOver

Next ==
  \/ Start
  \/ \E e \in Events, outcome \in {"closed", "disabled", "enabled"} : CreatePerfEvent(e, outcome)
  \/ OpenFails
  \/ \E e \in Events, size \in SampleSizes, time \in Stamps : KernelRecords(e, size, time)
  \/ Stop
  \/ \E e \in Events : StopEvent(e)
  \/ Process
  \/ Drain
  \/ Hand
  \/ Clear
  \/ Release

\* process() is a sequential call: it goes on as long as it can.
Fairness == WF_vars(Drain) /\ WF_vars(Hand)

SafeSpec == Init /\ [][Next]_vars
Spec == SafeSpec /\ Fairness
-----------------------------------------------------------------------------
(***************************************************************************)
(* Properties.                                                             *)
(***************************************************************************)

\* No buffer ever wraps: process() wraps data_tail but compares it with the
\* unwrapped data_head, so its loop is right only for what was written from the
\* start of a mapping by a kernel that found data_tail where create_perf_event
\* left it (perf.cpp, perf_event::process).
NeverWraps ==
  \A e \in Events : data_tail[e] <= data_head[e] /\ data_head[e] < BufSize

\* The loops of process() end, whatever records of other types the kernel put
\* between the samples (perf_event::process, perf_bundle::process).
ProcessEnds == phase = "draining" ~> phase = "processed"

\* What has been committed and not handed over: still in a buffer, or copied.
Unread(e) == {data_mmap[e][offset] : offset \in data_tail[e]..data_head[e] - 1}

InBuffers == Samples \cap UNION {Unread(e) : e \in Events}

Copied == {records[i] : i \in DOMAIN records \ done}

\* Each committed sample is handed over exactly once, in the order of time, all
\* of a measurement or none, and none of the measurement before.
Delivery == INSTANCE TraceDelivery WITH
  collecting <- phase \in {"starting", "measuring", "stopping"},
  pending    <- InBuffers \cup Copied,
  delivered  <- handed

DeliversAll == Delivery!Spec
=================================================================================
