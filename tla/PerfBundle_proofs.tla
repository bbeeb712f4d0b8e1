--------------------------- MODULE PerfBundle_proofs ---------------------------
(***************************************************************************)
(* Proofs about PerfBundle, for any number of events and any sizes: no     *)
(* buffer wraps, and the bundle implements TraceDelivery.                  *)
(***************************************************************************)
EXTENDS PerfBundle, TLAPS

\* What is in a buffer, from data_tail on: headers that follow one another up to
\* data_head, nothing in between and nothing behind.
Written(e, offset) == data_mmap[e][offset].size # 0

BufferOK(e) ==
  /\ data_tail[e] <= data_head[e] /\ data_head[e] < BufSize
  /\ fd[e] = "closed" => data_head[e] = 0
  /\ data_tail[e] = data_head[e] \/ Written(e, data_tail[e])
  /\ \A offset \in Offsets :
       LET next == offset + data_mmap[e][offset].size IN
       /\ data_mmap[e][offset].event = e
       /\ Written(e, offset) =>
            /\ data_mmap[e][offset].pos = offset
            /\ next <= data_head[e]
            /\ next = data_head[e] \/ Written(e, next)
            /\ \A inside \in Offsets : offset < inside /\ inside < next => ~Written(e, inside)

\* Which events record, and what has been read, in each phase.
PhaseOK ==
  /\ phase \notin {"starting", "stopping", "draining", "exited"} => at = 1
  /\ phase = "idle" => \A e \in Events : fd[e] = "closed"
  /\ phase = "starting" => \A e \in Events : e >= at => fd[e] = "closed"
  /\ \A e \in Events : fd[e] = "enabled" =>
       \/ phase \in {"starting", "measuring", "exited"}
       \/ phase = "stopping" /\ at <= e
  /\ phase \in {"idle", "starting", "measuring", "stopping", "stopped"} =>
       /\ \A e \in Events : data_tail[e] = 0
       /\ records = <<>> /\ done = {}
  /\ phase \in {"starting", "measuring", "stopping", "stopped", "draining"} => handed = <<>>
  /\ phase = "draining" =>
       /\ done = {}
       /\ \A e \in Events : e < at => data_tail[e] = data_head[e]
  /\ phase \in {"handing", "processed"} => \A e \in Events : data_tail[e] = data_head[e]
  /\ phase = "processed" => done = DOMAIN records

\* The copies are of different records, all of them read.
CopiesOK ==
  /\ \A i \in DOMAIN records : records[i].pos < data_tail[records[i].event]
  /\ \A i, j \in DOMAIN records : i # j => records[i] # records[j]

Inv ==
  /\ TypeOK
  /\ \A e \in Events : BufferOK(e)
  /\ PhaseOK
  /\ CopiesOK
-----------------------------------------------------------------------------
(***************************************************************************)
(* Headers and offsets.                                                    *)
(***************************************************************************)

\* An offset within the buffer is not wrapped.
LEMMA WrapInside ==
  ASSUME NEW n \in Offsets
  PROVE  Wrap(n) = n
BY SizesAssumption DEF Offsets, Wrap

\* The kinds of header, and their fields.
LEMMA HeaderKinds ==
  ASSUME NEW h \in Headers
  PROVE  /\ h.size \in Nat
         /\ h.size = 0 => h.type = "none" /\ h \notin Samples
         /\ h \in Samples <=> h.type = "sample"
         /\ h \in Samples => h.event \in Events /\ h.pos \in Offsets /\ h.time \in Stamps
<1>1. CASE h \in Samples
  BY <1>1, SizesAssumption DEF Samples, Sample
<1>2. ASSUME NEW e \in Events, NEW pos \in Offsets, h = Lost(e, pos)
      PROVE  h.type = "lost" /\ h.size = LostSize
  BY <1>2 DEF Lost
<1>3. ASSUME NEW e \in Events, h = Zero(e)
      PROVE  h.type = "none" /\ h.size = 0
  BY <1>3 DEF Zero
<1>4. h \in Samples => h.type = "sample"  BY DEF Samples, Sample
<1>5. CASE h \notin Samples
  <2>1. \/ h.type = "lost" /\ h.size = LostSize
        \/ h.type = "none" /\ h.size = 0
    BY <1>2, <1>3, <1>5 DEF Headers
  <2> QED  BY <1>5, <2>1, SizesAssumption
<1> QED  BY <1>1, <1>4, <1>5

\* Zero marks are headers of size 0, a sample is a header with its own size.
LEMMA MadeHeaders ==
  ASSUME NEW e \in Events, NEW pos \in Offsets, NEW size \in SampleSizes, NEW time \in Stamps
  PROVE  /\ Sample(e, pos, size, time) \in Samples
         /\ Samples \subseteq Headers
         /\ Lost(e, pos) \in Headers /\ Zero(e) \in Headers
         /\ Sample(e, pos, size, time).event = e /\ Sample(e, pos, size, time).pos = pos
         /\ Sample(e, pos, size, time).size = size
         /\ Lost(e, pos).event = e /\ Lost(e, pos).pos = pos /\ Lost(e, pos).size = LostSize
         /\ Zero(e).event = e /\ Zero(e).size = 0
         /\ size \in Nat \ {0}
BY SizesAssumption DEF Sample, Samples, Lost, Zero, Headers

\* What a buffer holds are the samples between data_tail and data_head.
LEMMA InBuffersAre ==
  ASSUME TypeOK, \A e \in Events : BufferOK(e)
  PROVE  \A s : s \in InBuffers <=>
           /\ s \in Samples
           /\ \E e \in Events, offset \in Offsets :
                data_tail[e] <= offset /\ offset < data_head[e] /\ s = data_mmap[e][offset]
<1>1. \A e \in Events : data_tail[e] \in Nat /\ data_head[e] \in Nat /\ data_head[e] < BufSize
  BY DEF TypeOK, BufferOK
<1>2. \A e \in Events : \A offset :
        offset \in data_tail[e]..data_head[e] - 1 <=>
          offset \in Offsets /\ data_tail[e] <= offset /\ offset < data_head[e]
  BY <1>1, SizesAssumption DEF Offsets
<1> QED  BY <1>2 DEF InBuffers, Unread
-----------------------------------------------------------------------------
(***************************************************************************)
(* The kernel's writes.                                                    *)
(***************************************************************************)

\* Nothing lies behind data_head.
LEMMA BehindHead ==
  ASSUME TypeOK, NEW e \in Events, BufferOK(e), NEW offset \in Offsets, offset >= data_head[e]
  PROVE  data_mmap[e][offset].size = 0
<1>1. data_mmap[e][offset] \in Headers /\ data_head[e] \in Nat  BY DEF TypeOK
<1>2. data_mmap[e][offset].size \in Nat  BY <1>1, HeaderKinds
<1>3. Written(e, offset) => offset + data_mmap[e][offset].size <= data_head[e]  BY DEF BufferOK
<1> QED  BY <1>1, <1>2, <1>3, SizesAssumption DEF Written, Offsets

\* With data_tail at the start of the buffer, a commit appends a sample at an
\* offset p, perhaps with the mark of a loss before it, and does not wrap.
LEMMA CommitAppends ==
  ASSUME TypeOK, NEW e \in Events, BufferOK(e), data_tail[e] = 0,
         NEW size \in SampleSizes, NEW time \in Stamps, Commit(e, size, time)
  PROVE  \E p \in Offsets :
           /\ data_head' = [data_head EXCEPT ![e] = p + size] /\ p + size < BufSize
           /\ \A other \in Events \ {e} : data_mmap'[other] = data_mmap[other]
           /\ data_mmap' \in [Events -> [Offsets -> Headers]]
           /\ data_mmap'[e][p] = Sample(e, p, size, time)
           /\ \/ p = data_head[e]
              \/ /\ p = data_head[e] + LostSize
                 /\ data_mmap'[e][data_head[e]] = Lost(e, data_head[e])
           /\ \A offset \in Offsets : offset < data_head[e] => data_mmap'[e][offset] = data_mmap[e][offset]
           /\ \A offset \in Offsets \ {data_head[e], p} : offset > data_head[e] =>
                data_mmap'[e][offset].size = 0 /\ data_mmap'[e][offset].event = e
<1> DEFINE h == data_head[e]
           before == IF lost[e] THEN LostSize ELSE 0
           p == h + before
           put(offset) ==
             CASE offset = Wrap(p) -> Sample(e, offset, size, time)
               [] offset # Wrap(p) /\ lost[e] /\ offset = Wrap(h) -> Lost(e, offset)
               [] OTHER -> IF offset \in Units(h, before + size) THEN Zero(e) ELSE data_mmap[e][offset]
<1>1. /\ before \in Nat /\ h \in Nat /\ size \in Nat \ {0} /\ p = h + before
      /\ before + size <= BufSize - 1 - h
  BY SizesAssumption DEF TypeOK, Commit, Room
<1>2. /\ data_mmap' = [data_mmap EXCEPT ![e] = [offset \in Offsets |-> put(offset)]]
      /\ data_head' = [data_head EXCEPT ![e] = p + size]
  BY DEF Commit
<1>3. p \in Offsets /\ h \in Offsets /\ h <= p /\ p + size < BufSize
  BY <1>1, SizesAssumption DEF Offsets
<1>4. Wrap(p) = p /\ Wrap(h) = h  BY <1>3, WrapInside
<1>5. lost[e] <=> p # h  BY <1>1, SizesAssumption DEF TypeOK
<1>6. \A offset \in Units(h, before + size) : offset >= h
  <2> SUFFICES ASSUME NEW k \in 0..(before + size) - 1 PROVE Wrap(h + k) >= h  BY DEF Units
  <2>1. h + k \in Offsets /\ h + k >= h  BY <1>1, SizesAssumption DEF Offsets
  <2> QED  BY <2>1, WrapInside
<1> HIDE DEF p, before
<1>7. \A offset \in Offsets :
        /\ put(offset) \in Headers
        /\ offset = p => put(offset) = Sample(e, p, size, time)
        /\ offset < h => put(offset) = data_mmap[e][offset]
        /\ offset = h /\ p # h => put(offset) = Lost(e, h)
        /\ offset > h /\ offset # p => put(offset).size = 0 /\ put(offset).event = e
  <2> SUFFICES ASSUME NEW offset \in Offsets
               PROVE  /\ put(offset) \in Headers
                      /\ offset = p => put(offset) = Sample(e, p, size, time)
                      /\ offset < h => put(offset) = data_mmap[e][offset]
                      /\ offset = h /\ p # h => put(offset) = Lost(e, h)
                      /\ offset > h /\ offset # p => put(offset).size = 0 /\ put(offset).event = e
    OBVIOUS
  <2>1. offset \in Nat /\ p \in Nat /\ h \in Nat  BY <1>1, <1>3, SizesAssumption DEF Offsets
  <2>2. CASE offset = p
    <3>1. put(offset) = Sample(e, p, size, time)  BY <1>4, <2>2
    <3> QED  BY <1>3, <2>1, <2>2, <3>1, MadeHeaders
  <2>3. CASE offset = h /\ offset # p
    <3>1. put(offset) = Lost(e, h)  BY <1>4, <1>5, <2>3
    <3> QED  BY <1>3, <2>1, <2>3, <3>1, MadeHeaders
  <2>4. CASE offset # h /\ offset # p
    <3>1. put(offset) = IF offset \in Units(h, before + size) THEN Zero(e) ELSE data_mmap[e][offset]
      BY <1>4, <2>4
    <3>2. data_mmap[e][offset] \in Headers  BY DEF TypeOK
    <3>3. offset > h => data_mmap[e][offset].size = 0  BY <2>1, BehindHead
    <3>4. data_mmap[e][offset].event = e  BY DEF BufferOK
    <3>5. put(offset) \in {Zero(e), data_mmap[e][offset]}  BY <3>1
    <3>6. Zero(e) \in Headers /\ Zero(e).size = 0 /\ Zero(e).event = e
      BY <1>3, MadeHeaders
    <3>7. offset < h => put(offset) = data_mmap[e][offset]  BY <1>6, <2>1, <3>1
    <3> HIDE DEF put
    <3> QED  BY <2>1, <2>4, <3>2, <3>3, <3>4, <3>5, <3>6, <3>7
  <2> QED  BY <2>2, <2>3, <2>4
<1> HIDE DEF put
<1>8. /\ data_mmap' \in [Events -> [Offsets -> Headers]]
      /\ \A offset \in Offsets : data_mmap'[e][offset] = put(offset)
      /\ \A other \in Events \ {e} : data_mmap'[other] = data_mmap[other]
  BY <1>2, <1>7 DEF TypeOK
<1>9. p = h \/ p = h + LostSize  BY <1>1, SizesAssumption DEF before
<1> QED  BY <1>2, <1>3, <1>7, <1>8, <1>9

\* After a commit the headers still follow one another.
LEMMA CommitKeepsBuffer ==
  ASSUME TypeOK, NEW e \in Events, BufferOK(e), data_tail[e] = 0, fd[e] # "closed",
         UNCHANGED <<data_tail, fd>>,
         NEW size \in SampleSizes, NEW time \in Stamps, Commit(e, size, time)
  PROVE  BufferOK(e)'
<1> DEFINE h == data_head[e]
           Now(offset) == data_mmap'[e][offset].size # 0
<1>1. PICK p \in Offsets :
        /\ data_head' = [data_head EXCEPT ![e] = p + size] /\ p + size < BufSize
        /\ \A other \in Events \ {e} : data_mmap'[other] = data_mmap[other]
        /\ data_mmap' \in [Events -> [Offsets -> Headers]]
        /\ data_mmap'[e][p] = Sample(e, p, size, time)
        /\ \/ p = data_head[e]
           \/ /\ p = data_head[e] + LostSize
              /\ data_mmap'[e][data_head[e]] = Lost(e, data_head[e])
        /\ \A offset \in Offsets : offset < data_head[e] => data_mmap'[e][offset] = data_mmap[e][offset]
        /\ \A offset \in Offsets \ {data_head[e], p} : offset > data_head[e] =>
             data_mmap'[e][offset].size = 0 /\ data_mmap'[e][offset].event = e
  BY CommitAppends
<1>2. /\ h \in Nat /\ h < BufSize /\ h <= p /\ p \in Nat /\ size \in Nat \ {0}
      /\ LostSize \in Nat \ {0} /\ BufSize \in Nat \ {0}
      /\ Offsets = {n \in Nat : n < BufSize}
  BY <1>1, SizesAssumption DEF TypeOK, BufferOK, Offsets
<1>3. h \in Offsets  BY <1>2
<1>4. data_head'[e] = p + size /\ data_tail'[e] = 0 /\ fd'[e] # "closed"  BY <1>1 DEF TypeOK
<1>5. /\ Now(p) /\ data_mmap'[e][p].size = size
      /\ data_mmap'[e][p].pos = p /\ data_mmap'[e][p].event = e
  BY <1>1, <1>2, MadeHeaders DEF Written
<1>6. h # p => /\ p = h + LostSize
               /\ Now(h) /\ data_mmap'[e][h].size = LostSize
               /\ data_mmap'[e][h].pos = h /\ data_mmap'[e][h].event = e
  <2>1. Lost(e, h).event = e /\ Lost(e, h).pos = h /\ Lost(e, h).size = LostSize
    BY DEF Lost
  <2> QED  BY <1>1, <1>2, <2>1 DEF Written
<1>7. \A offset \in Offsets : offset < h =>
        (Now(offset) <=> Written(e, offset)) /\ data_mmap'[e][offset] = data_mmap[e][offset]
  BY <1>1 DEF Written
<1>8. \A offset \in Offsets : offset > h /\ offset # p =>
        ~Now(offset) /\ data_mmap'[e][offset].event = e
  BY <1>1, <1>2 DEF Written
<1>9. Now(h)  BY <1>5, <1>6
<1>10. \A offset \in Offsets :
         /\ data_mmap[e][offset].event = e
         /\ data_mmap[e][offset].size \in Nat
         /\ data_mmap'[e][offset].size \in Nat
  BY <1>1, HeaderKinds DEF BufferOK, TypeOK
<1>11. h = 0 \/ Written(e, 0)  BY <1>2 DEF BufferOK
<1>12. Now(0)  BY <1>2, <1>3, <1>7, <1>9, <1>11
<1>13. ASSUME NEW offset \in Offsets
       PROVE  LET next == offset + data_mmap'[e][offset].size IN
              /\ data_mmap'[e][offset].event = e
              /\ Now(offset) =>
                   /\ data_mmap'[e][offset].pos = offset
                   /\ next <= data_head'[e]
                   /\ next = data_head'[e] \/ Now(next)
                   /\ \A inside \in Offsets : offset < inside /\ inside < next => ~Now(inside)
  <2> DEFINE next == offset + data_mmap'[e][offset].size
  <2>1. CASE offset < h
    <3>1. data_mmap'[e][offset] = data_mmap[e][offset] /\ (Now(offset) <=> Written(e, offset))
      BY <1>7, <2>1
    <3>2. CASE ~Written(e, offset)  BY <1>10, <3>1, <3>2
    <3>3. CASE Written(e, offset)
      <4>1. /\ data_mmap'[e][offset].pos = offset
            /\ next <= h
            /\ next = h \/ Written(e, next)
            /\ \A inside \in Offsets : offset < inside /\ inside < next => ~Written(e, inside)
        BY <3>1, <3>3 DEF BufferOK
      <4>2. next \in Nat  BY <1>2, <1>10
      <4>3. next < h => Now(next)  BY <1>2, <1>7, <4>1, <4>2
      <4>4. Now(next)  BY <1>2, <1>9, <4>1, <4>2, <4>3
      <4>5. \A inside \in Offsets : offset < inside /\ inside < next => ~Now(inside)
        BY <1>2, <1>7, <4>1, <4>2
      <4> QED  BY <1>2, <1>4, <1>10, <3>1, <4>1, <4>2, <4>4, <4>5
    <3> QED  BY <3>2, <3>3
  <2>2. CASE offset = p
    <3>1. next = data_head'[e]  BY <1>4, <1>5, <2>2
    <3>2. \A inside \in Offsets : offset < inside => ~Now(inside)  BY <1>2, <1>8, <2>2
    <3> QED  BY <1>2, <1>4, <1>5, <2>2, <3>1, <3>2
  <2>3. CASE offset = h /\ offset # p
    <3>1. next = p  BY <1>6, <2>3
    <3>2. \A inside \in Offsets : offset < inside /\ inside < next => ~Now(inside)
      BY <1>2, <1>8, <2>3, <3>1
    <3> QED  BY <1>2, <1>4, <1>5, <1>6, <2>3, <3>1, <3>2
  <2>4. CASE offset > h /\ offset # p  BY <1>8, <2>4
  <2> QED  BY <1>2, <2>1, <2>2, <2>3, <2>4
<1>14. data_tail'[e] <= data_head'[e] /\ data_head'[e] < BufSize  BY <1>1, <1>2, <1>4
<1>15. Now(data_tail'[e])  BY <1>4, <1>12
<1> QED  BY <1>4, <1>13, <1>14, <1>15 DEF BufferOK, Written

\* Of what a buffer holds, a commit adds the one sample and changes nothing.
LEMMA CommitCollects ==
  ASSUME TypeOK, \A other \in Events : BufferOK(other),
         NEW e \in Events, data_tail[e] = 0, fd[e] # "closed", UNCHANGED <<data_tail, fd>>,
         NEW size \in SampleSizes, NEW time \in Stamps, Commit(e, size, time)
  PROVE  \E s \in Samples : InBuffers' = InBuffers \cup {s}
<1> DEFINE h == data_head[e]
<1>1. PICK p \in Offsets :
        /\ data_head' = [data_head EXCEPT ![e] = p + size] /\ p + size < BufSize
        /\ \A other \in Events \ {e} : data_mmap'[other] = data_mmap[other]
        /\ data_mmap' \in [Events -> [Offsets -> Headers]]
        /\ data_mmap'[e][p] = Sample(e, p, size, time)
        /\ \/ p = data_head[e]
           \/ /\ p = data_head[e] + LostSize
              /\ data_mmap'[e][data_head[e]] = Lost(e, data_head[e])
        /\ \A offset \in Offsets : offset < data_head[e] => data_mmap'[e][offset] = data_mmap[e][offset]
        /\ \A offset \in Offsets \ {data_head[e], p} : offset > data_head[e] =>
             data_mmap'[e][offset].size = 0 /\ data_mmap'[e][offset].event = e
  BY CommitAppends
<1> DEFINE s == Sample(e, p, size, time)
<1>2. s \in Samples /\ Samples \subseteq Headers /\ size \in Nat \ {0}  BY MadeHeaders
<1>3. /\ h \in Nat /\ h <= p /\ p \in Nat
      /\ \A offset \in Offsets : offset \in Nat
      /\ \A other \in Events : data_head[other] \in Nat
  BY <1>1, SizesAssumption DEF TypeOK, Offsets
<1>4. \A other \in Events \ {e} : data_head'[other] = data_head[other]  BY <1>1 DEF TypeOK
<1>5. data_head'[e] = p + size  BY <1>1 DEF TypeOK
<1>6. \A x : x \in InBuffers <=>
        /\ x \in Samples
        /\ \E other \in Events, offset \in Offsets :
             data_tail[other] <= offset /\ offset < data_head[other] /\ x = data_mmap[other][offset]
  BY InBuffersAre
<1>7. \A x : x \in InBuffers' <=>
        /\ x \in Samples
        /\ \E other \in Events, offset \in Offsets :
             data_tail[other] <= offset /\ offset < data_head'[other] /\ x = data_mmap'[other][offset]
  <2>1. \A other \in Events : data_tail[other] \in Nat /\ data_head'[other] \in Nat
                             /\ data_head'[other] < BufSize
    BY <1>1, <1>2, <1>3, <1>4, <1>5 DEF TypeOK, BufferOK
  <2>2. \A other \in Events : \A offset :
          offset \in data_tail[other]..data_head'[other] - 1 <=>
            offset \in Offsets /\ data_tail[other] <= offset /\ offset < data_head'[other]
    BY <2>1, SizesAssumption DEF Offsets
  <2> QED  BY <2>2 DEF InBuffers, Unread
<1>8. ASSUME NEW x \in InBuffers
      PROVE  x \in InBuffers'
  <2>1. PICK other \in Events, offset \in Offsets :
          data_tail[other] <= offset /\ offset < data_head[other] /\ x = data_mmap[other][offset]
    BY <1>6
  <2>2. x = data_mmap'[other][offset] /\ offset < data_head'[other]
    <3>1. CASE other = e  BY <1>1, <1>2, <1>3, <1>5, <2>1, <3>1
    <3>2. CASE other # e  BY <1>1, <1>4, <2>1, <3>2
    <3> QED  BY <3>1, <3>2
  <2> QED  BY <1>6, <1>7, <2>1, <2>2
<1>9. s \in InBuffers'
  <2>1. data_tail[e] <= p /\ p < data_head'[e] /\ s = data_mmap'[e][p]
    BY <1>1, <1>2, <1>3, <1>5
  <2> QED  BY <1>2, <1>7, <2>1
<1>10. ASSUME NEW x \in InBuffers', x # s
       PROVE  x \in InBuffers
  <2>1. PICK other \in Events, offset \in Offsets :
          data_tail[other] <= offset /\ offset < data_head'[other] /\ x = data_mmap'[other][offset]
    BY <1>7, <1>10
  <2>2. x \in Samples  BY <1>7, <1>10
  <2>3. CASE other # e  BY <1>1, <1>4, <1>6, <2>1, <2>2, <2>3
  <2>4. CASE other = e /\ offset < h  BY <1>1, <1>6, <2>1, <2>2, <2>4
  <2>5. CASE other = e /\ offset >= h
    <3>1. x.size # 0  BY <1>2, <2>2, HeaderKinds
    <3>2. offset \in {h, p}  BY <1>1, <1>3, <2>1, <2>5, <3>1
    <3>3. offset = h /\ offset # p  BY <1>1, <1>10, <2>1, <2>5, <3>2
    <3>4. x = Lost(e, h)  BY <1>1, <2>1, <2>5, <3>3
    <3>5. x.type = "lost"  BY <3>4 DEF Lost
    <3> QED  BY <1>2, <2>2, <3>5, HeaderKinds
  <2>6. offset < h \/ offset >= h  BY <1>3
  <2> HIDE DEF h
  <2> QED  BY <2>3, <2>4, <2>5, <2>6
<1>11. InBuffers' = InBuffers \cup {s}  BY <1>8, <1>9, <1>10
<1> QED  BY <1>2, <1>11
-----------------------------------------------------------------------------
(***************************************************************************)
(* The loop that reads a buffer.                                           *)
(***************************************************************************)

\* One turn takes the header at data_tail and leaves the rest: data_tail goes to
\* the next header or to data_head, and skips nothing.
LEMMA ReadTakesOne ==
  ASSUME TypeOK, NEW e \in Events, BufferOK(e), ReadRecord(e)
  PROVE  LET tail == data_tail[e] IN
         /\ tail \in Offsets /\ tail < data_head[e]
         /\ HeaderAt(e) = data_mmap[e][tail]
         /\ HeaderAt(e) \in Headers
         /\ HeaderAt(e).event = e /\ HeaderAt(e).pos = tail
         /\ data_tail' = [data_tail EXCEPT ![e] = tail + HeaderAt(e).size]
         /\ data_tail'[e] \in Nat /\ tail < data_tail'[e] /\ data_tail'[e] <= data_head[e]
         /\ data_tail'[e] = data_head[e] \/ Written(e, tail + HeaderAt(e).size)
         /\ \A inside \in Offsets :
              tail < inside /\ inside < data_tail'[e] => ~Written(e, inside)
<1> DEFINE tail == data_tail[e]
           h == HeaderAt(e)
<1>1. tail \in Nat /\ data_head[e] \in Nat /\ tail <= data_head[e] /\ tail # data_head[e]
      /\ data_head[e] < BufSize
  BY DEF TypeOK, BufferOK, ReadRecord
<1>2. tail \in Offsets /\ tail < data_head[e]  BY <1>1, SizesAssumption DEF Offsets
<1>3. h = data_mmap[e][tail]  BY <1>2, WrapInside DEF HeaderAt
<1>4. h \in Headers  BY <1>2, <1>3 DEF TypeOK
<1>5. h.size \in Nat \ {0}  BY <1>4, HeaderKinds DEF ReadRecord
<1>6. Written(e, tail)  BY <1>3, <1>5 DEF Written
<1>7. /\ h.event = e /\ h.pos = tail
      /\ tail + h.size <= data_head[e]
      /\ tail + h.size = data_head[e] \/ Written(e, tail + h.size)
      /\ \A inside \in Offsets : tail < inside /\ inside < tail + h.size => ~Written(e, inside)
  BY <1>2, <1>3, <1>6 DEF BufferOK
<1> HIDE DEF h, tail
<1>8. tail + h.size \in Offsets  BY <1>1, <1>5, <1>7, SizesAssumption DEF Offsets
<1>9. TailAfter(e) = tail + h.size
  BY <1>2, <1>8, WrapInside DEF TailAfter, tail, h
<1>10. data_tail' = [data_tail EXCEPT ![e] = tail + h.size]
  BY <1>9 DEF ReadRecord
<1>11. data_tail'[e] = tail + h.size  BY <1>10 DEF TypeOK
<1>12. data_tail'[e] \in Nat /\ tail < data_tail'[e] /\ data_tail'[e] <= data_head[e]
  BY <1>1, <1>5, <1>7, <1>11
<1> QED  BY <1>2, <1>3, <1>4, <1>7, <1>10, <1>11, <1>12 DEF h, tail

\* What has been copied and what is left are together what there was.
LEMMA ReadKeepsAll ==
  ASSUME Inv, NEW e \in Events, ReadRecord(e)
  PROVE  /\ InBuffers' \cup Copied' = InBuffers \cup Copied
         /\ records' \in Seq(Samples)
<1> DEFINE tail == data_tail[e]
           h == HeaderAt(e)
<1>1. TypeOK /\ (\A other \in Events : BufferOK(other)) /\ done = {}
  BY DEF Inv, PhaseOK, ReadRecord
<1>2. /\ tail \in Offsets /\ tail < data_head[e]
      /\ h = data_mmap[e][tail] /\ h \in Headers
      /\ data_tail' = [data_tail EXCEPT ![e] = data_tail'[e]]
      /\ data_tail'[e] \in Nat /\ tail < data_tail'[e] /\ data_tail'[e] <= data_head[e]
      /\ \A inside \in Offsets : tail < inside /\ inside < data_tail'[e] => ~Written(e, inside)
  <2>1. /\ tail \in Offsets /\ tail < data_head[e]
        /\ h = data_mmap[e][tail] /\ h \in Headers
        /\ data_tail' = [data_tail EXCEPT ![e] = tail + h.size]
        /\ data_tail'[e] \in Nat /\ tail < data_tail'[e] /\ data_tail'[e] <= data_head[e]
        /\ \A inside \in Offsets : tail < inside /\ inside < data_tail'[e] => ~Written(e, inside)
    BY <1>1, ReadTakesOne
  <2>2. data_tail'[e] = tail + h.size  BY <1>1, <2>1 DEF TypeOK
  <2> QED  BY <2>1, <2>2
<1>3. UNCHANGED <<data_mmap, data_head, done>>  BY DEF ReadRecord
<1>4. \A other \in Events \ {e} : data_tail'[other] = data_tail[other]  BY <1>1, <1>2 DEF TypeOK
<1>5. \A x : x \in InBuffers <=>
        /\ x \in Samples
        /\ \E other \in Events, offset \in Offsets :
             data_tail[other] <= offset /\ offset < data_head[other] /\ x = data_mmap[other][offset]
  BY <1>1, InBuffersAre
<1>6. \A x : x \in InBuffers' <=>
        /\ x \in Samples
        /\ \E other \in Events, offset \in Offsets :
             data_tail'[other] <= offset /\ offset < data_head[other] /\ x = data_mmap[other][offset]
  <2>1. \A other \in Events : data_tail'[other] \in Nat /\ data_head[other] \in Nat
                             /\ data_head[other] < BufSize
    BY <1>1, <1>2, <1>4 DEF TypeOK, BufferOK
  <2>2. \A other \in Events : \A offset :
          offset \in data_tail'[other]..data_head[other] - 1 <=>
            offset \in Offsets /\ data_tail'[other] <= offset /\ offset < data_head[other]
    BY <2>1, SizesAssumption DEF Offsets
  <2> QED  BY <1>3, <2>2 DEF InBuffers, Unread
<1>7. \A offset \in Offsets : offset \in Nat /\ tail \in Nat /\ data_head[e] \in Nat
  BY <1>1, SizesAssumption DEF Offsets, TypeOK
<1>8. ASSUME NEW x \in InBuffers'
      PROVE  x \in InBuffers
  <2>1. PICK other \in Events, offset \in Offsets :
          data_tail'[other] <= offset /\ offset < data_head[other] /\ x = data_mmap[other][offset]
    BY <1>6, <1>8
  <2>2. data_tail[other] <= offset
    <3>1. CASE other = e  BY <1>2, <1>7, <2>1, <3>1
    <3>2. CASE other # e  BY <1>4, <2>1, <3>2
    <3> QED  BY <3>1, <3>2
  <2> QED  BY <1>5, <1>6, <1>8, <2>1, <2>2
<1>9. ASSUME NEW x \in InBuffers, x # h
      PROVE  x \in InBuffers'
  <2>1. PICK other \in Events, offset \in Offsets :
          data_tail[other] <= offset /\ offset < data_head[other] /\ x = data_mmap[other][offset]
    BY <1>5, <1>9
  <2>2. x \in Samples  BY <1>5, <1>9
  <2>3. x.size # 0
    <3>1. x \in Headers  BY <1>1, <2>1 DEF TypeOK
    <3> QED  BY <2>2, <3>1, HeaderKinds
  <2>4. data_tail'[other] <= offset
    <3>1. CASE other = e
      <4>1. Written(e, offset) /\ offset # tail  BY <1>2, <1>9, <2>1, <2>3, <3>1 DEF Written
      <4> QED  BY <1>2, <1>7, <2>1, <3>1, <4>1
    <3>2. CASE other # e  BY <1>4, <2>1, <3>2
    <3> QED  BY <3>1, <3>2
  <2> QED  BY <1>6, <2>1, <2>2, <2>4
<1>10. h \in Samples => h \in InBuffers
  BY <1>1, <1>2, <1>5, <1>7 DEF TypeOK
<1>11. h \in Samples <=> h.type = "sample"  BY <1>2, HeaderKinds
<1> HIDE DEF h, tail
<1>12. records \in Seq(Samples)  BY <1>1 DEF TypeOK
<1>13. Copied = {records[i] : i \in DOMAIN records}  BY <1>1 DEF Copied
<1>14. Copied' = {records'[i] : i \in DOMAIN records'}  BY <1>1, <1>3 DEF Copied
<1>15. CASE h \in Samples
  <2>1. records' = Append(records, h)  BY <1>11, <1>15 DEF ReadRecord, h
  <2>2. /\ records' \in Seq(Samples)
        /\ DOMAIN records' = DOMAIN records \cup {Len(records) + 1}
        /\ records'[Len(records) + 1] = h
        /\ \A i \in DOMAIN records : records'[i] = records[i]
    BY <1>12, <1>15, <2>1
  <2>3. Copied' = Copied \cup {h}  BY <1>13, <1>14, <2>2
  <2>4. InBuffers \cup {h} = InBuffers' \cup {h}  BY <1>8, <1>9
  <2>5. h \in InBuffers  BY <1>10, <1>15
  <2> QED  BY <2>2, <2>3, <2>4, <2>5
<1>16. CASE h \notin Samples
  <2>1. records' = records  BY <1>11, <1>16 DEF ReadRecord, h
  <2>2. h \notin InBuffers  BY <1>5, <1>16
  <2>3. InBuffers' = InBuffers  BY <1>8, <1>9, <2>2
  <2> QED  BY <1>12, <1>13, <1>14, <2>1, <2>3
<1> QED  BY <1>15, <1>16

\* The new copy is of a record that had not been read.
LEMMA ReadKeepsInv ==
  ASSUME Inv, NEW e \in Events, ReadRecord(e)
  PROVE  Inv'
<1> DEFINE tail == data_tail[e]
           h == HeaderAt(e)
<1>1. TypeOK /\ (\A other \in Events : BufferOK(other)) /\ PhaseOK /\ CopiesOK
  BY DEF Inv
<1>2. /\ phase = "draining" /\ at = e
      /\ UNCHANGED <<phase, at, fd, data_mmap, data_head, lost, done, handed>>
  BY DEF ReadRecord
<1>3. /\ tail \in Nat /\ tail < data_tail'[e]
      /\ h \in Headers /\ h.event = e /\ h.pos = tail
      /\ data_tail'[e] \in Nat /\ data_tail'[e] <= data_head[e]
      /\ data_tail'[e] = data_head[e] \/ Written(e, data_tail'[e])
      /\ \A other \in Events \ {e} : data_tail'[other] = data_tail[other]
      /\ data_tail' \in [Events -> Nat]
  <2>1. /\ data_tail' = [data_tail EXCEPT ![e] = tail + h.size]
        /\ h \in Headers /\ h.event = e /\ h.pos = tail
        /\ tail < data_tail'[e]
        /\ data_tail'[e] \in Nat /\ data_tail'[e] <= data_head[e]
        /\ data_tail'[e] = data_head[e] \/ Written(e, tail + h.size)
    BY <1>1, ReadTakesOne
  <2> HIDE DEF h
  <2>2. data_tail'[e] = tail + h.size /\ tail \in Nat  BY <1>1, <2>1 DEF TypeOK
  <2>3. data_tail' \in [Events -> Nat]
        /\ \A other \in Events \ {e} : data_tail'[other] = data_tail[other]
    BY <1>1, <2>1, <2>2 DEF TypeOK
  <2> QED  BY <2>1, <2>2, <2>3
<1> HIDE DEF h, tail
<1>4. \/ records' = records
      \/ h \in Samples /\ records' = Append(records, h)
  BY <1>3, HeaderKinds DEF ReadRecord, h
<1>5. records \in Seq(Samples)  BY <1>1 DEF TypeOK
<1>6. done = {}  BY <1>1, <1>2 DEF PhaseOK
<1>7. TypeOK'
  <2>1. records' \in Seq(Samples)
    <3>1. CASE records' = records  BY <1>5, <3>1
    <3>2. CASE h \in Samples /\ records' = Append(records, h)  BY <1>5, <3>2
    <3> QED  BY <1>4, <3>1, <3>2
  <2>2. done' \subseteq DOMAIN records'  BY <1>2, <1>6
  <2> QED  BY <1>1, <1>2, <1>3, <2>1, <2>2 DEF TypeOK
<1>8. ASSUME NEW other \in Events
      PROVE  BufferOK(other)'
  <2>1. \A offset : Written(other, offset)' <=> Written(other, offset)  BY <1>2 DEF Written
  <2>2. data_tail'[other] <= data_head[other]  BY <1>1, <1>3 DEF BufferOK
  <2>3. data_tail'[other] = data_head[other] \/ data_mmap[other][data_tail'[other]].size # 0
    BY <1>1, <1>3 DEF BufferOK, Written
  <2> QED  BY <1>1, <1>2, <2>2, <2>3 DEF BufferOK, Written
<1>9. PhaseOK'
  <2>1. \A other \in Events : other < at => other # e  BY <1>2, SizesAssumption DEF Events
  <2> QED  BY <1>1, <1>2, <1>3, <2>1 DEF PhaseOK
<1>10. \A r \in Samples : r.event \in Events /\ r.pos \in Nat
  BY SizesAssumption DEF Samples, Sample, Offsets
<1>11. \A i \in DOMAIN records : records[i] \in Samples  BY <1>5
<1>12. \A i \in DOMAIN records : records[i].pos < data_tail'[records[i].event]
  <2> SUFFICES ASSUME NEW i \in DOMAIN records
               PROVE  records[i].pos < data_tail'[records[i].event]
    OBVIOUS
  <2>1. records[i].pos < data_tail[records[i].event] /\ records[i].event \in Events
        /\ records[i].pos \in Nat
    BY <1>1, <1>10, <1>11 DEF CopiesOK
  <2>2. CASE records[i].event = e  BY <1>3, <2>1, <2>2 DEF tail
  <2>3. CASE records[i].event # e  BY <1>3, <2>1, <2>3
  <2> QED  BY <2>2, <2>3
<1>13. \A i \in DOMAIN records : records[i] # h
  <2> SUFFICES ASSUME NEW i \in DOMAIN records, records[i] = h PROVE FALSE  OBVIOUS
  <2>1. records[i].pos < data_tail[e] /\ records[i].pos = tail  BY <1>1, <1>3 DEF CopiesOK
  <2> QED  BY <1>3, <2>1 DEF tail
<1>14. CopiesOK'
  <2>1. CASE records' = records  BY <1>1, <1>12, <2>1 DEF CopiesOK
  <2>2. CASE h \in Samples /\ records' = Append(records, h)
    <3>1. /\ DOMAIN records' = DOMAIN records \cup {Len(records) + 1}
          /\ Len(records) + 1 \notin DOMAIN records
          /\ records'[Len(records) + 1] = h
          /\ \A i \in DOMAIN records : records'[i] = records[i]
      BY <1>5, <2>2
    <3> QED  BY <1>1, <1>3, <1>12, <1>13, <3>1 DEF CopiesOK
  <2> QED  BY <1>4, <2>1, <2>2
<1> QED  BY <1>7, <1>8, <1>9, <1>14 DEF Inv
-----------------------------------------------------------------------------
(***************************************************************************)
(* The invariant.                                                          *)
(***************************************************************************)

\* The kernel records only while nothing has been read.
LEMMA KernelFindsUnread ==
  ASSUME Inv, NEW e \in Events, fd[e] = "enabled", phase # "exited"
  PROVE  /\ phase \in {"starting", "measuring", "stopping"}
         /\ data_tail[e] = 0 /\ records = <<>> /\ done = {} /\ handed = <<>>
BY DEF Inv, PhaseOK

\* What the kernel drops or commits.
LEMMA KernelKeepsInv ==
  ASSUME Inv, NEW e \in Events, NEW size \in SampleSizes, NEW time \in Stamps,
         KernelRecords(e, size, time)
  PROVE  Inv'
<1>1. TypeOK /\ (\A other \in Events : BufferOK(other)) /\ PhaseOK /\ CopiesOK
  BY DEF Inv
<1>2. /\ fd[e] = "enabled" /\ UNCHANGED <<phase, at, fd, copyVars>> /\ phase # "exited"
      /\ Commit(e, size, time) \/ Drop(e, size)
  BY DEF KernelRecords
<1>3. phase \in {"starting", "measuring", "stopping"} /\ data_tail[e] = 0
  BY <1>2, KernelFindsUnread
<1>4. UNCHANGED data_tail  BY <1>2 DEF Commit, Drop
<1>5. CASE Drop(e, size)
  BY <1>1, <1>2, <1>5
  DEF Drop, Inv, TypeOK, BufferOK, Written, PhaseOK, CopiesOK, copyVars
<1>6. CASE Commit(e, size, time)
  <2>1. PICK p \in Offsets :
          /\ data_head' = [data_head EXCEPT ![e] = p + size]
          /\ \A other \in Events \ {e} : data_mmap'[other] = data_mmap[other]
          /\ data_mmap' \in [Events -> [Offsets -> Headers]]
    BY <1>1, <1>3, <1>6, CommitAppends
  <2>2. p \in Nat /\ size \in Nat  BY <2>1, SizesAssumption DEF Offsets
  <2>3. data_head' \in [Events -> Nat] /\ lost' \in [Events -> BOOLEAN]
    BY <1>1, <1>6, <2>1, <2>2 DEF TypeOK, Commit
  <2>4. TypeOK'  BY <1>1, <1>2, <1>4, <2>1, <2>3 DEF TypeOK, copyVars
  <2>5. BufferOK(e)'  BY <1>1, <1>2, <1>3, <1>4, <1>6, CommitKeepsBuffer
  <2>6. ASSUME NEW other \in Events \ {e}
        PROVE  BufferOK(other)'
    <3>1. data_mmap'[other] = data_mmap[other] /\ data_head'[other] = data_head[other]
      BY <1>1, <2>1 DEF TypeOK
    <3> QED  BY <1>1, <1>2, <1>4, <3>1 DEF BufferOK, Written
  <2>7. PhaseOK' /\ CopiesOK'
    BY <1>1, <1>2, <1>3, <1>4 DEF PhaseOK, CopiesOK, copyVars
  <2> QED  BY <2>4, <2>5, <2>6, <2>7 DEF Inv
<1> QED  BY <1>2, <1>5, <1>6

\* A turn of a loop over the events goes on with the next, or with the next phase.
LEMMA TurnIs ==
  ASSUME NEW e \in Events, NEW now, NEW after, Turn(e, now, after)
  PROVE  /\ phase = now /\ at = e
         /\ \/ e = NEvents /\ at' = 1 /\ phase' = after
            \/ e # NEvents /\ at' = e + 1 /\ e + 1 \in Events /\ phase' = now
         /\ e \in Nat /\ 1 \in Events /\ at' \in Events
         /\ \A other \in Events : other \in Nat /\ other <= NEvents
BY SizesAssumption DEF Turn, IsLast, Events

\* A mapping that is still zero, or zero again, is in order.
LEMMA FreshBufferOK ==
  ASSUME NEW e \in Events,
         data_mmap'[e] = [offset \in Offsets |-> Zero(e)], data_head'[e] = 0, data_tail'[e] = 0
  PROVE  BufferOK(e)'
<1>1. \A offset \in Offsets : data_mmap'[e][offset].size = 0 /\ data_mmap'[e][offset].event = e
  BY DEF Zero
<1>2. 0 < BufSize  BY SizesAssumption
<1> QED  BY <1>1, <1>2 DEF BufferOK, Written

\* The actions that change neither a buffer nor the copies.
LEMMA PhaseChangesKeepInv ==
  ASSUME Inv, Start \/ OpenFails \/ Stop \/ Process \/ HandedOver
  PROVE  Inv'
<1>1. TypeOK /\ (\A e \in Events : BufferOK(e)) /\ PhaseOK /\ CopiesOK
  BY DEF Inv
<1>2. UNCHANGED <<ringVars, records, done, at>> /\ handed' \in {handed, <<>>} /\ phase' \in Phases
  BY DEF Start, OpenFails, Stop, Process, HandedOver, Enter, copyVars, Phases
<1>3. handed' \in Seq(Samples)
  <2>1. handed \in Seq(Samples) /\ << >> \in Seq(Samples)  BY <1>1 DEF TypeOK
  <2>2. handed' = handed \/ handed' = << >>  BY <1>2
  <2> QED  BY <2>1, <2>2
<1>4. TypeOK'  BY <1>1, <1>2, <1>3 DEF TypeOK, ringVars
<1>5. (\A e \in Events : BufferOK(e)') /\ CopiesOK'
  BY <1>1, <1>2 DEF BufferOK, Written, CopiesOK, ringVars
<1>6. \A e \in Events : e \in Nat /\ 1 <= e  BY SizesAssumption DEF Events
<1>7. PhaseOK'
  <2>1. CASE Start  BY <1>1, <1>2, <2>1 DEF Start, Enter, PhaseOK, ringVars
  <2>2. CASE OpenFails  BY <1>1, <1>2, <2>2 DEF OpenFails, Enter, PhaseOK, ringVars, copyVars
  <2>3. CASE Stop  BY <1>1, <1>2, <1>6, <2>3 DEF Stop, Enter, PhaseOK, ringVars, copyVars
  <2>4. CASE Process
    <3>1. \A e \in Events : ~(e < 1)  BY <1>6
    <3> QED  BY <1>1, <1>2, <2>4, <3>1 DEF Process, Enter, PhaseOK, ringVars, copyVars
  <2>5. CASE HandedOver  BY <1>1, <1>2, <2>5 DEF HandedOver, Enter, PhaseOK, ringVars, copyVars
  <2> QED  BY <2>1, <2>2, <2>3, <2>4, <2>5
<1> QED  BY <1>4, <1>5, <1>7 DEF Inv

\* Mapping a buffer.
LEMMA CreateKeepsInv ==
  ASSUME Inv, NEW e \in Events, NEW outcome \in {"closed", "disabled", "enabled"},
         CreatePerfEvent(e, outcome)
  PROVE  Inv'
<1>1. TypeOK /\ (\A other \in Events : BufferOK(other)) /\ PhaseOK /\ CopiesOK
  BY DEF Inv
<1>2. /\ phase = "starting" /\ at = e
      /\ \/ e = NEvents /\ at' = 1 /\ phase' = "measuring"
         \/ e # NEvents /\ at' = e + 1 /\ phase' = "starting"
      /\ e \in Nat /\ at' \in Events
      /\ \A other \in Events : other \in Nat /\ other <= NEvents
  BY TurnIs DEF CreatePerfEvent
<1>3. /\ fd' = [fd EXCEPT ![e] = outcome]
      /\ data_mmap' = [data_mmap EXCEPT ![e] = [offset \in Offsets |-> Zero(e)]]
      /\ data_head' = [data_head EXCEPT ![e] = 0]
      /\ data_tail' = [data_tail EXCEPT ![e] = 0]
      /\ lost' = [lost EXCEPT ![e] = FALSE]
      /\ UNCHANGED <<records, done, handed>>
  BY DEF CreatePerfEvent, FreshBuffer, copyVars
<1>4. Zero(e) \in Headers  BY DEF Headers
<1>5. phase' \in Phases  BY <1>2 DEF Phases
<1>6. TypeOK'  BY <1>1, <1>2, <1>3, <1>4, <1>5 DEF TypeOK
<1>7. BufferOK(e)'  BY <1>1, <1>3, FreshBufferOK DEF TypeOK
<1>8. ASSUME NEW other \in Events \ {e}
      PROVE  BufferOK(other)'
  <2>1. /\ data_mmap'[other] = data_mmap[other] /\ data_head'[other] = data_head[other]
        /\ data_tail'[other] = data_tail[other] /\ fd'[other] = fd[other]
    BY <1>1, <1>3 DEF TypeOK
  <2> QED  BY <1>1, <2>1 DEF BufferOK, Written
<1>9. PhaseOK'
  <2>1. \A other \in Events : data_tail'[other] = 0  BY <1>1, <1>2, <1>3 DEF PhaseOK, TypeOK
  <2>2. \A other \in Events : other # e => fd'[other] = fd[other]  BY <1>1, <1>3 DEF TypeOK
  <2>3. \A other \in Events : other >= e /\ other # e => fd'[other] = "closed"
    BY <1>1, <1>2, <2>2 DEF PhaseOK
  <2>4. phase' = "starting" => \A other \in Events : other >= at' => fd'[other] = "closed"
    BY <1>2, <2>3
  <2>5. records = <<>> /\ done = {} /\ handed = <<>>  BY <1>1, <1>2 DEF PhaseOK
  <2> QED  BY <1>2, <1>3, <2>1, <2>4, <2>5 DEF PhaseOK
<1>10. CopiesOK'
  <2>1. records' = <<>>  BY <1>1, <1>2, <1>3 DEF PhaseOK
  <2> QED  BY <2>1 DEF CopiesOK
<1> QED  BY <1>6, <1>7, <1>8, <1>9, <1>10 DEF Inv

\* Disabling an event.
LEMMA StopEventKeepsInv ==
  ASSUME Inv, NEW e \in Events, StopEvent(e)
  PROVE  Inv'
<1>1. TypeOK /\ (\A other \in Events : BufferOK(other)) /\ PhaseOK /\ CopiesOK
  BY DEF Inv
<1>2. /\ phase = "stopping" /\ at = e
      /\ \/ e = NEvents /\ at' = 1 /\ phase' = "stopped"
         \/ e # NEvents /\ at' = e + 1 /\ phase' = "stopping"
      /\ e \in Nat /\ at' \in Events
      /\ \A other \in Events : other \in Nat /\ other <= NEvents
  BY TurnIs DEF StopEvent
<1>3. /\ fd' = Stopped(e)
      /\ UNCHANGED <<data_mmap, data_head, data_tail, lost, records, done, handed>>
  BY DEF StopEvent, copyVars
<1>4. /\ fd' \in [Events -> {"closed", "disabled", "enabled"}]
      /\ fd'[e] # "enabled"
      /\ \A other \in Events : other # e => fd'[other] = fd[other]
      /\ \A other \in Events : fd'[other] = "closed" => fd[other] = "closed"
  BY <1>1, <1>3 DEF Stopped, TypeOK
<1>5. phase' \in Phases  BY <1>2 DEF Phases
<1>6. TypeOK'  BY <1>1, <1>2, <1>3, <1>4, <1>5 DEF TypeOK
<1>7. ASSUME NEW other \in Events
      PROVE  BufferOK(other)'
  BY <1>1, <1>3, <1>4 DEF BufferOK, Written
<1>8. PhaseOK'
  <2>1. \A other \in Events : fd'[other] = "enabled" => e < other
    BY <1>1, <1>2, <1>4 DEF PhaseOK
  <2>2. \A other \in Events : fd'[other] = "enabled" => phase' = "stopping" /\ at' <= other
    BY <1>2, <2>1
  <2> QED  BY <1>1, <1>2, <1>3, <2>2 DEF PhaseOK
<1>9. CopiesOK'  BY <1>1, <1>3 DEF CopiesOK
<1> QED  BY <1>6, <1>7, <1>8, <1>9 DEF Inv

\* The end of a buffer's loop moves nothing: data_tail is at data_head by then.
LEMMA BufferDoneMovesNothing ==
  ASSUME Inv, NEW e \in Events, BufferDone(e)
  PROVE  data_tail' = data_tail /\ data_tail[e] = data_head[e]
<1>1. TypeOK /\ BufferOK(e) /\ phase = "draining" /\ at = e /\ PhaseOK
  BY TurnIs DEF Inv, BufferDone
<1>2. CASE fd[e] = "closed" /\ UNCHANGED data_tail
  <2>1. data_tail[e] \in Nat /\ data_tail[e] <= 0 /\ data_head[e] = 0
    BY <1>1, <1>2 DEF TypeOK, BufferOK
  <2> QED  BY <1>2, <2>1
<1>3. CASE /\ data_tail[e] = data_head[e] \/ HeaderAt(e).size = 0
           /\ data_tail' = [data_tail EXCEPT ![e] = data_head[e]]
  <2>1. data_tail[e] \in Offsets
    BY <1>1, SizesAssumption DEF TypeOK, BufferOK, Offsets
  <2>2. HeaderAt(e) = data_mmap[e][data_tail[e]]  BY <2>1, WrapInside DEF HeaderAt
  <2>3. data_tail[e] = data_head[e]  BY <1>1, <1>3, <2>2 DEF BufferOK, Written
  <2> QED  BY <1>1, <1>3, <2>3 DEF TypeOK
<1> QED  BY <1>2, <1>3 DEF BufferDone

LEMMA BufferDoneKeepsInv ==
  ASSUME Inv, NEW e \in Events, BufferDone(e)
  PROVE  Inv'
<1>1. TypeOK /\ (\A other \in Events : BufferOK(other)) /\ PhaseOK /\ CopiesOK
  BY DEF Inv
<1>2. /\ phase = "draining" /\ at = e
      /\ \/ e = NEvents /\ at' = 1 /\ phase' = "handing"
         \/ e # NEvents /\ at' = e + 1 /\ phase' = "draining"
      /\ e \in Nat /\ at' \in Events
      /\ \A other \in Events : other \in Nat /\ other <= NEvents
  BY TurnIs DEF BufferDone
<1>3. /\ UNCHANGED <<fd, data_mmap, data_head, lost, records, done, handed>>
      /\ data_tail' = data_tail /\ data_tail[e] = data_head[e]
  BY BufferDoneMovesNothing DEF BufferDone, copyVars
<1>4. phase' \in Phases  BY <1>2 DEF Phases
<1>5. TypeOK'  BY <1>1, <1>2, <1>3, <1>4 DEF TypeOK
<1>6. ASSUME NEW other \in Events
      PROVE  BufferOK(other)'
  BY <1>1, <1>3 DEF BufferOK, Written
<1>7. PhaseOK'
  <2>1. \A other \in Events : other <= e => data_tail[other] = data_head[other]
    BY <1>1, <1>2, <1>3 DEF PhaseOK
  <2>2. phase' = "draining" => \A other \in Events : other < at' => data_tail[other] = data_head[other]
    BY <1>2, <2>1
  <2>3. phase' = "handing" => \A other \in Events : data_tail[other] = data_head[other]
    BY <1>2, <2>1
  <2> QED  BY <1>1, <1>2, <1>3, <2>2, <2>3 DEF PhaseOK
<1>8. CopiesOK'  BY <1>1, <1>3 DEF CopiesOK
<1> QED  BY <1>5, <1>6, <1>7, <1>8 DEF Inv

\* Handing a copy over.
LEMMA HandOverKeepsInv ==
  ASSUME Inv, NEW i \in DOMAIN records, HandOver(i)
  PROVE  Inv'
<1>1. TypeOK /\ (\A other \in Events : BufferOK(other)) /\ PhaseOK /\ CopiesOK
  BY DEF Inv
<1>2. /\ phase = "handing" /\ i \in DOMAIN records
      /\ done' = done \cup {i} /\ handed' = Append(handed, records[i])
      /\ UNCHANGED <<phase, at, fd, data_mmap, data_head, data_tail, lost, records>>
  BY DEF HandOver, ringVars
<1>3. handed' \in Seq(Samples)
  <2>1. records[i] \in Samples /\ handed \in Seq(Samples)  BY <1>1, <1>2 DEF TypeOK
  <2> QED  BY <1>2, <2>1
<1>4. TypeOK'  BY <1>1, <1>2, <1>3 DEF TypeOK
<1>5. (\A other \in Events : BufferOK(other)') /\ CopiesOK'
  BY <1>1, <1>2 DEF BufferOK, Written, CopiesOK
<1>6. PhaseOK'  BY <1>1, <1>2 DEF PhaseOK
<1> QED  BY <1>4, <1>5, <1>6 DEF Inv

\* Unmapping all.
LEMMA ClearKeepsInv ==
  ASSUME Inv, Clear \/ Release
  PROVE  Inv'
<1>1. TypeOK /\ PhaseOK  BY DEF Inv
<1>2. /\ fd' = [e \in Events |-> "closed"]
      /\ data_mmap' = [e \in Events |-> [offset \in Offsets |-> Zero(e)]]
      /\ data_head' = [e \in Events |-> 0]
      /\ data_tail' = [e \in Events |-> 0]
      /\ lost' = [e \in Events |-> FALSE]
      /\ records' = <<>> /\ done' = {} /\ handed' = handed
      /\ phase' \in {"idle", "exited"} /\ at' = at /\ at = 1
  BY <1>1 DEF Clear, Release, ClearAll, Enter, PhaseOK
<1>3. \A e \in Events : Zero(e) \in Headers  BY DEF Headers
<1>4. phase' \in Phases  BY <1>2 DEF Phases
<1>5. TypeOK'  BY <1>1, <1>2, <1>3, <1>4 DEF TypeOK
<1>6. ASSUME NEW e \in Events
      PROVE  BufferOK(e)'
  BY <1>2, FreshBufferOK
<1>7. PhaseOK' /\ CopiesOK'  BY <1>2 DEF PhaseOK, CopiesOK
<1> QED  BY <1>5, <1>6, <1>7 DEF Inv

LEMMA InitHasInv == Init => Inv
<1> SUFFICES ASSUME Init PROVE Inv  OBVIOUS
<1>1. /\ phase = "idle" /\ at = 1 /\ 1 \in Events
      /\ \A e \in Events : Zero(e) \in Headers
      /\ 0 < BufSize
  BY SizesAssumption DEF Init, Events, Headers
<1>2. TypeOK  BY <1>1 DEF Init, TypeOK, Phases
<1>3. \A e \in Events, offset \in Offsets : data_mmap[e][offset].size = 0 /\ data_mmap[e][offset].event = e
  BY DEF Init, Zero
<1>4. \A e \in Events : BufferOK(e)  BY <1>1, <1>3 DEF Init, BufferOK, Written
<1>5. PhaseOK /\ CopiesOK  BY <1>1 DEF Init, PhaseOK, CopiesOK
<1> QED  BY <1>2, <1>4, <1>5 DEF Inv

LEMMA NextKeepsInv == Inv /\ [Next]_vars => Inv'
<1> SUFFICES ASSUME Inv, [Next]_vars PROVE Inv'  OBVIOUS
<1>1. CASE Start \/ OpenFails \/ Stop \/ Process  BY <1>1, PhaseChangesKeepInv
<1>2. CASE \E e \in Events, outcome \in {"closed", "disabled", "enabled"} : CreatePerfEvent(e, outcome)
  BY <1>2, CreateKeepsInv
<1>3. CASE \E e \in Events, size \in SampleSizes, time \in Stamps : KernelRecords(e, size, time)
  BY <1>3, KernelKeepsInv
<1>4. CASE \E e \in Events : StopEvent(e)  BY <1>4, StopEventKeepsInv
<1>5. CASE Drain  BY <1>5, ReadKeepsInv, BufferDoneKeepsInv DEF Drain
<1>6. CASE Hand  BY <1>6, HandOverKeepsInv, PhaseChangesKeepInv DEF Hand
<1>7. CASE Clear \/ Release  BY <1>7, ClearKeepsInv
<1>8. CASE UNCHANGED vars
  BY <1>8 DEF vars, ringVars, copyVars, Inv, TypeOK, BufferOK, Written, PhaseOK, CopiesOK
<1> QED  BY <1>1, <1>2, <1>3, <1>4, <1>5, <1>6, <1>7, <1>8 DEF Next

LEMMA AlwaysInv == SafeSpec => []Inv
BY InitHasInv, NextKeepsInv, PTL DEF SafeSpec

\* The state of a bundle is always well formed, whatever the kernel does to the
\* buffers (perf.cpp, perf_bundle.cpp).
THEOREM TypeCorrect == Spec => []TypeOK
<1>1. Inv => TypeOK  BY DEF Inv
<1> QED  BY <1>1, AlwaysInv, PTL DEF Spec

\* No buffer ever wraps, so the loop of perf_event::process, which wraps
\* data_tail but not data_head, sees what it expects.
THEOREM NoWrap == Spec => []NeverWraps
<1>1. Inv => NeverWraps  BY DEF Inv, BufferOK, NeverWraps
<1> QED  BY <1>1, AlwaysInv, PTL DEF Spec
-----------------------------------------------------------------------------
(***************************************************************************)
(* The refinement of TraceDelivery.                                        *)
(***************************************************************************)
Collecting == phase \in {"starting", "measuring", "stopping"}

Pending == InBuffers \cup Copied

\* What is pending depends on the buffers and the copies only.
LEMMA PendingUnchanged ==
  ASSUME UNCHANGED <<data_mmap, data_head, data_tail, records, done>>
  PROVE  Pending' = Pending
BY DEF Pending, InBuffers, Unread, Copied

\* Where all tails are at their heads, nothing is left in the buffers.
LEMMA NothingLeft ==
  ASSUME Inv, \A e \in Events : data_tail[e] = data_head[e]
  PROVE  InBuffers = {}
<1>1. \A e \in Events : data_tail[e] \in Nat /\ data_head[e] \in Nat  BY DEF Inv, TypeOK
<1>2. \A e \in Events : data_tail[e]..data_head[e] - 1 = {}  BY <1>1
<1>3. \A e \in Events : Unread(e) = {}  BY <1>2 DEF Unread
<1> QED  BY <1>3 DEF InBuffers

\* An idle bundle holds nothing.
LEMMA IdleIsEmpty ==
  ASSUME Inv, phase = "idle"
  PROVE  Pending = {}
<1>1. \A e \in Events : data_tail[e] = data_head[e]
  <2> SUFFICES ASSUME NEW e \in Events PROVE data_tail[e] = data_head[e]  OBVIOUS
  <2>1. fd[e] = "closed" /\ data_tail[e] = 0  BY DEF Inv, PhaseOK
  <2>2. data_head[e] = 0  BY <2>1 DEF Inv, BufferOK
  <2> QED  BY <2>1, <2>2
<1>2. records = <<>>  BY DEF Inv, PhaseOK
<1> QED  BY <1>1, <1>2, NothingLeft DEF Pending, Copied

\* Handing a copy over takes just that record from what is pending.
LEMMA HandOverDelivers ==
  ASSUME Inv, NEW i \in DOMAIN records, HandOver(i)
  PROVE  /\ records[i] \in Samples /\ records[i] \in Pending
         /\ \A other \in Pending : records[i].time <= other.time
         /\ Pending' = Pending \ {records[i]}
         /\ handed' = Append(handed, records[i])
<1>1. /\ phase = "handing" /\ i \in DOMAIN records \ done
      /\ \A j \in DOMAIN records \ done : records[i].time <= records[j].time
      /\ done' = done \cup {i} /\ handed' = Append(handed, records[i])
      /\ UNCHANGED <<data_mmap, data_head, data_tail, records>>
  BY DEF HandOver, ringVars, SortsFirst
<1>2. InBuffers = {}  BY <1>1, NothingLeft DEF Inv, PhaseOK
<1>3. InBuffers' = {}  BY <1>1, <1>2 DEF InBuffers, Unread
<1>4. \A j \in DOMAIN records : j # i => records[j] # records[i]
  BY <1>1 DEF Inv, CopiesOK
<1>5. Copied' = Copied \ {records[i]}  BY <1>1, <1>4 DEF Copied
<1>6. records[i] \in Samples  BY <1>1 DEF Inv, TypeOK
<1> QED  BY <1>1, <1>2, <1>3, <1>5, <1>6 DEF Pending, Copied

\* Clearing drops a measurement that was not processed, or nothing.
LEMMA ClearDrops ==
  ASSUME Inv, Clear \/ Release
  PROVE  /\ ~Collecting /\ ~Collecting' /\ Pending' = {} /\ handed' = handed
         /\ handed = <<>> \/ Pending = {}
<1>1. /\ data_head' = [e \in Events |-> 0] /\ data_tail' = [e \in Events |-> 0]
      /\ records' = <<>> /\ done' = {} /\ handed' = handed
      /\ phase' \in {"idle", "exited"}
      /\ phase \in {"idle", "stopped", "processed"}
  BY DEF Clear, Release, ClearAll, Enter
<1>2. \A e \in Events : Unread(e)' = {}
  <2> SUFFICES ASSUME NEW e \in Events PROVE Unread(e)' = {}  OBVIOUS
  <2>1. data_head'[e] = 0 /\ data_tail'[e] = 0  BY <1>1
  <2>2. data_tail'[e]..data_head'[e] - 1 = {}  BY <2>1
  <2> QED  BY <2>2 DEF Unread
<1>3. InBuffers' = {}  BY <1>2 DEF InBuffers
<1>4. Pending' = {}  BY <1>1, <1>3 DEF Pending, Copied
<1>5. CASE phase = "idle"  BY <1>1, <1>4, <1>5, IdleIsEmpty DEF Collecting
<1>6. CASE phase = "stopped"  BY <1>1, <1>4, <1>6 DEF Collecting, Inv, PhaseOK
<1>7. CASE phase = "processed"
  <2>1. InBuffers = {} /\ done = DOMAIN records  BY <1>7, NothingLeft DEF Inv, PhaseOK
  <2> QED  BY <1>1, <1>4, <1>7, <2>1 DEF Collecting, Pending, Copied
<1> QED  BY <1>1, <1>5, <1>6, <1>7

\* A fresh mapping replaces an empty one.
LEMMA CreateLosesNothing ==
  ASSUME Inv, NEW e \in Events, NEW outcome, CreatePerfEvent(e, outcome)
  PROVE  Pending' = Pending
<1>1. TypeOK /\ BufferOK(e) /\ PhaseOK  BY DEF Inv
<1>2. phase = "starting" /\ at = e  BY TurnIs DEF CreatePerfEvent
<1>3. /\ data_mmap' = [data_mmap EXCEPT ![e] = [offset \in Offsets |-> Zero(e)]]
      /\ data_head' = [data_head EXCEPT ![e] = 0]
      /\ data_tail' = [data_tail EXCEPT ![e] = 0]
      /\ UNCHANGED <<records, done>>
  BY DEF CreatePerfEvent, FreshBuffer, copyVars
<1>4. e >= at  BY <1>2, SizesAssumption DEF Events
<1>5. data_head[e] = 0 /\ data_tail[e] = 0  BY <1>1, <1>2, <1>4 DEF PhaseOK, BufferOK
<1>6. Unread(e) = {}  BY <1>5 DEF Unread
<1>7. Unread(e)' = {}
  <2>1. data_head'[e] = 0 /\ data_tail'[e] = 0  BY <1>1, <1>3 DEF TypeOK
  <2> QED  BY <2>1 DEF Unread
<1>8. \A other \in Events \ {e} : Unread(other)' = Unread(other)
  <2> SUFFICES ASSUME NEW other \in Events \ {e} PROVE Unread(other)' = Unread(other)  OBVIOUS
  <2>1. /\ data_mmap'[other] = data_mmap[other] /\ data_head'[other] = data_head[other]
        /\ data_tail'[other] = data_tail[other]
    BY <1>1, <1>3 DEF TypeOK
  <2> QED  BY <2>1 DEF Unread
<1>9. InBuffers' = InBuffers
  <2>1. \A other \in Events : Unread(other)' = Unread(other)  BY <1>6, <1>7, <1>8
  <2> QED  BY <2>1 DEF InBuffers
<1> QED  BY <1>3, <1>9 DEF Pending, Copied

\* Each step of the bundle is a step of TraceDelivery or a stutter.
LEMMA StepsDeliver ==
  ASSUME Inv, [Next]_vars
  PROVE  [Delivery!Next]_(Delivery!vars)
<1>1. CASE Start
  <2>1. /\ phase = "idle" /\ phase' = "starting" /\ handed' = <<>>
        /\ UNCHANGED <<data_mmap, data_head, data_tail, records, done>>
    BY <1>1 DEF Start, Enter, ringVars
  <2>2. Pending = {} /\ Pending' = Pending  BY <2>1, IdleIsEmpty, PendingUnchanged
  <2>3. Delivery!Open  BY <2>1, <2>2 DEF Delivery!Open, Pending
  <2> QED  BY <2>3 DEF Delivery!Next
<1>2. CASE \E e \in Events, outcome \in {"closed", "disabled", "enabled"} : CreatePerfEvent(e, outcome)
  <2>1. PICK e \in Events, outcome \in {"closed", "disabled", "enabled"} : CreatePerfEvent(e, outcome)
    BY <1>2
  <2>2. Pending' = Pending  BY <2>1, CreateLosesNothing
  <2>3. phase = "starting" /\ phase' \in {"starting", "measuring"} /\ handed' = handed
    BY <2>1, TurnIs DEF CreatePerfEvent, copyVars
  <2> QED  BY <2>2, <2>3 DEF Delivery!vars, Pending
<1>3. CASE OpenFails
  <2>1. /\ phase = "starting" /\ phase' = "exited" /\ handed' = handed
        /\ UNCHANGED <<data_mmap, data_head, data_tail, records, done>>
    BY <1>3 DEF OpenFails, Enter, ringVars, copyVars
  <2>2. Pending' = Pending  BY <2>1, PendingUnchanged
  <2>3. Delivery!Close  BY <2>1, <2>2 DEF Delivery!Close, Pending
  <2> QED  BY <2>3 DEF Delivery!Next
<1>4. CASE \E e \in Events, size \in SampleSizes, time \in Stamps : KernelRecords(e, size, time)
  <2>1. PICK e \in Events, size \in SampleSizes, time \in Stamps : KernelRecords(e, size, time)
    BY <1>4
  <2>2. /\ phase \in {"starting", "measuring", "stopping"} /\ data_tail[e] = 0
        /\ UNCHANGED <<phase, records, done, handed>>
        /\ Commit(e, size, time) \/ Drop(e, size)
    BY <2>1, KernelFindsUnread DEF KernelRecords, copyVars
  <2>3. CASE Drop(e, size)
    <3>1. Pending' = Pending  BY <2>2, <2>3, PendingUnchanged DEF Drop
    <3> QED  BY <2>2, <3>1 DEF Delivery!vars, Pending
  <2>4. CASE Commit(e, size, time)
    <3>1. TypeOK /\ (\A other \in Events : BufferOK(other))  BY DEF Inv
    <3>2. fd[e] # "closed" /\ UNCHANGED <<data_tail, fd>>
      BY <2>1, <2>4 DEF KernelRecords, Commit
    <3>3. PICK s \in Samples : InBuffers' = InBuffers \cup {s}
      BY <2>2, <2>4, <3>1, <3>2, CommitCollects
    <3>4. Copied' = Copied  BY <2>2 DEF Copied
    <3>5. Delivery!Commit(s)  BY <2>2, <3>3, <3>4 DEF Delivery!Commit
    <3> QED  BY <3>5 DEF Delivery!Next
  <2> QED  BY <2>2, <2>3, <2>4
<1>5. CASE Stop \/ Process \/ HandedOver
  <2>1. /\ Collecting' = Collecting /\ handed' = handed
        /\ UNCHANGED <<data_mmap, data_head, data_tail, records, done>>
    BY <1>5 DEF Stop, Process, HandedOver, Enter, Collecting, ringVars, copyVars
  <2>2. Pending' = Pending  BY <2>1, PendingUnchanged
  <2> QED  BY <2>1, <2>2 DEF Delivery!vars, Pending, Collecting
<1>6. CASE \E e \in Events : StopEvent(e)
  <2>1. PICK e \in Events : StopEvent(e)  BY <1>6
  <2>2. /\ phase = "stopping" /\ phase' \in {"stopping", "stopped"} /\ handed' = handed
        /\ UNCHANGED <<data_mmap, data_head, data_tail, records, done>>
    BY <2>1, TurnIs DEF StopEvent, copyVars
  <2>3. Pending' = Pending  BY <2>2, PendingUnchanged
  <2>4. CASE phase' = "stopping"  BY <2>2, <2>3, <2>4 DEF Delivery!vars, Pending
  <2>5. CASE phase' = "stopped"
    <3>1. Delivery!Close  BY <2>2, <2>3, <2>5 DEF Delivery!Close, Pending
    <3> QED  BY <3>1 DEF Delivery!Next
  <2> QED  BY <2>2, <2>4, <2>5
<1>7. CASE \E e \in Events : ReadRecord(e)
  <2>1. PICK e \in Events : ReadRecord(e)  BY <1>7
  <2>2. InBuffers' \cup Copied' = InBuffers \cup Copied  BY <2>1, ReadKeepsAll
  <2>3. phase' = phase /\ handed' = handed  BY <2>1 DEF ReadRecord
  <2> QED  BY <2>2, <2>3 DEF Delivery!vars
<1>8. CASE \E e \in Events : BufferDone(e)
  <2>1. PICK e \in Events : BufferDone(e)  BY <1>8
  <2>2. /\ phase = "draining" /\ phase' \in {"draining", "handing"} /\ handed' = handed
        /\ UNCHANGED <<data_mmap, data_head, data_tail, records, done>>
    BY <2>1, TurnIs, BufferDoneMovesNothing DEF BufferDone, copyVars
  <2>3. Pending' = Pending  BY <2>2, PendingUnchanged
  <2> QED  BY <2>2, <2>3 DEF Delivery!vars, Pending
<1>9. CASE \E i \in DOMAIN records : HandOver(i)
  <2>1. PICK i \in DOMAIN records : HandOver(i)  BY <1>9
  <2>2. /\ records[i] \in Samples /\ records[i] \in Pending
        /\ \A other \in Pending : records[i].time <= other.time
        /\ Pending' = Pending \ {records[i]}
        /\ handed' = Append(handed, records[i])
    BY <2>1, HandOverDelivers
  <2>3. phase = "handing" /\ phase' = "handing"  BY <2>1 DEF HandOver
  <2>4. Delivery!Deliver(records[i])  BY <2>2, <2>3 DEF Delivery!Deliver, Pending
  <2> QED  BY <2>2, <2>4 DEF Delivery!Next
<1>10. CASE Clear \/ Release
  <2>1. /\ ~Collecting /\ ~Collecting' /\ Pending' = {} /\ handed' = handed
        /\ handed = <<>> \/ Pending = {}
    BY <1>10, ClearDrops
  <2>2. CASE handed = <<>>
    <3>1. Delivery!DropAll  BY <2>1, <2>2 DEF Delivery!DropAll, Pending, Collecting
    <3> QED  BY <3>1 DEF Delivery!Next
  <2>3. CASE Pending = {}  BY <2>1, <2>3 DEF Delivery!vars, Pending, Collecting
  <2> QED  BY <2>1, <2>2, <2>3
<1>11. CASE UNCHANGED vars
  <2>1. /\ phase' = phase /\ handed' = handed
        /\ UNCHANGED <<data_mmap, data_head, data_tail, records, done>>
    BY <1>11 DEF vars, ringVars, copyVars
  <2>2. Pending' = Pending  BY <2>1, PendingUnchanged
  <2> QED  BY <2>1, <2>2 DEF Delivery!vars, Pending
<1> QED
  BY <1>1, <1>2, <1>3, <1>4, <1>5, <1>6, <1>7, <1>8, <1>9, <1>10, <1>11 DEF Next, Drain, Hand

\* Every sample the kernel commits is handed over exactly once and in the order
\* of time, or its whole measurement is dropped (perf_bundle::process, clear).
THEOREM Refinement == Spec => DeliversAll
<1>1. Init => Delivery!Init
  <2> SUFFICES ASSUME Init PROVE Delivery!Init  OBVIOUS
  <2>1. Pending = {}  BY InitHasInv, IdleIsEmpty DEF Init
  <2> QED  BY <2>1 DEF Init, Delivery!Init, Pending
<1>2. Inv /\ [Next]_vars => [Delivery!Next]_(Delivery!vars)  BY StepsDeliver
<1> QED  BY <1>1, <1>2, AlwaysInv, PTL DEF Spec, SafeSpec, DeliversAll, Delivery!Spec
=============================================================================
