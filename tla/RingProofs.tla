----------------------------- MODULE RingProofs -----------------------------
(***************************************************************************)
(* Proofs about the shared-memory ring for every ring size, alignment,     *)
(* set of writer threads and payload sizes, with any number of stray       *)
(* stores by the application.                                              *)
(***************************************************************************)
EXTENDS Ring, FiniteSetTheorems, TLAPS

\* The offset of a position lies in the data area, and some of the area is left after it.
LEMMA OffsetInRange ==
  ASSUME NEW n \in Nat
  PROVE  Offset(n) \in Offsets /\ Capacity - Offset(n) \in 1 .. Capacity
BY CapacityAssumption DEF Offset, Offsets

\* Rounding up to the alignment never makes a length smaller.
LEMMA RoundAlignBounds ==
  ASSUME NEW n \in Nat
  PROVE  RoundAlign(n) \in Nat /\ RoundAlign(n) >= n
<1> DEFINE m == n + FrameAlign - 1
           q == m \div FrameAlign
           r == m % FrameAlign
<1>1. m \in Nat /\ FrameAlign \in Nat /\ FrameAlign > 0
  BY AlignAssumption
<1>2. q \in Nat /\ r \in 0 .. FrameAlign - 1 /\ m = FrameAlign * q + r
  BY <1>1
<1>3. RoundAlign(n) = q * FrameAlign
  BY DEF RoundAlign
<1>4. q * FrameAlign = FrameAlign * q /\ FrameAlign * q \in Nat
  BY <1>1, <1>2
<1> QED
  BY <1>1, <1>2, <1>3, <1>4

\* A frame is at least a header long, whatever its payload.
LEMMA FrameHoldsHeader ==
  ASSUME NEW p \in Nat
  PROVE  FrameLen(p) \in Nat /\ FrameLen(p) >= FrameHeader
<1>1. FrameHeader + p \in Nat /\ FrameHeader \in Nat
  BY AlignAssumption
<1> QED
  BY <1>1, RoundAlignBounds DEF FrameLen

\* Offsets are numbers.
LEMMA OffsetIsNat ==
  ASSUME NEW n \in Nat
  PROVE  Offset(n) \in Nat /\ Capacity \in Nat
BY OffsetInRange, CapacityAssumption DEF Offsets

-----------------------------------------------------------------------------
(***************************************************************************)
(* Type correctness.                                                       *)
(***************************************************************************)

\* What the bytes at a data offset can be read as is always a header record.
LEMMA HeadersAreUnits ==
  ASSUME TypeOK, NEW off \in Offsets, NEW hdr \in HeadersAt(off)
  PROVE  hdr \in UnitRecord
<1>1. Capacity + 1 \in Nat
  BY CapacityAssumption
<1> QED
  BY <1>1 DEF HeadersAt, TypeOK, UnitRecord, Unit

\* Every writer is a thread of one of the two processes.
LEMMA WritersHaveProcs == \A w \in Writers : Proc(w) \in Procs
BY DEF Proc, Procs

\* Every variable keeps its type: counters stay naturals, program counters
\* stay places of the code, and every frame is at least a header long.
THEOREM TypeCorrect == Spec => []TypeOK
<1>1. Init => TypeOK
  <2> SUFFICES ASSUME Init PROVE TypeOK
    OBVIOUS
  <2>1. FrameLen(0) \in Nat /\ FrameLen(0) >= FrameHeader
    BY FrameHoldsHeader
  <2> QED
    BY <2>1 DEF Init, TypeOK, FrameRecord, UnitRecord, Unit, Junk, NoHeader,
                Undecodable, Procs
<1>2. TypeOK /\ [Next]_vars => TypeOK'
  <2> SUFFICES ASSUME TypeOK, [Next]_vars PROVE TypeOK'
    OBVIOUS
  <2> USE DEF TypeOK, readerVars, writerVars, historyVars
  <2>1. ASSUME NEW w \in Writers, Lock(w) PROVE TypeOK'
    <3>1. PICK p \in Payloads :
            frame' = [frame EXCEPT ![w] = [id |-> attempts + 1, len |-> FrameLen(p)]]
      BY <2>1 DEF Lock
    <3>2. FrameLen(p) \in Nat /\ FrameLen(p) >= FrameHeader
      BY FrameHoldsHeader, PayloadAssumption
    <3> QED
      BY <2>1, <3>1, <3>2, WritersHaveProcs DEF Lock, FrameRecord
  <2>2. ASSUME NEW w \in Writers, WriterStep(w) PROVE TypeOK'
    <3> DEFINE off == Offset(head)
    <3>1. off \in Offsets /\ ToEnd \in Nat
      BY OffsetInRange DEF ToEnd
    <3>2. frame[w].len \in Nat /\ frame[w].id \in Nat
      BY DEF FrameRecord
    <3>3. CASE Drop(w)
      BY <3>3, WritersHaveProcs DEF Drop, Unlock
    <3>4. CASE WritePad(w)
      BY <3>4, <3>1, <3>2 DEF WritePad, Store, Unit, UnitRecord
    <3>5. CASE PublishPad(w)
      BY <3>5, <3>1 DEF PublishPad
    <3>6. CASE WriteHeader(w)
      BY <3>6, <3>2 DEF WriteHeader, HeaderStored, Unit, UnitRecord
    <3>7. CASE WriteBody(w)
      BY <3>7, <3>2 DEF WriteBody, Store, Unit, UnitRecord
    <3>8. CASE Publish(w)
      BY <3>8, <3>2, WritersHaveProcs DEF Publish, Unlock
    <3> QED
      BY <2>2, <3>3, <3>4, <3>5, <3>6, <3>7, <3>8 DEF WriterStep
  <2>3. CASE Fork
    BY <2>3 DEF Fork, AtforkChild, Procs
  <2>4. CASE Kill
    BY <2>4 DEF Kill
  <2>5. ASSUME NEW u \in Offsets, Corrupt(u) PROVE TypeOK'
    BY <2>5 DEF Corrupt, Junk, Unit, UnitRecord
  <2>6. CASE Drain
    <3>1. CASE Tick
      BY <3>1 DEF Tick
    <3>2. CASE LoadHead
      BY <3>2 DEF LoadHead
    <3>3. CASE Resync
      BY <3>3 DEF Resync, ResyncTo
    <3>4. CASE ReadHeader
      BY <3>4, OffsetInRange, HeadersAreUnits DEF ReadHeader
    <3>5. CASE SkipPad
      BY <3>5 DEF SkipPad, UnitRecord
    <3>6. CASE Decode
      <4>1. rgot' \in Nat
        BY <3>6, BoundAssumption DEF Decode, Undecodable, Garbage, UnitRecord
      <4> QED
        BY <3>6, <4>1 DEF Decode
    <3>7. CASE Release
      BY <3>7 DEF Release, UnitRecord
    <3>8. CASE Report
      BY <3>8 DEF Report, Announced
    <3> QED
      BY <2>6, <3>1, <3>2, <3>3, <3>4, <3>5, <3>6, <3>7, <3>8 DEF Drain
  <2>7. CASE Cancel
    BY <2>7 DEF Cancel
  <2>8. CASE UNCHANGED vars
    BY <2>8 DEF vars
  <2> QED
    BY <2>1, <2>2, <2>3, <2>4, <2>5, <2>6, <2>7, <2>8 DEF Next
<1> QED
  BY <1>1, <1>2, PTL DEF Spec

-----------------------------------------------------------------------------
(***************************************************************************)
(* Exclusive writers, writes in free space, cursors in order.  The         *)
(* inductive invariant is SafeRegions: occupancy alone is not inductive,   *)
(* because publishing needs the space check made several steps earlier to  *)
(* be still good, which needs the lock.                                    *)
(***************************************************************************)

\* At most one writer has left "idle", and it is not the forked child.
LEMMA OneWriterActive ==
  ASSUME TypeOK, LockDiscipline, NEW v \in Writers, NEW w \in Writers,
         pc[v] # "idle", pc[w] # "idle"
  PROVE  v = w /\ v \in Threads
<1>1. v # Child /\ w # Child
  BY DEF LockDiscipline
<1>2. Proc(v) = "app" /\ Proc(w) = "app"
  BY <1>1 DEF Proc
<1> QED
  BY <1>1, <1>2 DEF LockDiscipline, Writers

\* Nobody writes at the start, and both cursors are at 0.
LEMMA RegionsInit == Init => SafeRegions
<1> SUFFICES ASSUME Init PROVE SafeRegions
  OBVIOUS
<1>1. \A w \in Writers : pc[w] = "idle"
  BY DEF Init
<1>2. Child \in Writers
  BY DEF Writers
<1> QED
  BY <1>1, <1>2, CapacityAssumption
  DEF Init, SafeRegions, LockDiscipline, ReaderCursor, Occupancy, WritesInFreeSpace

\* A step of the writer that holds the lock.
LEMMA RegionsWriter ==
  ASSUME TypeOK, SafeRegions, NEW w \in Writers, Lock(w) \/ WriterStep(w)
  PROVE  SafeRegions'
<1> USE DEF TypeOK, readerVars, writerVars, historyVars, SafeRegions
<1>1. \A v \in Writers : v # w /\ pc[w] # "idle" => pc[v] = "idle"
  BY OneWriterActive
<1>2. ToEnd \in 1 .. Capacity
  BY OffsetInRange DEF ToEnd
<1>3. frame[w].len \in Nat /\ frame[w].len > 0
  BY AlignAssumption DEF FrameRecord
<1>4. Free \in Nat /\ Capacity \in Nat
  BY CapacityAssumption DEF Free, Occupancy
<1>5. CASE Lock(w)
  <2>1. w # Child
    BY <1>5 DEF Lock, LockDiscipline, Proc
  <2>2. \A v \in Writers : v # Child => pc[v] = "idle"
    BY <1>5, <2>1, WriterAssumption DEF Lock, LockFree, LockDiscipline, Proc, Writers
  <2>3. \A v \in Writers : v # w => pc'[v] = "idle" /\ pc'[w] = "check"
    BY <1>5, <2>2 DEF Lock, LockDiscipline
  <2>4. LockDiscipline'
    BY <1>5, <2>1, <2>3, WritersHaveProcs DEF Lock, LockDiscipline, Writers
  <2>5. WritesInFreeSpace'
    BY <1>5, <2>3 DEF Lock, WritesInFreeSpace
  <2> QED
    BY <1>5, <2>4, <2>5 DEF Lock, ReaderCursor, Occupancy
<1>6. CASE Drop(w)
  <2>1. \A v \in Writers : pc'[v] = "idle"
    BY <1>1, <1>6 DEF Drop, Running, Unlock
  <2> QED
    BY <1>6, <2>1
    DEF Drop, LockDiscipline, ReaderCursor, Occupancy, WritesInFreeSpace, Writers
<1>7. CASE WritePad(w)
  <2>1. ToEnd <= Free
    BY <1>2, <1>3, <1>4, <1>7 DEF WritePad, MustDrop
  <2>2. ToEnd' = ToEnd /\ Free' = Free
    BY <1>7 DEF WritePad, ToEnd, Free, Offset
  <2>3. \A v \in Writers : pc'[v] = IF v = w THEN "pad" ELSE "idle"
    BY <1>1, <1>7 DEF WritePad, Running
  <2>4. LockDiscipline'
    BY <1>7, <2>3 DEF WritePad, Running, LockDiscipline, Writers
  <2> QED
    BY <1>7, <2>1, <2>2, <2>3, <2>4 DEF WritePad, ReaderCursor, Occupancy, WritesInFreeSpace
<1>8. CASE PublishPad(w)
  <2>1. ToEnd <= Free
    BY <1>8 DEF PublishPad, Running, WritesInFreeSpace
  <2>2. \A v \in Writers : pc'[v] = IF v = w THEN "check" ELSE "idle"
    BY <1>1, <1>8 DEF PublishPad, Running
  <2>3. LockDiscipline'
    BY <1>8, <2>2 DEF PublishPad, Running, LockDiscipline, Writers
  <2>4. WritesInFreeSpace'
    BY <2>2 DEF WritesInFreeSpace
  <2>5. Occupancy' /\ ReaderCursor'
    BY <1>2, <1>4, <1>8, <2>1 DEF PublishPad, Occupancy, ReaderCursor, Free
  <2> QED
    BY <2>3, <2>4, <2>5
<1>9. CASE WriteHeader(w)
  <2>1. frame[w].len <= Free /\ frame[w].len <= ToEnd
    BY <1>3, <1>4, <1>9 DEF WriteHeader, MustDrop
  <2>2. ToEnd' = ToEnd /\ Free' = Free
    BY <1>9 DEF WriteHeader, ToEnd, Free, Offset
  <2>3. \A v \in Writers : pc'[v] = IF v = w THEN "body" ELSE "idle"
    BY <1>1, <1>9 DEF WriteHeader, Running
  <2>4. LockDiscipline'
    BY <1>9, <2>3 DEF WriteHeader, Running, LockDiscipline, Writers
  <2> QED
    BY <1>9, <2>1, <2>2, <2>3, <2>4
    DEF WriteHeader, ReaderCursor, Occupancy, WritesInFreeSpace
<1>10. CASE WriteBody(w)
  <2>1. frame[w].len <= Free /\ frame[w].len <= ToEnd
    BY <1>10 DEF WriteBody, Running, WritesInFreeSpace
  <2>2. ToEnd' = ToEnd /\ Free' = Free
    BY <1>10 DEF WriteBody, ToEnd, Free, Offset
  <2>3. \A v \in Writers : pc'[v] = IF v = w THEN "publish" ELSE "idle"
    BY <1>1, <1>10 DEF WriteBody, Running
  <2>4. LockDiscipline'
    BY <1>10, <2>3 DEF WriteBody, Running, LockDiscipline, Writers
  <2> QED
    BY <1>10, <2>1, <2>2, <2>3, <2>4
    DEF WriteBody, ReaderCursor, Occupancy, WritesInFreeSpace
<1>11. CASE Publish(w)
  <2>1. frame[w].len <= Free
    BY <1>11 DEF Publish, Running, WritesInFreeSpace
  <2>2. \A v \in Writers : pc'[v] = "idle"
    BY <1>1, <1>11 DEF Publish, Running, Unlock
  <2>3. LockDiscipline' /\ WritesInFreeSpace'
    BY <1>11, <2>2 DEF Publish, LockDiscipline, WritesInFreeSpace, Writers
  <2>4. Occupancy' /\ ReaderCursor'
    BY <1>3, <1>4, <1>11, <2>1 DEF Publish, Occupancy, ReaderCursor, Free
  <2> QED
    BY <2>3, <2>4
<1> QED
  BY <1>5, <1>6, <1>7, <1>8, <1>9, <1>10, <1>11 DEF WriterStep

\* Steps that touch no cursor: fork, kill, stray stores.
LEMMA RegionsProcesses ==
  ASSUME TypeOK, SafeRegions, Fork \/ Kill \/ (\E u \in Offsets : Corrupt(u))
  PROVE  SafeRegions'
<1> USE DEF TypeOK, readerVars, writerVars, historyVars, SafeRegions
<1>1. CASE Fork
  <2>1. LockDiscipline'
    BY <1>1 DEF Fork, AtforkChild, LockDiscipline, Procs, Proc, Writers
  <2> QED
    BY <1>1, <2>1
    DEF Fork, ReaderCursor, Occupancy, WritesInFreeSpace, ToEnd, Free, Offset
<1>2. CASE Kill
  BY <1>2
  DEF Kill, LockDiscipline, ReaderCursor, Occupancy, WritesInFreeSpace, ToEnd, Free, Offset
<1>3. ASSUME NEW u \in Offsets, Corrupt(u) PROVE SafeRegions'
  BY <1>3
  DEF Corrupt, LockDiscipline, ReaderCursor, Occupancy, WritesInFreeSpace, ToEnd, Free, Offset
<1> QED
  BY <1>1, <1>2, <1>3

\* Moving tail towards head keeps the occupancy and adds room.
LEMMA ReleaseMakesRoom ==
  ASSUME NEW h \in Nat, NEW t \in Nat, NEW u \in Nat, NEW c \in Nat,
         t <= u, u <= h, h - t <= c
  PROVE  /\ h - u <= c
         /\ c - (h - t) \in Nat /\ c - (h - u) \in Nat
         /\ c - (h - t) <= c - (h - u)
OBVIOUS

\* The reader only releases space: more room for the writer.
LEMMA RegionsReader ==
  ASSUME TypeOK, SafeRegions, Drain \/ Cancel
  PROVE  SafeRegions'
<1> USE DEF TypeOK, readerVars, writerVars, historyVars, SafeRegions
<1>1. UNCHANGED <<pc, lock, alive, writable, frame, head>>
  BY DEF Drain, Cancel, Tick, LoadHead, Resync, ReadHeader, SkipPad, Decode,
         Release, Report
<1>2. LockDiscipline'
  BY <1>1 DEF LockDiscipline
<1>3. tail <= tail' /\ tail' <= head /\ tail' \in Nat /\ ReaderCursor'
  <2>1. CASE Tick \/ Cancel \/ Report \/ LoadHead
    BY <2>1 DEF Tick, Cancel, Report, LoadHead, ReaderCursor, Occupancy
  <2>2. CASE Resync
    BY <2>2 DEF Resync, ResyncTo, ReaderCursor, Occupancy
  <2>3. CASE ReadHeader
    BY <2>3 DEF ReadHeader, Truncated, Plausible, ReaderCursor, Occupancy
  <2>4. CASE SkipPad
    BY <2>4 DEF SkipPad, ReaderCursor, UnitRecord
  <2>5. CASE Decode
    BY <2>5 DEF Decode, ReaderCursor, Occupancy
  <2>6. CASE Release
    BY <2>6 DEF Release, ReaderCursor, UnitRecord
  <2> QED
    BY <2>1, <2>2, <2>3, <2>4, <2>5, <2>6 DEF Drain
<1>4. head' = head /\ Capacity \in Nat /\ head - tail <= Capacity
  BY <1>1, CapacityAssumption DEF Occupancy
<1>5. /\ head - tail' <= Capacity
      /\ Capacity - (head - tail) \in Nat /\ Capacity - (head - tail') \in Nat
      /\ Capacity - (head - tail) <= Capacity - (head - tail')
  BY ONLY <1>3, <1>4, ReleaseMakesRoom, head \in Nat, tail \in Nat
<1>6. Occupancy'
  BY <1>3, <1>4, <1>5 DEF Occupancy, ReaderCursor
<1>7. ToEnd' = ToEnd /\ ToEnd \in Nat /\ Free' \in Nat /\ Free \in Nat /\ Free <= Free'
  <2>1. ToEnd' = ToEnd /\ ToEnd \in Nat
    BY <1>1, OffsetInRange DEF ToEnd, Offset
  <2> QED
    BY <1>4, <1>5, <2>1 DEF Free
<1>8. WritesInFreeSpace'
  BY <1>1, <1>7 DEF WritesInFreeSpace, FrameRecord
<1> QED
  BY <1>2, <1>3, <1>6, <1>8

\* Cursors in order (the writer's u64 subtraction never wraps and the reader
\* never passes head), one writer at a time over all processes sharing the
\* mapping, and no write into bytes the reader has not released -- also under
\* any number of stray stores.
THEOREM RegionsAreSafe == Spec => [](SafeRegions /\ ExclusiveWriter)
<1>1. TypeOK /\ SafeRegions /\ [Next]_vars => SafeRegions'
  <2> SUFFICES ASSUME TypeOK, SafeRegions, [Next]_vars PROVE SafeRegions'
    OBVIOUS
  <2>1. CASE Next
    BY <2>1, RegionsWriter, RegionsProcesses, RegionsReader DEF Next
  <2>2. CASE UNCHANGED vars
    BY <2>2
    DEF vars, readerVars, writerVars, historyVars, SafeRegions, LockDiscipline,
        ReaderCursor, Occupancy, WritesInFreeSpace, ToEnd, Free, Offset
  <2> QED
    BY <2>1, <2>2
<1>2. TypeOK /\ SafeRegions => SafeRegions /\ ExclusiveWriter
  BY OneWriterActive DEF SafeRegions, ExclusiveWriter, Writing
<1> QED
  BY <1>1, <1>2, RegionsInit, TypeCorrect, PTL DEF Spec

-----------------------------------------------------------------------------
(***************************************************************************)
(* Alignment.                                                              *)
(***************************************************************************)
Multiple(n) == \E k \in Nat : n = k * FrameAlign

\* To be a multiple of the alignment is to leave no remainder.
LEMMA MultipleIffAligned ==
  ASSUME NEW n \in Nat
  PROVE  Multiple(n) <=> n % FrameAlign = 0
<1>1. FrameAlign \in Nat /\ FrameAlign > 0
  BY AlignAssumption
<1>2. ASSUME n % FrameAlign = 0 PROVE Multiple(n)
  <2>1. n = FrameAlign * (n \div FrameAlign) /\ n \div FrameAlign \in Nat
    BY <1>1, <1>2
  <2> QED
    BY <1>1, <2>1 DEF Multiple
<1>3. ASSUME NEW k \in Nat, n = k * FrameAlign PROVE n % FrameAlign = 0
  BY <1>1, <1>3
<1> QED
  BY <1>2, <1>3 DEF Multiple

\* The sum of two aligned lengths is aligned.
LEMMA MultipleSum ==
  ASSUME NEW m \in Nat, NEW n \in Nat, Multiple(m), Multiple(n)
  PROVE  Multiple(m + n)
<1>1. PICK j \in Nat : m = j * FrameAlign
  BY DEF Multiple
<1>2. PICK k \in Nat : n = k * FrameAlign
  BY DEF Multiple
<1>3. m + n = (j + k) * FrameAlign /\ j + k \in Nat
  BY <1>1, <1>2, AlignAssumption
<1> QED
  BY <1>3 DEF Multiple

\* From an aligned position at least one alignment unit remains before the end
\* of the data area, and what remains is aligned.
LEMMA RoomBeforeEnd ==
  ASSUME NEW n \in Nat, Multiple(n)
  PROVE  /\ Multiple(Capacity - Offset(n))
         /\ Capacity - Offset(n) >= FrameAlign
<1> DEFINE q == n \div Capacity
           room == Capacity - Offset(n)
<1>1. FrameAlign \in Nat /\ FrameAlign > 0 /\ Capacity \in Nat /\ Capacity > 0
  BY AlignAssumption, CapacityAssumption
<1>2. PICK k \in Nat : n = k * FrameAlign
  BY DEF Multiple
<1>3. PICK c \in Nat : Capacity = c * FrameAlign
  BY <1>1, MultipleIffAligned, AlignAssumption DEF Multiple
<1>4. q \in Nat /\ n = Capacity * q + Offset(n)
  BY <1>1 DEF Offset
<1>5. room \in Nat /\ room > 0
  BY OffsetInRange
<1>6. room = (c - k + c * q) * FrameAlign
  <2>1. Offset(n) \in Int /\ Capacity * q \in Int
    BY <1>1, <1>4, OffsetInRange DEF Offsets
  <2>2. \A off, cq \in Int : n = cq + off => Capacity - off = Capacity - n + cq
    BY <1>1
  <2> HIDE DEF q
  <2>5. room = Capacity - n + Capacity * q
    BY <1>4, <2>1, <2>2
  <2>3. Capacity * q = (c * q) * FrameAlign
    BY <1>1, <1>3, <1>4
  <2>4. c * q \in Nat
    BY <1>4
  <2> QED
    BY <1>1, <1>2, <1>3, <2>5, <2>3, <2>4
<1>7. c - k + c * q \in Int
  BY <1>4
<1>8. c - k + c * q > 0
  BY <1>1, <1>5, <1>6, <1>7
<1>9. room >= FrameAlign
  BY <1>1, <1>6, <1>7, <1>8
<1> QED
  BY <1>6, <1>7, <1>8, <1>9 DEF Multiple

\* Every frame has an aligned length.
LEMMA FramesAligned ==
  ASSUME NEW p \in Nat
  PROVE  Multiple(FrameLen(p))
<1> DEFINE m == FrameHeader + p + FrameAlign - 1
<1>1. m \in Nat /\ FrameAlign \in Nat /\ FrameAlign > 0
  BY AlignAssumption
<1>2. m \div FrameAlign \in Nat
  BY <1>1
<1> QED
  BY <1>2 DEF Multiple, FrameLen, RoundAlign

MultipleWriter ==
  Multiple(head) /\ \A w \in Writers : Multiple(frame[w].len)

\* head only moves by aligned lengths: a PAD's or a frame's.
LEMMA AlignmentStep ==
  ASSUME TypeOK, MultipleWriter, [Next]_vars
  PROVE  MultipleWriter'
<1> USE DEF TypeOK, MultipleWriter
<1>1. ASSUME NEW w \in Writers, Lock(w) PROVE MultipleWriter'
  <2>1. PICK p \in Payloads :
          frame' = [frame EXCEPT ![w] = [id |-> attempts + 1, len |-> FrameLen(p)]]
    BY <1>1 DEF Lock
  <2>2. Multiple(FrameLen(p))
    BY FramesAligned, PayloadAssumption
  <2> QED
    BY <1>1, <2>1, <2>2 DEF Lock
<1>2. ASSUME NEW w \in Writers, PublishPad(w) PROVE MultipleWriter'
  <2>1. ToEnd \in Nat /\ Multiple(ToEnd)
    BY OffsetInRange, RoomBeforeEnd DEF ToEnd
  <2> QED
    BY <1>2, <2>1, MultipleSum DEF PublishPad
<1>3. ASSUME NEW w \in Writers, Publish(w) PROVE MultipleWriter'
  BY <1>3, MultipleSum DEF Publish, FrameRecord
<1>4. ASSUME UNCHANGED <<head, frame>> PROVE MultipleWriter'
  BY <1>4
<1>5. ASSUME NEW w \in Writers, WriterStep(w), ~PublishPad(w), ~Publish(w)
      PROVE  MultipleWriter'
  BY <1>4, <1>5 DEF WriterStep, Drop, WritePad, WriteHeader, WriteBody
<1>6. CASE Drain \/ Cancel
  BY <1>4, <1>6
  DEF Drain, Cancel, Tick, LoadHead, Resync, ReadHeader, SkipPad, Decode,
      Release, Report, writerVars
<1>7. CASE Fork \/ Kill \/ (\E u \in Offsets : Corrupt(u))
  BY <1>4, <1>7 DEF Fork, Kill, Corrupt, writerVars
<1>8. CASE UNCHANGED vars
  BY <1>4, <1>8 DEF vars, writerVars
<1> QED
  BY <1>1, <1>2, <1>3, <1>5, <1>6, <1>7, <1>8 DEF Next

\* From an aligned head a header fits before the end of the data area.
LEMMA HeaderFitsWhenAligned ==
  ASSUME TypeOK, MultipleWriter
  PROVE  HeaderAlwaysFits
<1>1. ToEnd \in Nat /\ ToEnd >= FrameAlign
  BY OffsetInRange, RoomBeforeEnd DEF ToEnd, TypeOK, MultipleWriter
<1> QED
  BY <1>1, AlignAssumption DEF HeaderAlwaysFits

\* head and the lengths of frames are aligned at the start.
LEMMA AlignedInit == Init => MultipleWriter
<1>1. Multiple(0)
  BY AlignAssumption DEF Multiple
<1> QED
  BY <1>1, FramesAligned DEF Init, MultipleWriter

\* Wherever the writer stands, a header fits before the end of the data area:
\* the defensive drop that wedged the ring cannot be taken.  This needs the
\* compile-time assertion FRAME_ALIGN >= FRAME_HEADER_BYTES.
THEOREM HeaderFitsAlways == Spec => []HeaderAlwaysFits
<1> QED
  BY AlignedInit, HeaderFitsWhenAligned, AlignmentStep, TypeCorrect, PTL DEF Spec

-----------------------------------------------------------------------------
(***************************************************************************)
(* The ring implements FrameStream when the application makes no stray     *)
(* store.  The unread part of the data area is a chain of segments, frames *)
(* and PADs, whose boundaries are named by two functions that only the     *)
(* proof knows: b[i] is the position of the i-th boundary, c[i] the number *)
(* of frames published before it.                                          *)
(***************************************************************************)
PadAt(p, n) == mem[Offset(p)].kind = "PAD" /\ mem[Offset(p)].len = n

HeadAt(p, n, id) == mem[Offset(p)] = Unit("FRAME", n, id)

BodyAt(p, first, n, id) ==
  \A u \in Offsets :
    Offset(p) + first <= u /\ u < Offset(p) + n => mem[u] = Unit("BODY", 0, id)

FrameAt(p, n, id) == HeadAt(p, n, id) /\ BodyAt(p, 1, n, id)

\* The bytes p .. q - 1 are a PAD, or the n-th frame published.
Segment(p, q, m, n) ==
  /\ p + FrameHeader <= q
  /\ Offset(p) + (q - p) <= Capacity
  /\ \/ n = m /\ PadAt(p, q - p)
     \/ n = m + 1 /\ n \in 1 .. Len(accepted) /\ FrameAt(p, q - p, accepted[n])

Boundaries(f) == f \in [Nat -> Nat]

Chain(lo, hi, b, c) ==
  /\ b[lo] = tail /\ c[lo] = Len(delivered)
  /\ b[hi] = head /\ c[hi] = Len(accepted)
  /\ \A i, j \in lo .. hi : i <= j => b[i] <= b[j]
  /\ \A i \in lo .. hi - 1 : Segment(b[i], b[i + 1], c[i], c[i + 1])

\* What the reader knows of the segment at tail.
AtTail(lo, hi, b, c) ==
  /\ rpc \in {"header", "skip", "decode", "release"} =>
       lo < hi /\ \E j \in lo + 1 .. hi : b[j] = rhead
  /\ rpc \in {"skip", "decode", "release"} => rhdr.len = b[lo + 1] - b[lo]
  /\ rpc = "skip" => c[lo + 1] = c[lo]
  /\ rpc \in {"decode", "release"} => c[lo + 1] = c[lo] + 1
  /\ rpc = "decode" => rhdr.id = accepted[Len(delivered) + 1]
  /\ rpc = "release" => rgot = accepted[Len(delivered) + 1]

Chained(lo, hi, b, c) ==
  /\ Boundaries(b) /\ Boundaries(c)
  /\ Chain(lo, hi, b, c) /\ AtTail(lo, hi, b, c)

UnreadIsChained ==
  \E lo, hi \in Nat : lo <= hi /\ \E b, c : Chained(lo, hi, b, c)

\* What a writer has stored beyond head.
StoredBy(w) ==
  /\ pc[w] = "pad" => PadAt(head, ToEnd)
  /\ pc[w] = "body" => /\ HeadAt(head, frame[w].len, frame[w].id)
                       /\ BodyAt(head, 1, FrameHeader, frame[w].id)
  /\ pc[w] = "publish" => FrameAt(head, frame[w].len, frame[w].id)

BeyondHead == \A w \in Writers : StoredBy(w)

\* The frame being written is the last one attempted, and new.
FramesAreNew ==
  /\ attempts <= MaxWrites
  /\ \A i \in 1 .. Len(accepted) : accepted[i] \in 1 .. attempts
  /\ \A w \in Writers : pc[w] # "idle" =>
       /\ frame[w].id = attempts /\ attempts > 0
       /\ \A i \in 1 .. Len(accepted) : accepted[i] # attempts

StreamInv == UnreadIsChained /\ BeyondHead /\ FramesAreNew /\ reported <= dropped

\* The writers' view of the same, for what follows.
RingInv == TypeOK /\ SafeRegions /\ MultipleWriter

\* Boundaries are positions, or numbers of frames.
LEMMA BoundaryIsNat ==
  ASSUME NEW f, Boundaries(f), NEW i \in Nat
  PROVE  f[i] \in Nat /\ i + 1 \in Nat /\ f[i + 1] \in Nat
BY DEF Boundaries

\* Two positions less than a lap apart lie at different offsets.
LEMMA LapApart ==
  ASSUME NEW x \in Nat, NEW y \in Nat, x < y, y < x + Capacity
  PROVE  Offset(x) # Offset(y)
<1> DEFINE j == x \div Capacity
           k == y \div Capacity
<1>1. Capacity \in Nat /\ Capacity > 0
  BY CapacityAssumption
<1>2. j \in Nat /\ x = Capacity * j + Offset(x)
  BY <1>1 DEF Offset
<1>3. k \in Nat /\ y = Capacity * k + Offset(y)
  BY <1>1 DEF Offset
<1>4. SUFFICES ASSUME Offset(x) = Offset(y) PROVE FALSE
  OBVIOUS
<1>5. Offset(x) \in Nat
  BY OffsetInRange DEF Offsets
<1> HIDE DEF j, k
<1>6. CASE j >= k
  <2>1. Capacity * j >= Capacity * k
    BY <1>1, <1>2, <1>3, <1>6
  <2> QED
    BY <1>1, <1>2, <1>3, <1>4, <1>5, <2>1
<1>7. CASE k >= j + 1
  <2>1. Capacity * k >= Capacity * (j + 1)
    BY <1>1, <1>2, <1>3, <1>7
  <2>2. Capacity * (j + 1) = Capacity * j + Capacity
    BY <1>1, <1>2
  <2>3. Capacity * j \in Nat /\ Capacity * k \in Nat
    BY <1>1, <1>2, <1>3
  <2> QED
    BY <1>1, <1>2, <1>3, <1>4, <1>5, <2>1, <2>2, <2>3
<1> QED
  BY <1>2, <1>3, <1>6, <1>7

\* Quotient and remainder are unique.
LEMMA RemainderIsUnique ==
  ASSUME NEW m \in Nat, m > 0, NEW j \in Nat, NEW k \in Nat,
         NEW u \in 0 .. m - 1, NEW v \in 0 .. m - 1, m * j + u = m * k + v
  PROVE  u = v
<1>1. m * j \in Nat /\ m * k \in Nat
  OBVIOUS
<1>2. ASSUME k >= j + 1 PROVE FALSE
  <2>1. m * k >= m * (j + 1) /\ m * (j + 1) = m * j + m
    BY <1>2
  <2> QED
    BY <1>1, <2>1
<1>3. ASSUME j >= k + 1 PROVE FALSE
  <2>1. m * j >= m * (k + 1) /\ m * (k + 1) = m * k + m
    BY <1>3
  <2> QED
    BY <1>1, <2>1
<1>4. j = k
  BY <1>2, <1>3
<1> QED
  BY <1>1, <1>4

\* An offset in a segment that does not wrap is that of one of its positions.
LEMMA OffsetInside ==
  ASSUME NEW p \in Nat, NEW u \in Offsets, Offset(p) <= u
  PROVE  p + (u - Offset(p)) \in Nat /\ Offset(p + (u - Offset(p))) = u
<1> DEFINE q == p \div Capacity
<1>1. Capacity \in Nat /\ Capacity > 0
  BY CapacityAssumption
<1>2. q \in Nat /\ p = Capacity * q + Offset(p) /\ Offset(p) \in Nat
  BY <1>1, OffsetInRange DEF Offset, Offsets
<1> DEFINE x == p + (u - Offset(p))
<1>3. x \in Nat
  BY <1>2 DEF Offsets
<1>4. x = Capacity * q + u
  <2>1. Capacity * q \in Nat
    BY <1>1, <1>2
  <2> HIDE DEF q
  <2> QED
    BY <1>2, <2>1 DEF Offsets
<1>5. Offset(x) = u
  <2> DEFINE k == x \div Capacity
  <2>1. k \in Nat /\ x = Capacity * k + Offset(x) /\ Offset(x) \in Offsets
    BY <1>1, <1>3, OffsetInRange DEF Offset
  <2> HIDE DEF k, q, x
  <2> QED
    BY <1>1, <1>2, <1>4, <2>1, RemainderIsUnique DEF Offsets
<1> QED
  BY <1>3, <1>5

\* What is unread and what is being written share no unit.
LEMMA UnreadApartFromFree ==
  ASSUME NEW h \in Nat, NEW t \in Nat, NEW p \in Nat, NEW n \in Nat,
         NEW len \in Nat, NEW u \in Offsets,
         t <= p, p + n <= h, h + len <= t + Capacity,
         Offset(p) <= u, u < Offset(p) + n,
         Offset(h) <= u, u < Offset(h) + len
  PROVE  FALSE
<1> DEFINE x == p + (u - Offset(p))
           y == h + (u - Offset(h))
<1>1. x \in Nat /\ Offset(x) = u /\ y \in Nat /\ Offset(y) = u
  BY OffsetInside
<1>2. Offset(p) \in Nat /\ Offset(h) \in Nat /\ Capacity \in Nat
  BY OffsetInRange, CapacityAssumption DEF Offsets
<1>3. x < y /\ y < x + Capacity
  BY <1>2 DEF Offsets
<1> QED
  BY <1>1, <1>3, LapApart

-----------------------------------------------------------------------------
(* Steps of the writer.                                                    *)

\* A segment is still what it was when its units are and what was published
\* stays published.
LEMMA SegmentKept ==
  ASSUME NEW p \in Nat, NEW q \in Nat, NEW m \in Nat, NEW n \in Nat,
         Segment(p, q, m, n),
         \A u \in Offsets : Offset(p) <= u /\ u < Offset(p) + (q - p) => mem'[u] = mem[u],
         Len(accepted) \in Nat, Len(accepted') \in Nat, Len(accepted') >= Len(accepted),
         \A i \in 1 .. Len(accepted) : accepted'[i] = accepted[i]
  PROVE  Segment(p, q, m, n)'
<1>1. /\ Offset(p) \in Offsets /\ FrameHeader \in Nat /\ FrameHeader > 0
      /\ Offset(p) \in Nat /\ Capacity \in Nat
  BY OffsetInRange, AlignAssumption, CapacityAssumption DEF Offsets
<1>2. q - p \in Nat /\ q - p > 0
  BY <1>1 DEF Segment
<1>3. mem'[Offset(p)] = mem[Offset(p)]
  BY <1>1, <1>2
<1>4. CASE n = m /\ PadAt(p, q - p)
  BY <1>3, <1>4 DEF Segment, PadAt
<1>5. CASE n = m + 1 /\ n \in 1 .. Len(accepted) /\ FrameAt(p, q - p, accepted[n])
  <2>1. accepted'[n] = accepted[n] /\ n \in 1 .. Len(accepted')
    BY <1>5
  <2>2. HeadAt(p, q - p, accepted[n])'
    BY <1>3, <1>5, <2>1 DEF FrameAt, HeadAt
  <2>3. BodyAt(p, 1, q - p, accepted[n])'
    <3> SUFFICES ASSUME NEW u \in Offsets, Offset(p) + 1 <= u, u < Offset(p) + (q - p)
                 PROVE  mem'[u] = Unit("BODY", 0, accepted'[n])
      BY DEF BodyAt
    <3>1. mem'[u] = mem[u]
      BY <1>1 DEF Offsets
    <3> QED
      BY <1>5, <2>1, <3>1 DEF FrameAt, BodyAt
  <2> QED
    BY <1>5, <2>1, <2>2, <2>3 DEF Segment, FrameAt
<1> QED
  BY <1>4, <1>5 DEF Segment

\* The unread segments lie between tail and head, a header long at least.
LEMMA SegmentsInside ==
  ASSUME TypeOK, NEW lo \in Nat, NEW hi \in Nat, lo <= hi,
         NEW b, NEW c, Boundaries(b), Boundaries(c), Chain(lo, hi, b, c),
         NEW i \in lo .. hi - 1
  PROVE  /\ i \in Nat /\ i + 1 \in Nat /\ b[i] \in Nat /\ b[i + 1] \in Nat
         /\ c[i] \in Nat /\ c[i + 1] \in Nat
         /\ tail <= b[i] /\ b[i + 1] <= head
         /\ Segment(b[i], b[i + 1], c[i], c[i + 1])
         /\ b[i + 1] - b[i] \in Nat /\ b[i + 1] - b[i] > 0
<1>1. /\ i \in Nat /\ i + 1 \in Nat /\ i \in lo .. hi /\ i + 1 \in lo .. hi
      /\ lo \in lo .. hi /\ hi \in lo .. hi
  OBVIOUS
<1>2. Segment(b[i], b[i + 1], c[i], c[i + 1])
  BY DEF Chain
<1>3. b[lo] <= b[i] /\ b[i + 1] <= b[hi]
  <2>1. \A x, y \in lo .. hi : x <= y => b[x] <= b[y]
    BY DEF Chain
  <2> QED
    BY <1>1, <2>1
<1>4. b[i] + FrameHeader <= b[i + 1]
  BY <1>2 DEF Segment
<1>5. b[lo] = tail /\ b[hi] = head /\ FrameHeader \in Nat /\ FrameHeader > 0
  BY AlignAssumption DEF Chain
<1>6. b[i] \in Nat /\ b[i + 1] \in Nat /\ c[i] \in Nat /\ c[i + 1] \in Nat
  BY <1>1, BoundaryIsNat
<1> QED
  BY <1>1, <1>2, <1>3, <1>4, <1>5, <1>6

\* A store into free space, from head on, leaves the chain as it was.
LEMMA StoreKeepsChain ==
  ASSUME RingInv, NEW lo \in Nat, NEW hi \in Nat, lo <= hi,
         NEW b, NEW c, Chained(lo, hi, b, c),
         NEW len \in Nat, len <= Free,
         \A u \in Offsets :
           mem'[u] = mem[u] \/ (Offset(head) <= u /\ u < Offset(head) + len),
         UNCHANGED <<head, tail, accepted, delivered, readerVars>>
  PROVE  Chained(lo, hi, b, c)'
<1>1. head + len <= tail + Capacity /\ head \in Nat /\ tail \in Nat
  BY CapacityAssumption DEF Free, RingInv, TypeOK
<1>2. Len(accepted) \in Nat
  BY DEF RingInv, TypeOK
<1>3. ASSUME NEW i \in lo .. hi - 1, NEW p, p = b[i], NEW q, q = b[i + 1],
             NEW m, m = c[i], NEW n, n = c[i + 1]
      PROVE  Segment(p, q, m, n)'
  <2>1. /\ p \in Nat /\ q \in Nat /\ m \in Nat /\ n \in Nat
        /\ tail <= p /\ q <= head /\ Segment(p, q, m, n) /\ q - p \in Nat
    BY <1>3, SegmentsInside DEF Chained, RingInv
  <2>2. p + (q - p) <= head
    BY <2>1
  <2>3. ASSUME NEW u \in Offsets, Offset(p) <= u, u < Offset(p) + (q - p)
        PROVE  mem'[u] = mem[u]
    <3>1. ~(Offset(head) <= u /\ u < Offset(head) + len)
      BY <1>1, <2>1, <2>2, <2>3, UnreadApartFromFree
    <3> QED
      BY <3>1
  <2>4. \A u \in Offsets : Offset(p) <= u /\ u < Offset(p) + (q - p) => mem'[u] = mem[u]
    BY <2>3
  <2> QED
    BY ONLY <1>2, <2>1, <2>4, accepted' = accepted, SegmentKept
<1>4. Chain(lo, hi, b, c)'
  BY <1>3 DEF Chain, Chained
<1>5. AtTail(lo, hi, b, c)'
  BY DEF AtTail, Chained, readerVars
<1> QED
  BY <1>4, <1>5 DEF Chained

\* A function of the boundaries with one more boundary.
LEMMA OneMoreBoundary ==
  ASSUME NEW f, Boundaries(f), NEW n \in Nat, NEW v \in Nat,
         NEW e, e = [f EXCEPT ![n + 1] = v]
  PROVE  /\ Boundaries(e)
         /\ e[n + 1] = v
         /\ \A i \in 0 .. n : e[i] = f[i]
BY DEF Boundaries

\* Boundaries from lo to hi are among those from 0 to hi.
LEMMA WithinBounds ==
  ASSUME NEW lo \in Nat, NEW hi \in Nat, lo <= hi, NEW i \in lo .. hi
  PROVE  /\ i \in Nat /\ i \in 0 .. hi
         /\ hi + 1 \in Nat /\ lo <= hi + 1 /\ i \in lo .. hi + 1
         /\ lo \in lo .. hi /\ hi \in lo .. hi
OBVIOUS

\* Boundaries stay in order when the new one is beyond the last.
LEMMA OrderExtended ==
  ASSUME NEW f, Boundaries(f), NEW e, Boundaries(e),
         NEW lo \in Nat, NEW hi \in Nat, lo <= hi,
         \A i \in 0 .. hi : e[i] = f[i], f[hi] <= e[hi + 1],
         \A i, j \in lo .. hi : i <= j => f[i] <= f[j]
  PROVE  \A i, j \in lo .. hi + 1 : i <= j => e[i] <= e[j]
<1> SUFFICES ASSUME NEW i \in lo .. hi + 1, NEW j \in lo .. hi + 1, i <= j
             PROVE  e[i] <= e[j]
  OBVIOUS
<1>1. /\ i \in Nat /\ j \in Nat /\ hi \in lo .. hi /\ hi + 1 \in Nat
      /\ e[i] \in Nat /\ e[j] \in Nat /\ f[hi] \in Nat
  BY BoundaryIsNat
<1>2. CASE j <= hi
  <2>1. i \in lo .. hi /\ j \in lo .. hi /\ i \in 0 .. hi /\ j \in 0 .. hi
    BY <1>2
  <2> QED
    BY <2>1
<1>3. CASE j = hi + 1 /\ i <= hi
  <2>1. i \in lo .. hi /\ i \in 0 .. hi
    BY <1>3
  <2>2. e[i] <= f[hi]
    BY <1>1, <2>1
  <2> QED
    BY <1>1, <1>3, <2>2
<1>4. CASE i = j
  BY <1>1, <1>4
<1> QED
  BY <1>1, <1>2, <1>3, <1>4

\* What is published after a write is one more segment of the chain.
LEMMA PublishExtendsChain ==
  ASSUME RingInv, NEW lo \in Nat, NEW hi \in Nat, lo <= hi,
         NEW b, NEW c, Chained(lo, hi, b, c),
         NEW h \in Nat, h = head, NEW g \in Nat, g = head',
         NEW m \in Nat, m = Len(accepted), NEW k \in Nat, k = Len(accepted'),
         k >= m, \A i \in 1 .. m : accepted'[i] = accepted[i],
         Segment(h, g, m, k)',
         UNCHANGED <<tail, mem, delivered, readerVars>>
  PROVE  UnreadIsChained'
<1> DEFINE B == [b EXCEPT ![hi + 1] = g]
           C == [c EXCEPT ![hi + 1] = k]
<1>1. /\ Boundaries(B) /\ B[hi + 1] = g /\ \A i \in 0 .. hi : B[i] = b[i]
      /\ Boundaries(C) /\ C[hi + 1] = k /\ \A i \in 0 .. hi : C[i] = c[i]
  <2>1. Boundaries(b) /\ Boundaries(c)
    BY DEF Chained
  <2>2. Boundaries(B) /\ B[hi + 1] = g /\ \A i \in 0 .. hi : B[i] = b[i]
    BY ONLY <2>1, OneMoreBoundary, hi \in Nat, g \in Nat
  <2>3. Boundaries(C) /\ C[hi + 1] = k /\ \A i \in 0 .. hi : C[i] = c[i]
    BY ONLY <2>1, OneMoreBoundary, hi \in Nat, k \in Nat
  <2> QED
    BY <2>2, <2>3
<1> HIDE DEF B, C
<1>2. /\ \A i \in lo .. hi : i \in Nat /\ B[i] = b[i] /\ C[i] = c[i]
      /\ hi + 1 \in Nat /\ lo <= hi + 1 /\ lo \in lo .. hi
  BY ONLY <1>1, WithinBounds, lo \in Nat, hi \in Nat, lo <= hi
<1>3. b[hi] = h /\ c[hi] = m
  BY DEF Chained, Chain
<1>4. g >= h
  BY AlignAssumption DEF Segment
<1>5. \A i, j \in lo .. hi + 1 : i <= j => B[i] <= B[j]
  <2>1. \A i, j \in lo .. hi : i <= j => b[i] <= b[j]
    BY DEF Chained, Chain
  <2>2. b[hi] <= B[hi + 1]
    BY <1>1, <1>3, <1>4
  <2> QED
    BY <1>1, <2>1, <2>2, OrderExtended DEF Chained
<1>6. ASSUME NEW i \in lo .. hi - 1
      PROVE  Segment(b[i], b[i + 1], c[i], c[i + 1])'
  <2>1. /\ b[i] \in Nat /\ b[i + 1] \in Nat /\ c[i] \in Nat /\ c[i + 1] \in Nat
        /\ Segment(b[i], b[i + 1], c[i], c[i + 1])
    BY SegmentsInside DEF Chained, RingInv
  <2> QED
    BY <2>1, SegmentKept
<1>7. ASSUME NEW i \in lo .. hi PROVE Segment(B[i], B[i + 1], C[i], C[i + 1])'
  <2>1. CASE i \in lo .. hi - 1
    <3>1. i + 1 \in lo .. hi
      BY <2>1
    <3> QED
      BY <1>2, <1>6, <2>1, <3>1
  <2>2. CASE i = hi
    <3>1. B[i] = h /\ C[i] = m
      BY <1>2, <1>3, <2>2
    <3> QED
      BY <1>1, <2>2, <3>1
  <2> QED
    BY <2>1, <2>2
<1>8. Chain(lo, hi + 1, B, C)'
  <2>1. lo .. (hi + 1) - 1 = lo .. hi
    OBVIOUS
  <2>2. B[lo] = tail' /\ C[lo] = Len(delivered')
    <3>1. b[lo] = tail /\ c[lo] = Len(delivered)
      BY DEF Chain, Chained
    <3> QED
      BY <1>2, <3>1
  <2>3. B[hi + 1] = head' /\ C[hi + 1] = Len(accepted')
    BY <1>1
  <2> QED
    BY <1>5, <1>7, <2>1, <2>2, <2>3 DEF Chain
<1>9. AtTail(lo, hi + 1, B, C)'
  <2>1. CASE rpc \notin {"header", "skip", "decode", "release"}
    BY <2>1 DEF AtTail, readerVars
  <2>2. CASE rpc \in {"header", "skip", "decode", "release"}
    <3>1. lo < hi /\ \E j \in lo + 1 .. hi : b[j] = rhead
      BY <2>2 DEF Chained, AtTail
    <3>2. lo < hi + 1 /\ \E j \in lo + 1 .. hi + 1 : B[j] = rhead
      <4>1. PICK j \in lo + 1 .. hi : b[j] = rhead
        BY <3>1
      <4>2. j \in lo .. hi /\ j \in lo + 1 .. hi + 1
        BY <4>1
      <4>3. B[j] = rhead
        BY <1>2, <4>1, <4>2
      <4> QED
        BY ONLY <3>1, <4>2, <4>3, lo \in Nat, hi \in Nat
    <3>3. lo \in lo .. hi - 1 /\ lo \in lo .. hi /\ lo + 1 \in lo .. hi
      BY <3>1
    <3>4. /\ B[lo] = b[lo] /\ B[lo + 1] = b[lo + 1]
          /\ C[lo] = c[lo] /\ C[lo + 1] = c[lo + 1]
      BY <1>2, <3>3
    <3>5. rpc \in {"decode", "release"} => Len(delivered) + 1 \in 1 .. m
      <4>1. Segment(b[lo], b[lo + 1], c[lo], c[lo + 1]) /\ c[lo] = Len(delivered)
        BY <3>3 DEF Chained, Chain
      <4>2. rpc \in {"decode", "release"} => c[lo + 1] = c[lo] + 1
        BY DEF Chained, AtTail
      <4>3. c[lo] \in Nat
        BY BoundaryIsNat DEF Chained
      <4> QED
        BY <4>1, <4>2, <4>3 DEF Segment
    <3> QED
      BY <3>2, <3>4, <3>5 DEF Chained, AtTail, readerVars
  <2> QED
    BY <2>1, <2>2
<1>10. Chained(lo, hi + 1, B, C)'
  BY <1>1, <1>8, <1>9 DEF Chained
<1> QED
  BY <1>1, <1>2, <1>10 DEF UnreadIsChained
\* The chain is what it was when nothing it is about has changed.
LEMMA ChainUntouched ==
  ASSUME UnreadIsChained, UNCHANGED <<head, tail, mem, accepted, delivered, readerVars>>
  PROVE  UnreadIsChained'
<1>0. PICK lo \in Nat, hi \in Nat : lo <= hi /\ \E b, c : Chained(lo, hi, b, c)
  BY DEF UnreadIsChained
<1>1. PICK b, c : lo <= hi /\ Chained(lo, hi, b, c)
  BY <1>0
<1>2. \A p, q, m, n : Segment(p, q, m, n)' <=> Segment(p, q, m, n)
  BY DEF Segment, PadAt, FrameAt, HeadAt, BodyAt, Offset
<1>3. Chain(lo, hi, b, c)'
  BY <1>1, <1>2 DEF Chained, Chain
<1>4. AtTail(lo, hi, b, c)'
  BY <1>1 DEF Chained, AtTail, readerVars
<1> QED
  BY <1>1, <1>3, <1>4 DEF UnreadIsChained, Chained

OneActive == \A v, w \in Writers : pc[v] # "idle" /\ pc[w] # "idle" => v = w

\* With the locks in order one writer at most is at work.
LEMMA OneIsActive == RingInv => OneActive
BY OneWriterActive DEF RingInv, SafeRegions, OneActive

\* A header fits at head whenever the ring's invariant holds.
LEMMA HeaderFitsAtHead == RingInv => HeaderAlwaysFits
BY HeaderFitsWhenAligned DEF RingInv

\* Only the active writer has anything beyond head.
LEMMA OnlyTheActive ==
  ASSUME NEW w \in Writers, OneActive', pc'[w] # "idle", StoredBy(w)'
  PROVE  BeyondHead'
BY DEF OneActive, BeyondHead, StoredBy

\* An attempt takes the lock and touches no byte.
LEMMA StreamLock ==
  ASSUME RingInv, OneActive', StreamInv, NEW w \in Writers, Lock(w)
  PROVE  StreamInv'
<1>1. UnreadIsChained'
  BY ChainUntouched DEF Lock, StreamInv, historyVars
<1>2. w \in DOMAIN pc /\ w \in DOMAIN frame
  BY DEF RingInv, TypeOK
<1>3. pc'[w] = "check" /\ frame'[w].id = attempts + 1 /\ attempts' = attempts + 1
  BY <1>2 DEF Lock
<1>4. BeyondHead'
  BY <1>3, OnlyTheActive DEF StoredBy
<1>5. FramesAreNew'
  <2>1. attempts \in Nat /\ attempts + 1 <= MaxWrites /\ accepted' = accepted
    BY BoundAssumption DEF Lock, RingInv, TypeOK, historyVars
  <2>2. \A v \in Writers : pc'[v] # "idle" => v = w
    BY <1>3 DEF OneActive
  <2> QED
    BY <1>3, <2>1, <2>2 DEF FramesAreNew, StreamInv
<1>6. reported' <= dropped'
  BY DEF Lock, StreamInv, historyVars
<1> QED
  BY <1>1, <1>4, <1>5, <1>6 DEF StreamInv

\* Nobody's frame changes: what a write does to the numbering.
LEMMA NumberingKept ==
  ASSUME FramesAreNew, OneActive', NEW w \in Writers, pc[w] # "idle",
         \A v \in Writers : v # w => pc'[v] = pc[v],
         UNCHANGED <<frame, attempts, accepted>>
  PROVE  FramesAreNew'
BY DEF FramesAreNew

\* A frame that does not fit is dropped.
LEMMA StreamDrop ==
  ASSUME RingInv, OneActive', StreamInv, NEW w \in Writers, Drop(w)
  PROVE  StreamInv'
<1>1. UnreadIsChained'
  BY ChainUntouched DEF Drop, StreamInv, historyVars
<1>2. pc[w] # "idle" /\ pc' = [pc EXCEPT ![w] = "idle"] /\ dropped' = dropped + 1
  BY DEF Drop, Running, Unlock
<1>3. \A v \in Writers : pc'[v] = "idle"
  BY <1>2, OneIsActive DEF OneActive, RingInv, TypeOK
<1>4. BeyondHead'
  BY <1>3 DEF BeyondHead, StoredBy
<1>5. FramesAreNew'
  BY <1>3 DEF Drop, FramesAreNew, StreamInv, historyVars
<1>6. reported' <= dropped'
  BY <1>2 DEF Drop, StreamInv, historyVars, RingInv, TypeOK
<1> QED
  BY <1>1, <1>4, <1>5, <1>6 DEF StreamInv

\* What every store of a writer has in common.
LEMMA StreamStore ==
  ASSUME RingInv, OneActive', StreamInv, NEW w \in Writers, pc[w] # "idle",
         NEW len \in Nat, len <= Free,
         \A u \in Offsets :
           mem'[u] = mem[u] \/ (Offset(head) <= u /\ u < Offset(head) + len),
         UNCHANGED <<head, tail, dropped, accepted, delivered, reported, readerVars,
                     frame, attempts>>,
         NEW place, place # "idle", pc' = [pc EXCEPT ![w] = place], StoredBy(w)'
  PROVE  StreamInv'
<1>0. PICK lo \in Nat, hi \in Nat : lo <= hi /\ \E b, c : Chained(lo, hi, b, c)
  BY DEF StreamInv, UnreadIsChained
<1>1. PICK b, c : lo <= hi /\ Chained(lo, hi, b, c)
  BY <1>0
<1>2. Chained(lo, hi, b, c)'
  BY <1>1, StoreKeepsChain
<1>3. UnreadIsChained'
  BY <1>1, <1>2 DEF UnreadIsChained
<1>4. pc'[w] = place /\ \A v \in Writers : v # w => pc'[v] = pc[v]
  BY DEF RingInv, TypeOK
<1>5. BeyondHead'
  BY <1>4, OnlyTheActive
<1>6. FramesAreNew'
  BY <1>4, NumberingKept DEF StreamInv
<1> QED
  BY <1>3, <1>5, <1>6 DEF StreamInv

\* What a writer at work knows of the room it has.
LEMMA RoomToWrite ==
  ASSUME RingInv, NEW w \in Writers
  PROVE  /\ head \in Nat /\ ToEnd \in Nat /\ Offset(head) \in Offsets /\ Offset(head) \in Nat
         /\ ToEnd = Capacity - Offset(head) /\ Capacity \in Nat /\ Free \in Nat
         /\ frame[w].len \in Nat /\ frame[w].len >= FrameHeader /\ frame[w].id \in Nat
         /\ FrameHeader \in Nat /\ FrameHeader > 0 /\ ToEnd >= FrameHeader
<1>1. /\ head \in Nat /\ ToEnd \in Nat /\ Offset(head) \in Offsets
      /\ ToEnd = Capacity - Offset(head)
  BY OffsetInRange DEF ToEnd, RingInv, TypeOK
<1>2. Offset(head) \in Nat /\ Capacity \in Nat
  BY <1>1, CapacityAssumption DEF Offsets
<1>3. Free \in Nat
  BY <1>2 DEF Free, RingInv, SafeRegions, Occupancy, TypeOK
<1>4. frame[w].len \in Nat /\ frame[w].len >= FrameHeader /\ frame[w].id \in Nat
  BY DEF RingInv, TypeOK, FrameRecord
<1>5. FrameHeader \in Nat /\ FrameHeader > 0 /\ ToEnd >= FrameHeader
  BY AlignAssumption, HeaderFitsAtHead DEF HeaderAlwaysFits
<1> QED
  BY <1>1, <1>2, <1>3, <1>4, <1>5

\* A PAD is stored beyond head.
LEMMA StreamWritePad ==
  ASSUME RingInv, OneActive', StreamInv, NEW w \in Writers, WritePad(w)
  PROVE  StreamInv'
<1> DEFINE off == Offset(head)
<1>1. /\ off \in Offsets /\ off \in Nat /\ ToEnd \in Nat /\ ToEnd > 0
      /\ frame[w].len \in Nat /\ Free \in Nat /\ FrameHeader \in Nat
  BY RoomToWrite
<1>2. ToEnd <= Free
  BY <1>1 DEF WritePad, MustDrop
<1>3. \A u \in Offsets : mem'[u] = IF u = off THEN Unit("PAD", ToEnd, frame[w].id) ELSE mem[u]
  BY <1>1 DEF WritePad, Store
<1>4. /\ UNCHANGED <<head, tail, dropped, accepted, delivered, reported, readerVars,
                     frame, attempts>>
      /\ pc[w] # "idle" /\ pc' = [pc EXCEPT ![w] = "pad"]
  BY DEF WritePad, Running, historyVars
<1>5. pc'[w] = "pad"
  BY <1>4 DEF RingInv, TypeOK
<1>6. mem'[off] = Unit("PAD", ToEnd, frame[w].id) /\ ToEnd' = ToEnd /\ Offset(head)' = off
  BY <1>1, <1>3, <1>4 DEF ToEnd, Offset
<1>7. StoredBy(w)'
  BY <1>5, <1>6 DEF StoredBy, PadAt, Unit
<1>8. \A u \in Offsets : mem'[u] = mem[u] \/ (off <= u /\ u < off + ToEnd)
  BY <1>1, <1>3
<1> QED
  BY <1>1, <1>2, <1>4, <1>7, <1>8, StreamStore

\* The header of the frame, with what the store of a header covers.
LEMMA StreamWriteHeader ==
  ASSUME RingInv, OneActive', StreamInv, NEW w \in Writers, WriteHeader(w)
  PROVE  StreamInv'
<1> DEFINE off == Offset(head)
           len == frame[w].len
           id == frame[w].id
<1>1. /\ off \in Offsets /\ off \in Nat /\ ToEnd \in Nat /\ len \in Nat /\ Free \in Nat
      /\ FrameHeader \in Nat /\ FrameHeader > 0 /\ len >= FrameHeader
  BY RoomToWrite
<1>2. len <= Free
  BY <1>1 DEF WriteHeader, MustDrop
<1>3. \A u \in Offsets :
        mem'[u] = IF u = off THEN Unit("FRAME", len, id)
                  ELSE IF u \in off .. off + FrameHeader - 1 THEN Unit("BODY", 0, id)
                  ELSE mem[u]
  BY DEF WriteHeader, HeaderStored
<1>4. /\ UNCHANGED <<head, tail, dropped, accepted, delivered, reported, readerVars,
                     frame, attempts>>
      /\ pc[w] # "idle" /\ pc' = [pc EXCEPT ![w] = "body"]
  BY DEF WriteHeader, Running, historyVars
<1>5. pc'[w] = "body"
  BY <1>4 DEF RingInv, TypeOK
<1>6. mem'[off] = Unit("FRAME", len, id) /\ Offset(head)' = off
  BY <1>1, <1>3, <1>4 DEF Offset
<1>7. \A u \in Offsets : off + 1 <= u /\ u < off + FrameHeader => mem'[u] = Unit("BODY", 0, id)
  BY <1>1, <1>3 DEF Offsets
<1>8. StoredBy(w)'
  BY <1>4, <1>5, <1>6, <1>7 DEF StoredBy, HeadAt, BodyAt
<1>9. \A u \in Offsets : mem'[u] = mem[u] \/ (off <= u /\ u < off + len)
  <2> SUFFICES ASSUME NEW u \in Offsets, mem'[u] # mem[u]
               PROVE  off <= u /\ u < off + len
    OBVIOUS
  <2>1. u = off \/ u \in off .. off + FrameHeader - 1
    BY <1>3
  <2> QED
    BY <1>1, <2>1
<1> HIDE DEF off, len, id
<1> QED
  BY <1>1, <1>2, <1>4, <1>8, <1>9, StreamStore DEF off, len

\* The body, which with the header makes the frame whole.
LEMMA StreamWriteBody ==
  ASSUME RingInv, OneActive', StreamInv, NEW w \in Writers, WriteBody(w)
  PROVE  StreamInv'
<1> DEFINE off == Offset(head)
           len == frame[w].len
           id == frame[w].id
<1>1. /\ off \in Offsets /\ off \in Nat /\ len \in Nat
      /\ FrameHeader \in Nat /\ FrameHeader > 0 /\ len >= FrameHeader
  BY RoomToWrite
<1>2. len <= Free
  BY DEF WriteBody, Running, RingInv, SafeRegions, WritesInFreeSpace
<1>3. \A u \in Offsets :
        mem'[u] = IF u \in off + FrameHeader .. off + len - 1 THEN Unit("BODY", 0, id)
                  ELSE mem[u]
  BY DEF WriteBody, Store
<1>4. /\ UNCHANGED <<head, tail, dropped, accepted, delivered, reported, readerVars,
                     frame, attempts>>
      /\ pc[w] = "body" /\ pc' = [pc EXCEPT ![w] = "publish"]
  BY DEF WriteBody, Running, historyVars
<1>5. pc'[w] = "publish"
  BY <1>4 DEF RingInv, TypeOK
<1>6. /\ mem[off] = Unit("FRAME", len, id)
      /\ \A u \in Offsets : off + 1 <= u /\ u < off + FrameHeader => mem[u] = Unit("BODY", 0, id)
  BY <1>4 DEF StreamInv, BeyondHead, StoredBy, HeadAt, BodyAt
<1>7. mem'[off] = Unit("FRAME", len, id) /\ Offset(head)' = off
  BY <1>1, <1>3, <1>4, <1>6 DEF Offset
<1>8. \A u \in Offsets : off + 1 <= u /\ u < off + len => mem'[u] = Unit("BODY", 0, id)
  <2> SUFFICES ASSUME NEW u \in Offsets, off + 1 <= u, u < off + len
               PROVE  mem'[u] = Unit("BODY", 0, id)
    OBVIOUS
  <2>1. u \in Nat
    BY DEF Offsets
  <2>2. CASE u < off + FrameHeader
    BY <1>1, <1>3, <1>6, <2>1, <2>2
  <2>3. CASE u >= off + FrameHeader
    BY <1>1, <1>3, <2>1, <2>3
  <2> QED
    BY <1>1, <2>1, <2>2, <2>3
<1>9. StoredBy(w)'
  BY <1>4, <1>5, <1>7, <1>8 DEF StoredBy, FrameAt, HeadAt, BodyAt
<1>10. \A u \in Offsets : mem'[u] = mem[u] \/ (off <= u /\ u < off + len)
  <2> SUFFICES ASSUME NEW u \in Offsets, mem'[u] # mem[u]
               PROVE  off <= u /\ u < off + len
    OBVIOUS
  <2>1. u \in off + FrameHeader .. off + len - 1
    BY <1>3
  <2> QED
    BY <1>1, <2>1
<1> HIDE DEF off, len, id
<1> QED
  BY <1>1, <1>2, <1>4, <1>9, <1>10, StreamStore DEF off, len

\* A published PAD is one more segment, and no frame.
LEMMA StreamPublishPad ==
  ASSUME RingInv, OneActive', StreamInv, NEW w \in Writers, PublishPad(w)
  PROVE  StreamInv'
<1>0. PICK lo \in Nat, hi \in Nat : lo <= hi /\ \E b, c : Chained(lo, hi, b, c)
  BY DEF StreamInv, UnreadIsChained
<1>1. PICK b, c : lo <= hi /\ Chained(lo, hi, b, c)
  BY <1>0
<1>2. /\ head \in Nat /\ ToEnd \in Nat /\ Offset(head) \in Nat /\ Capacity \in Nat
      /\ ToEnd = Capacity - Offset(head) /\ ToEnd >= FrameHeader /\ FrameHeader \in Nat
  BY RoomToWrite
<1>3. /\ head' = head + ToEnd /\ pc[w] = "pad" /\ pc' = [pc EXCEPT ![w] = "check"]
      /\ UNCHANGED <<tail, mem, dropped, frame, attempts, accepted, delivered,
                     reported, readerVars>>
  BY DEF PublishPad, Running, historyVars
<1>4. mem[Offset(head)].kind = "PAD" /\ mem[Offset(head)].len = ToEnd
  BY <1>3 DEF StreamInv, BeyondHead, StoredBy, PadAt
<1>5. Len(accepted) \in Nat
  BY DEF RingInv, TypeOK
<1>6. ASSUME NEW h \in Nat, h = head, NEW g \in Nat, g = head',
             NEW m \in Nat, m = Len(accepted)
      PROVE  UnreadIsChained'
  <2>1. g - h = ToEnd /\ h + FrameHeader <= g /\ Offset(h) + (g - h) <= Capacity
    <3>1. Offset(h) = Offset(head) /\ g = h + ToEnd
      BY <1>3, <1>6
    <3> QED
      BY ONLY <1>2, <3>1, h \in Nat
  <2>2. PadAt(h, g - h)'
    BY <1>3, <1>4, <1>6, <2>1 DEF PadAt
  <2>3. Segment(h, g, m, m)'
    BY <2>1, <2>2 DEF Segment
  <2>4. m = Len(accepted') /\ \A i \in 1 .. m : accepted'[i] = accepted[i]
    BY <1>3, <1>6
  <2>5. m >= m
    OBVIOUS
  <2> QED
    BY ONLY <1>1, <1>3, <1>6, <2>3, <2>4, <2>5, PublishExtendsChain, RingInv,
            lo \in Nat, hi \in Nat,
            h \in Nat, g \in Nat, m \in Nat
<1>7. UnreadIsChained'
  <2>1. head' \in Nat
    BY <1>2, <1>3
  <2> QED
    BY ONLY <1>2, <1>5, <1>6, <2>1
<1>8. pc'[w] = "check" /\ \A v \in Writers : v # w => pc'[v] = pc[v]
  BY <1>3 DEF RingInv, TypeOK
<1>9. BeyondHead'
  BY <1>8, OnlyTheActive DEF StoredBy
<1>10. FramesAreNew'
  BY <1>3, <1>8, NumberingKept DEF StreamInv
<1> QED
  BY <1>3, <1>7, <1>9, <1>10 DEF StreamInv

\* A sequence with one more element.
LEMMA OneMoreElement ==
  ASSUME NEW s \in Seq(Nat), NEW e \in Nat, NEW r, r = Append(s, e)
  PROVE  /\ Len(s) \in Nat /\ Len(r) = Len(s) + 1 /\ r[Len(s) + 1] = e
         /\ \A i \in 1 .. Len(s) : r[i] = s[i]
         /\ \A i \in 1 .. Len(r) : i \in 1 .. Len(s) \/ i = Len(s) + 1
OBVIOUS

\* A published frame is one more segment, and the last frame accepted.
LEMMA StreamPublish ==
  ASSUME RingInv, OneActive', StreamInv, NEW w \in Writers, Publish(w)
  PROVE  StreamInv'
<1> DEFINE len == frame[w].len
           id == frame[w].id
<1>0. PICK lo \in Nat, hi \in Nat : lo <= hi /\ \E b, c : Chained(lo, hi, b, c)
  BY DEF StreamInv, UnreadIsChained
<1>1. PICK b, c : lo <= hi /\ Chained(lo, hi, b, c)
  BY <1>0
<1>2. /\ head \in Nat /\ ToEnd \in Nat /\ Offset(head) \in Nat /\ Capacity \in Nat
      /\ ToEnd = Capacity - Offset(head) /\ len \in Nat /\ len >= FrameHeader
      /\ FrameHeader \in Nat /\ id \in Nat
  BY RoomToWrite
<1>3. /\ head' = head + len /\ accepted' = Append(accepted, id)
      /\ pc[w] = "publish" /\ pc' = [pc EXCEPT ![w] = "idle"]
      /\ UNCHANGED <<tail, mem, dropped, frame, attempts, delivered, reported, readerVars>>
  BY DEF Publish, Running, Unlock
<1>4. FrameAt(head, len, id) /\ len <= ToEnd
  BY <1>3 DEF StreamInv, BeyondHead, StoredBy, RingInv, SafeRegions, WritesInFreeSpace
<1>5. /\ Len(accepted) \in Nat /\ accepted \in Seq(Nat) /\ Len(accepted') = Len(accepted) + 1
      /\ accepted'[Len(accepted) + 1] = id
      /\ \A i \in 1 .. Len(accepted) : accepted'[i] = accepted[i]
      /\ \A i \in 1 .. Len(accepted') : i \in 1 .. Len(accepted) \/ i = Len(accepted) + 1
  <2>1. accepted \in Seq(Nat)
    BY DEF RingInv, TypeOK
  <2>2. id \in Nat /\ accepted' = Append(accepted, id)
    BY <1>2, <1>3
  <2> HIDE DEF id
  <2>3. /\ Len(accepted) \in Nat /\ Len(accepted') = Len(accepted) + 1
        /\ accepted'[Len(accepted) + 1] = id
        /\ \A i \in 1 .. Len(accepted) : accepted'[i] = accepted[i]
        /\ \A i \in 1 .. Len(accepted') : i \in 1 .. Len(accepted) \/ i = Len(accepted) + 1
    BY ONLY <2>1, <2>2, OneMoreElement
  <2> QED
    BY <2>1, <2>3
<1> HIDE DEF len, id
<1>6. ASSUME NEW h \in Nat, h = head, NEW g \in Nat, g = head',
             NEW m \in Nat, m = Len(accepted), NEW k \in Nat, k = m + 1
      PROVE  UnreadIsChained'
  <2>1. g - h = len /\ h + FrameHeader <= g /\ Offset(h) + (g - h) <= Capacity
    <3>1. Offset(h) = Offset(head) /\ g = h + len
      BY <1>3, <1>6
    <3> QED
      BY ONLY <1>2, <1>4, <3>1, h \in Nat
  <2>2. k = Len(accepted') /\ accepted'[k] = id /\ k \in 1 .. Len(accepted') /\ k >= m
    <3>1. k = Len(accepted') /\ accepted'[k] = id
      BY ONLY <1>5, <1>6
    <3>2. k \in 1 .. k /\ k >= m
      BY ONLY <1>6, m \in Nat, k \in Nat
    <3> QED
      BY ONLY <3>1, <3>2
  <2>3. FrameAt(h, g - h, accepted[k])'
    BY <1>3, <1>4, <1>6, <2>1, <2>2 DEF FrameAt, HeadAt, BodyAt
  <2>4. Segment(h, g, m, k)'
    BY <1>6, <2>1, <2>2, <2>3 DEF Segment
  <2> QED
    BY <1>1, <1>3, <1>5, <1>6, <2>2, <2>4, PublishExtendsChain
<1>7. UnreadIsChained'
  <2>1. head' \in Nat
    BY <1>2, <1>3
  <2>2. Len(accepted) + 1 \in Nat
    BY <1>5
  <2> QED
    BY ONLY <1>2, <1>5, <1>6, <2>1, <2>2
<1>8. \A v \in Writers : pc'[v] = "idle"
  BY <1>3, OneIsActive DEF OneActive, RingInv, TypeOK
<1>9. BeyondHead'
  BY <1>8 DEF BeyondHead, StoredBy
<1>10. FramesAreNew'
  <2>1. id = attempts /\ attempts \in Nat /\ attempts > 0
    BY <1>3 DEF StreamInv, FramesAreNew, RingInv, TypeOK, id
  <2>2. \A i \in 1 .. Len(accepted') : accepted'[i] \in 1 .. attempts
    <3>1. \A i \in 1 .. Len(accepted) : accepted[i] \in 1 .. attempts
      BY DEF StreamInv, FramesAreNew
    <3>2. id \in 1 .. attempts
      BY <2>1
    <3> QED
      BY ONLY <1>5, <3>2, <3>1
  <2> QED
    BY <1>3, <1>8, <2>2 DEF StreamInv, FramesAreNew
<1> QED
  BY <1>3, <1>7, <1>9, <1>10 DEF StreamInv

\* Processes start and end without touching the ring; the application makes no
\* stray store here.
LEMMA StreamProcesses ==
  ASSUME RingInv, StreamInv, MaxCorruptions = 0,
         Fork \/ Kill \/ (\E u \in Offsets : Corrupt(u))
  PROVE  StreamInv'
<1>1. ~ \E u \in Offsets : Corrupt(u)
  BY DEF Corrupt, RingInv, TypeOK
<1>2. UNCHANGED <<head, tail, dropped, mem, pc, frame, attempts, readerVars, historyVars>>
  BY <1>1 DEF Fork, Kill
<1>3. UnreadIsChained'
  BY <1>2, ChainUntouched DEF StreamInv, historyVars
<1>4. BeyondHead'
  BY <1>2 DEF StreamInv, BeyondHead, StoredBy, PadAt, FrameAt, HeadAt, BodyAt, Offset, ToEnd
<1>5. FramesAreNew' /\ reported' <= dropped'
  BY <1>2 DEF StreamInv, FramesAreNew, historyVars
<1> QED
  BY <1>3, <1>4, <1>5 DEF StreamInv

-----------------------------------------------------------------------------
(* Steps of the reader.                                                    *)

\* When there is something at tail, it is the segment that begins there.
LEMMA SegmentAtTail ==
  ASSUME RingInv, NEW lo \in Nat, NEW hi \in Nat, lo <= hi,
         NEW b, NEW c, Chained(lo, hi, b, c),
         lo < hi, NEW n \in Nat, n = b[lo + 1] - tail
  PROVE  /\ n >= FrameHeader /\ Offset(tail) + n <= Capacity
         /\ b[lo + 1] = tail + n /\ c[lo] = Len(delivered)
         /\ \A j \in lo + 1 .. hi : tail + n <= b[j]
         /\ \/ c[lo + 1] = c[lo] /\ PadAt(tail, n)
            \/ /\ c[lo + 1] = c[lo] + 1 /\ c[lo + 1] \in 1 .. Len(accepted)
               /\ FrameAt(tail, n, accepted[c[lo + 1]])
<1>1. Segment(tail, b[lo + 1], c[lo], c[lo + 1]) /\ b[lo] = tail /\ c[lo] = Len(delivered)
  BY DEF Chained, Chain
<1>2. tail \in Nat /\ b[lo + 1] \in Nat /\ FrameHeader \in Nat
  BY BoundaryIsNat, AlignAssumption DEF RingInv, TypeOK, Chained
<1>3. b[lo + 1] = tail + n
  BY ONLY <1>2, n \in Nat, n = b[lo + 1] - tail
<1>4. \A j \in lo + 1 .. hi : tail + n <= b[j]
  <2>1. \A i, j \in lo .. hi : i <= j => b[i] <= b[j]
    BY DEF Chained, Chain
  <2> SUFFICES ASSUME NEW j \in lo + 1 .. hi PROVE b[lo + 1] <= b[j]
    BY <1>3
  <2>2. lo + 1 \in lo .. hi /\ j \in lo .. hi /\ lo + 1 <= j
    OBVIOUS
  <2> QED
    BY <2>1, <2>2
<1>5. n >= FrameHeader
  <2>1. tail + FrameHeader <= b[lo + 1]
    BY <1>1 DEF Segment
  <2> QED
    BY ONLY <1>2, <1>3, <2>1, n \in Nat
<1> QED
  BY <1>1, <1>3, <1>4, <1>5 DEF Segment

\* What is known of the writers' side stays true when only the reader moves.
LEMMA WritersSideKept ==
  ASSUME RingInv, StreamInv, reported' <= dropped',
         UNCHANGED <<head, mem, dropped, pc, frame, attempts, accepted>>
  PROVE  BeyondHead' /\ FramesAreNew' /\ reported' <= dropped'
<1>1. BeyondHead'
  BY DEF StreamInv, BeyondHead, StoredBy, PadAt, FrameAt, HeadAt, BodyAt, Offset, ToEnd
<1>2. FramesAreNew'
  BY DEF StreamInv, FramesAreNew
<1> QED
  BY <1>1, <1>2

\* The chain after a step that moves no cursor of the ring.
LEMMA ReaderLooks ==
  ASSUME RingInv, NEW lo \in Nat, NEW hi \in Nat, lo <= hi,
         NEW b, NEW c, Chained(lo, hi, b, c),
         UNCHANGED <<head, tail, mem, accepted, delivered>>, AtTail(lo, hi, b, c)'
  PROVE  UnreadIsChained'
<1>1. \A p, q, m, n : Segment(p, q, m, n)' <=> Segment(p, q, m, n)
  BY DEF Segment, PadAt, FrameAt, HeadAt, BodyAt, Offset
<1>2. Chain(lo, hi, b, c)'
  BY <1>1 DEF Chained, Chain
<1> QED
  BY <1>2 DEF UnreadIsChained, Chained

\* The chain after a step that leaves its first segment behind.
LEMMA ReaderMoves ==
  ASSUME RingInv, NEW lo \in Nat, NEW hi \in Nat, lo <= hi,
         NEW b, NEW c, Chained(lo, hi, b, c),
         lo < hi, tail' = b[lo + 1], Len(delivered') = c[lo + 1], rpc' = "load",
         UNCHANGED <<head, mem, accepted>>
  PROVE  UnreadIsChained'
<1>1. \A p, q, m, n : Segment(p, q, m, n)' <=> Segment(p, q, m, n)
  BY DEF Segment, PadAt, FrameAt, HeadAt, BodyAt, Offset
<1>2. /\ lo + 1 \in Nat /\ lo + 1 <= hi /\ \A i \in lo + 1 .. hi : i \in lo .. hi
      /\ \A i \in lo + 1 .. hi - 1 : i \in lo .. hi - 1
  BY ONLY lo \in Nat, hi \in Nat, lo < hi
<1>3. /\ b[hi] = head /\ c[hi] = Len(accepted)
      /\ \A i, j \in lo .. hi : i <= j => b[i] <= b[j]
      /\ \A i \in lo .. hi - 1 : Segment(b[i], b[i + 1], c[i], c[i + 1])
  BY DEF Chained, Chain
<1>4. \A i, j \in lo + 1 .. hi : i <= j => b[i] <= b[j]
  BY ONLY <1>2, <1>3
<1>5. \A i \in lo + 1 .. hi - 1 : Segment(b[i], b[i + 1], c[i], c[i + 1])'
  BY <1>1, <1>2, <1>3
<1>6. Chain(lo + 1, hi, b, c)'
  BY <1>3, <1>4, <1>5 DEF Chain
<1>7. AtTail(lo + 1, hi, b, c)'
  BY DEF AtTail
<1> QED
  BY <1>2, <1>6, <1>7 DEF UnreadIsChained, Chained

\* The timer, its cancellation, and the loading of head.
LEMMA StreamReaderIdle ==
  ASSUME RingInv, StreamInv, Tick \/ Cancel \/ LoadHead \/ Report
  PROVE  StreamInv'
<1>0. PICK lo \in Nat, hi \in Nat : lo <= hi /\ \E b, c : Chained(lo, hi, b, c)
  BY DEF StreamInv, UnreadIsChained
<1>1. PICK b, c : lo <= hi /\ Chained(lo, hi, b, c)
  BY <1>0
<1>2. b[lo] = tail /\ b[hi] = head /\ c[lo] = Len(delivered) /\ head \in Nat
  BY <1>1 DEF Chained, Chain, RingInv, TypeOK
<1>3. UNCHANGED <<head, tail, mem, dropped, pc, frame, attempts, accepted, delivered>>
  BY DEF Tick, Cancel, LoadHead, Report, writerVars, historyVars
<1>4. reported' <= dropped'
  <2>1. reported' = reported \/ reported' = Announced
    BY DEF Tick, Cancel, LoadHead, Report, historyVars
  <2>2. reported \in Nat /\ dropped \in Nat /\ reported <= dropped
    BY DEF StreamInv, RingInv, TypeOK
  <2> QED
    BY <1>3, <2>1, <2>2 DEF Announced
<1>5. AtTail(lo, hi, b, c)'
  <2>1. CASE Tick \/ Cancel \/ Report
    <3>1. rpc' \in {"load", "stopped", "tick"}
      BY <2>1 DEF Tick, Cancel, Report
    <3> QED
      BY <3>1 DEF AtTail
  <2>2. CASE LoadHead
    <3>1. /\ rpc' = "report" \/ (rpc' = "header" /\ tail # head)
          /\ rhead' = head
      BY <2>2 DEF LoadHead
    <3>2. tail # head => lo < hi
      BY <1>1, <1>2
    <3>3. lo < hi => hi \in lo + 1 .. hi
      OBVIOUS
    <3> QED
      BY <1>2, <3>1, <3>2, <3>3 DEF AtTail
  <2> QED
    BY <2>1, <2>2
<1>6. UnreadIsChained'
  BY <1>1, <1>3, <1>5, ReaderLooks
<1> QED
  BY <1>3, <1>4, <1>6, WritersSideKept DEF StreamInv

\* The header at tail is a frame's or a PAD's, and plausible.
LEMMA StreamReadHeader ==
  ASSUME RingInv, StreamInv, Resync \/ ReadHeader
  PROVE  ReadHeader /\ StreamInv'
<1>0. PICK lo \in Nat, hi \in Nat : lo <= hi /\ \E b, c : Chained(lo, hi, b, c)
  BY DEF StreamInv, UnreadIsChained
<1>1. PICK b, c : lo <= hi /\ Chained(lo, hi, b, c)
  BY <1>0
<1>2. rpc = "header"
  BY DEF Resync, ReadHeader
<1>3. lo < hi /\ \E j \in lo + 1 .. hi : b[j] = rhead
  BY <1>1, <1>2 DEF Chained, AtTail
<1>4. /\ tail \in Nat /\ b[lo + 1] \in Nat /\ Offset(tail) \in Nat /\ FrameHeader \in Nat
      /\ Capacity \in Nat /\ rhead \in Nat
  <2>1. tail \in Nat /\ rhead \in Nat
    BY DEF RingInv, TypeOK
  <2> QED
    BY <1>1, <2>1, BoundaryIsNat, OffsetIsNat, AlignAssumption DEF Chained
<1>5. b[lo + 1] - tail \in Nat
  <2>1. lo \in lo .. hi - 1 /\ b[lo] = tail
    BY <1>1, <1>3 DEF Chained, Chain
  <2> QED
    BY <1>1, <2>1, SegmentsInside DEF Chained, RingInv
<1>6. PICK n \in Nat : n = b[lo + 1] - tail
  BY <1>5
<1>7. /\ n >= FrameHeader /\ Offset(tail) + n <= Capacity
      /\ b[lo + 1] = tail + n /\ c[lo] = Len(delivered)
      /\ \A j \in lo + 1 .. hi : tail + n <= b[j]
      /\ \/ c[lo + 1] = c[lo] /\ PadAt(tail, n)
         \/ /\ c[lo + 1] = c[lo] + 1 /\ c[lo + 1] \in 1 .. Len(accepted)
            /\ FrameAt(tail, n, accepted[c[lo + 1]])
  BY ONLY <1>1, <1>3, <1>6, SegmentAtTail, RingInv, lo \in Nat, hi \in Nat, n \in Nat
<1> DEFINE hdr == mem[Offset(tail)]
<1>8. /\ hdr.len = n /\ tail + n <= rhead
      /\ \/ hdr.kind = "PAD" /\ c[lo + 1] = c[lo]
         \/ /\ hdr.kind = "FRAME" /\ c[lo + 1] = c[lo] + 1
            /\ hdr.id = accepted[c[lo + 1]]
  <2>1. tail + n <= rhead
    BY ONLY <1>3, <1>7
  <2>2. CASE c[lo + 1] = c[lo] /\ PadAt(tail, n)
    BY ONLY <2>1, <2>2 DEF PadAt
  <2>3. CASE c[lo + 1] = c[lo] + 1 /\ FrameAt(tail, n, accepted[c[lo + 1]])
    BY ONLY <2>1, <2>3 DEF FrameAt, HeadAt, Unit
  <2> QED
    BY <1>7, <2>2, <2>3
<1>9. HeadersAt(Offset(tail)) = {hdr}
  BY <1>8 DEF HeadersAt
<1>10. ~Truncated(Offset(tail), hdr)
  <2>1. Offset(tail) + FrameHeader <= Capacity
    BY ONLY <1>4, <1>7, n \in Nat
  <2> QED
    BY <1>7, <1>8, <2>1 DEF Truncated, HeaderFits, Plausible
<1>11. ~Resync
  BY <1>9, <1>10 DEF Resync
<1>12. /\ rhdr' = hdr /\ rpc' = (IF hdr.kind = "PAD" THEN "skip" ELSE "decode")
       /\ UNCHANGED <<head, tail, mem, dropped, pc, frame, attempts, accepted, delivered,
                      reported, rhead>>
  BY <1>9, <1>11 DEF ReadHeader, writerVars, historyVars
<1> HIDE DEF hdr
<1>13. AtTail(lo, hi, b, c)'
  <2>1. rhdr'.len = b[lo + 1] - b[lo]
    BY <1>1, <1>6, <1>8, <1>12 DEF Chained, Chain
  <2>2. rpc' = "skip" \/ rpc' = "decode"
    BY <1>12
  <2>3. rpc' = "skip" => c[lo + 1] = c[lo]
    BY <1>8, <1>12
  <2>4. rpc' = "decode" => c[lo + 1] = c[lo] + 1 /\ rhdr'.id = accepted[c[lo + 1]]
    BY <1>8, <1>12
  <2> QED
    BY <1>3, <1>7, <1>12, <2>1, <2>2, <2>3, <2>4 DEF AtTail
<1>14. UnreadIsChained'
  BY <1>1, <1>12, <1>13, ReaderLooks
<1>15. BeyondHead' /\ FramesAreNew' /\ reported' <= dropped'
  BY <1>12, WritersSideKept DEF StreamInv
<1> QED
  BY <1>11, <1>14, <1>15 DEF StreamInv

\* The payload of the frame at tail is whole.
LEMMA StreamDecode ==
  ASSUME RingInv, StreamInv, Decode
  PROVE  StreamInv'
<1>0. PICK lo \in Nat, hi \in Nat : lo <= hi /\ \E b, c : Chained(lo, hi, b, c)
  BY DEF StreamInv, UnreadIsChained
<1>1. PICK b, c : lo <= hi /\ Chained(lo, hi, b, c)
  BY <1>0
<1>2. rpc = "decode"
  BY DEF Decode
<1>3. /\ lo < hi /\ \E j \in lo + 1 .. hi : b[j] = rhead
      /\ rhdr.len = b[lo + 1] - b[lo] /\ c[lo + 1] = c[lo] + 1
      /\ rhdr.id = accepted[Len(delivered) + 1]
  BY <1>1, <1>2 DEF Chained, AtTail
<1>4. tail = b[lo] /\ c[lo] = Len(delivered) /\ c[lo] \in Nat /\ rhdr.len \in Nat
  BY <1>1 DEF Chained, Chain, RingInv, TypeOK, UnitRecord
<1>5. /\ c[lo + 1] \in 1 .. Len(accepted)
      /\ FrameAt(tail, rhdr.len, accepted[c[lo + 1]])
      /\ Offset(tail) + rhdr.len <= Capacity
  <2>1. PICK n \in Nat : n = rhdr.len
    BY <1>4
  <2>2. n = b[lo + 1] - tail /\ c[lo + 1] # c[lo]
    BY <1>3, <1>4, <2>1
  <2> QED
    BY ONLY <1>1, <1>3, <2>1, <2>2, SegmentAtTail, RingInv, lo \in Nat, hi \in Nat, n \in Nat
<1>6. rhdr.id # 0
  <2>1. rhdr.id \in 1 .. attempts
    BY <1>3, <1>4, <1>5 DEF StreamInv, FramesAreNew
  <2> QED
    BY <2>1
<1>7. Offset(tail) \in Nat /\ Capacity \in Nat
  BY OffsetIsNat DEF RingInv, TypeOK
<1>8. Whole(Offset(tail), rhdr)
  <2> SUFFICES ASSUME NEW u \in Offset(tail) + 1 .. Offset(tail) + rhdr.len - 1
               PROVE  mem[u] = Unit("BODY", 0, rhdr.id)
    BY <1>6 DEF Whole
  <2>1. u \in Offsets /\ Offset(tail) + 1 <= u /\ u < Offset(tail) + rhdr.len
    BY ONLY <1>4, <1>5, <1>7, u \in Offset(tail) + 1 .. Offset(tail) + rhdr.len - 1
       DEF Offsets
  <2> QED
    BY <1>3, <1>4, <1>5, <2>1 DEF FrameAt, BodyAt
<1>9. /\ rgot' = rhdr.id /\ rpc' = "release"
      /\ UNCHANGED <<head, tail, mem, dropped, pc, frame, attempts, accepted, delivered,
                     reported, rhead, rhdr>>
  BY <1>8 DEF Decode, writerVars, historyVars
<1>10. AtTail(lo, hi, b, c)'
  BY <1>3, <1>9 DEF AtTail
<1>11. UnreadIsChained'
  BY <1>1, <1>9, <1>10, ReaderLooks
<1>12. BeyondHead' /\ FramesAreNew' /\ reported' <= dropped'
  BY <1>9, WritersSideKept DEF StreamInv
<1> QED
  BY <1>11, <1>12 DEF StreamInv

\* A PAD is skipped.
LEMMA StreamSkipPad ==
  ASSUME RingInv, StreamInv, SkipPad
  PROVE  StreamInv'
<1>0. PICK lo \in Nat, hi \in Nat : lo <= hi /\ \E b, c : Chained(lo, hi, b, c)
  BY DEF StreamInv, UnreadIsChained
<1>1. PICK b, c : lo <= hi /\ Chained(lo, hi, b, c)
  BY <1>0
<1>2. /\ rpc = "skip" /\ tail' = tail + rhdr.len /\ rpc' = "load"
      /\ UNCHANGED <<head, mem, dropped, pc, frame, attempts, accepted, delivered, reported>>
  BY DEF SkipPad, writerVars, historyVars
<1>3. lo < hi /\ rhdr.len = b[lo + 1] - b[lo] /\ c[lo + 1] = c[lo]
  BY <1>1, <1>2 DEF Chained, AtTail
<1>4. tail = b[lo] /\ c[lo] = Len(delivered) /\ b[lo + 1] \in Nat /\ b[lo] \in Nat
  BY <1>1, BoundaryIsNat DEF Chained, Chain
<1>5. tail' = b[lo + 1]
  BY ONLY <1>2, <1>3, <1>4
<1>6. UnreadIsChained'
  BY <1>1, <1>2, <1>3, <1>4, <1>5, ReaderMoves
<1>7. BeyondHead' /\ FramesAreNew' /\ reported' <= dropped'
  BY <1>2, WritersSideKept DEF StreamInv
<1> QED
  BY <1>6, <1>7 DEF StreamInv

\* The frame at tail is the next one accepted, and is delivered.
LEMMA StreamRelease ==
  ASSUME RingInv, StreamInv, Release
  PROVE  /\ StreamInv'
         /\ Len(delivered) < Len(accepted)
         /\ delivered' = Append(delivered, accepted[Len(delivered) + 1])
<1>0. PICK lo \in Nat, hi \in Nat : lo <= hi /\ \E b, c : Chained(lo, hi, b, c)
  BY DEF StreamInv, UnreadIsChained
<1>1. PICK b, c : lo <= hi /\ Chained(lo, hi, b, c)
  BY <1>0
<1>2. /\ rpc = "release" /\ tail' = tail + rhdr.len /\ rpc' = "load"
      /\ delivered' = (IF rgot = Undecodable THEN delivered ELSE Append(delivered, rgot))
      /\ UNCHANGED <<head, mem, dropped, pc, frame, attempts, accepted, reported>>
  BY DEF Release, writerVars
<1>3. /\ lo < hi /\ rhdr.len = b[lo + 1] - b[lo] /\ c[lo + 1] = c[lo] + 1
      /\ rgot = accepted[Len(delivered) + 1]
  BY <1>1, <1>2 DEF Chained, AtTail
<1>4. /\ tail = b[lo] /\ c[lo] = Len(delivered) /\ b[lo + 1] \in Nat /\ b[lo] \in Nat
      /\ c[lo] \in Nat /\ rhdr.len \in Nat
  <2>1. rhdr.len \in Nat
    BY DEF RingInv, TypeOK, UnitRecord
  <2> QED
    BY <1>1, <2>1, BoundaryIsNat DEF Chained, Chain
<1>5. tail' = b[lo + 1]
  BY ONLY <1>2, <1>3, <1>4
<1>6. c[lo + 1] \in 1 .. Len(accepted) /\ Len(accepted) \in Nat
  <2>1. PICK n \in Nat : n = rhdr.len
    BY <1>4
  <2>2. n = b[lo + 1] - tail /\ c[lo + 1] # c[lo]
    BY <1>3, <1>4, <2>1
  <2>3. Len(accepted) \in Nat
    BY DEF RingInv, TypeOK
  <2> QED
    BY ONLY <1>1, <1>3, <2>2, <2>3, SegmentAtTail, RingInv, lo \in Nat, hi \in Nat, n \in Nat
<1>7. rgot \in 1 .. attempts
  BY <1>3, <1>4, <1>6 DEF StreamInv, FramesAreNew
<1>8. rgot # Undecodable /\ rgot \in Nat
  BY <1>7 DEF Undecodable, RingInv, TypeOK
<1>9. delivered' = Append(delivered, rgot) /\ Len(delivered') = Len(delivered) + 1
  <2>1. delivered \in Seq(Nat)
    BY DEF RingInv, TypeOK
  <2> QED
    BY <1>2, <1>8, <2>1, OneMoreElement
<1>10. UnreadIsChained'
  BY <1>1, <1>2, <1>3, <1>4, <1>5, <1>9, ReaderMoves
<1>11. BeyondHead' /\ FramesAreNew' /\ reported' <= dropped'
  BY <1>2, WritersSideKept DEF StreamInv
<1>12. Len(delivered) < Len(accepted)
  BY ONLY <1>3, <1>4, <1>6
<1> QED
  BY <1>3, <1>9, <1>10, <1>11, <1>12 DEF StreamInv

-----------------------------------------------------------------------------
(* The refinement.                                                         *)

\* At the start the chain is empty, and nothing is stored beyond head.
LEMMA StreamInit == Init => StreamInv
<1> SUFFICES ASSUME Init PROVE StreamInv
  OBVIOUS
<1>1. \A w \in Writers : pc[w] = "idle"
  BY DEF Init
<1>2. BeyondHead /\ FramesAreNew /\ reported <= dropped
  BY <1>1, BoundAssumption DEF Init, BeyondHead, StoredBy, FramesAreNew
<1>3. UnreadIsChained
  <2> DEFINE zero == [i \in Nat |-> 0]
  <2>1. Boundaries(zero) /\ zero[0] = 0
    BY DEF Boundaries
  <2> HIDE DEF zero
  <2>2. Chained(0, 0, zero, zero)
    BY <2>1 DEF Init, Chained, Chain, AtTail
  <2> QED
    BY <2>2 DEF UnreadIsChained
<1> QED
  BY <1>2, <1>3 DEF StreamInv

\* StreamInv is preserved by every step.
LEMMA StreamStepKeeps ==
  ASSUME MaxCorruptions = 0, RingInv, OneActive', StreamInv, [Next]_vars
  PROVE  StreamInv'
<1>1. CASE UNCHANGED vars
  <2>1. UnreadIsChained'
    BY <1>1, ChainUntouched DEF StreamInv, vars, writerVars, historyVars
  <2>2. BeyondHead'
    BY <1>1 DEF vars, writerVars, StreamInv, BeyondHead, StoredBy, PadAt, FrameAt,
                HeadAt, BodyAt, Offset, ToEnd
  <2>3. FramesAreNew' /\ reported' <= dropped'
    BY <1>1 DEF vars, writerVars, historyVars, StreamInv, FramesAreNew
  <2> QED
    BY <2>1, <2>2, <2>3 DEF StreamInv
<1>2. ASSUME NEW w \in Writers, Lock(w) PROVE StreamInv'
  BY <1>2, StreamLock
<1>3. ASSUME NEW w \in Writers, WriterStep(w) PROVE StreamInv'
  BY <1>3, StreamDrop, StreamWritePad, StreamPublishPad, StreamWriteHeader,
     StreamWriteBody, StreamPublish DEF WriterStep
<1>4. CASE Fork \/ Kill \/ (\E u \in Offsets : Corrupt(u))
  BY <1>4, StreamProcesses
<1>5. CASE Drain \/ Cancel
  BY <1>5, StreamReaderIdle, StreamReadHeader, StreamDecode, StreamSkipPad,
     StreamRelease DEF Drain
<1> QED
  BY <1>1, <1>2, <1>3, <1>4, <1>5 DEF Next

\* A step of the ring is a step of the stream, or changes nothing of it.
LEMMA StreamStepMaps ==
  ASSUME MaxCorruptions = 0, RingInv, StreamInv, [Next]_vars
  PROVE  [Stream!Next]_(Stream!vars)
<1> DEFINE Stutter == UNCHANGED <<accepted, delivered, dropped, reported>>
<1>0. Stutter => UNCHANGED Stream!vars
  BY DEF Stream!vars
<1>1. ASSUME NEW w \in Writers, Drop(w) PROVE Stream!Refuse
  BY <1>1 DEF Drop, Stream!Refuse, historyVars
<1>2. ASSUME NEW w \in Writers, Publish(w)
      PROVE  \E f \in 1 .. MaxWrites : Stream!Accept(f)
  <2>1. pc[w] # "idle"
    BY <1>2 DEF Publish, Running
  <2>2. /\ frame[w].id = attempts /\ attempts > 0 /\ attempts <= MaxWrites
        /\ \A i \in 1 .. Len(accepted) : accepted[i] # attempts
    BY <2>1 DEF StreamInv, FramesAreNew
  <2>3. attempts \in 1 .. MaxWrites /\ DOMAIN accepted = 1 .. Len(accepted)
    BY <2>2, BoundAssumption DEF RingInv, TypeOK
  <2>4. Stream!Accept(attempts)
    BY <1>2, <2>2, <2>3 DEF Publish, Stream!Accept
  <2> QED
    BY <2>3, <2>4
<1>3. ASSUME Release PROVE Stream!Deliver
  BY <1>3, StreamRelease DEF Release, Stream!Deliver, writerVars
<1>4. ASSUME Report PROVE Stream!Report \/ Stutter
  BY <1>4 DEF Report, Announced, Stream!Report
<1>5. ASSUME NEW w \in Writers, Lock(w) \/ (WriterStep(w) /\ ~Drop(w) /\ ~Publish(w))
      PROVE  Stutter
  BY <1>5 DEF Lock, WriterStep, WritePad, PublishPad, WriteHeader, WriteBody, historyVars
<1>6. ASSUME Fork \/ Kill \/ Cancel \/ (\E u \in Offsets : Corrupt(u)) PROVE Stutter
  BY <1>6 DEF Fork, Kill, Cancel, Corrupt, historyVars
<1>7. ASSUME Drain, ~Release, ~Report PROVE Stutter
  BY <1>7 DEF Drain, Tick, LoadHead, Resync, ReadHeader, SkipPad, Decode, historyVars
<1>8. CASE UNCHANGED vars
  BY <1>8 DEF vars, historyVars, Stream!vars
<1> HIDE DEF Stutter
<1>9. CASE Next
  <2>1. CASE \E w \in Writers : Lock(w) \/ WriterStep(w)
    BY <2>1, <1>0, <1>1, <1>2, <1>5 DEF Stream!Next
  <2>2. CASE Drain
    BY <2>2, <1>0, <1>3, <1>4, <1>7 DEF Stream!Next
  <2> QED
    BY <1>9, <2>1, <2>2, <1>0, <1>6 DEF Next
<1> QED
  BY <1>8, <1>9

\* At most one attempt is under way, and it is counted.
Active == {w \in Writers : pc[w] # "idle"}

\* The set of active writers after each kind of step, as a cardinality.
LEMMA ActiveCount ==
  ASSUME OneActive
  PROVE  /\ Active = {} => Cardinality(Active) = 0
         /\ Active # {} => Cardinality(Active) = 1
<1>1. CASE Active = {}
  BY <1>1, FS_EmptySet
<1>2. CASE Active # {}
  <2>1. PICK w : Active = {w}
    BY <1>2 DEF Active, OneActive
  <2> QED
    BY <1>2, <2>1, FS_Singleton
<1> QED
  BY <1>1, <1>2

\* Whether somebody writes, as a number.
Underway == IF \E w \in Writers : pc[w] # "idle" THEN 1 ELSE 0

\* The active writers number one or none.
LEMMA UnderwayCounts == OneActive => Cardinality(Active) = Underway
<1> SUFFICES ASSUME OneActive PROVE Cardinality(Active) = Underway
  OBVIOUS
<1>1. (Active # {}) <=> (\E w \in Writers : pc[w] # "idle")
  BY DEF Active
<1> QED
  BY <1>1, ActiveCount DEF Underway

AllCounted == attempts = Len(accepted) + dropped + Underway

\* Taking the lock opens an attempt; publishing or dropping its frame closes it.
LEMMA AllCountedStep ==
  ASSUME RingInv, OneActive', AllCounted, [Next]_vars
  PROVE  AllCounted'
<1>1. /\ attempts \in Nat /\ dropped \in Nat /\ accepted \in Seq(Nat)
      /\ Len(accepted) \in Nat
  BY DEF RingInv, TypeOK
<1>2. ASSUME UNCHANGED <<attempts, accepted, dropped, pc>> PROVE AllCounted'
  BY <1>2 DEF AllCounted, Underway
<1>3. ASSUME NEW w \in Writers, Lock(w) PROVE AllCounted'
  <2>1. pc'[w] # "idle"
    BY <1>3 DEF Lock, RingInv, TypeOK
  <2>2. \A v \in Writers : pc[v] = "idle"
    BY <1>3, <2>1 DEF OneActive, Lock, RingInv, TypeOK
  <2>3. Underway = 0 /\ Underway' = 1
    BY <2>1, <2>2 DEF Underway
  <2>4. attempts' = attempts + 1 /\ accepted' = accepted /\ dropped' = dropped
    BY <1>3 DEF Lock, historyVars
  <2> QED
    BY <1>1, <2>3, <2>4 DEF AllCounted
<1>4. ASSUME NEW w \in Writers, Drop(w) \/ Publish(w) PROVE AllCounted'
  <2>1. pc[w] # "idle" /\ pc' = [pc EXCEPT ![w] = "idle"] /\ attempts' = attempts
    BY <1>4 DEF Drop, Publish, Running, Unlock
  <2>2. \A v \in Writers : pc'[v] = "idle"
    BY <2>1, OneIsActive DEF OneActive, RingInv, TypeOK
  <2>3. Underway = 1 /\ Underway' = 0
    BY <2>1, <2>2 DEF Underway
  <2>4. Len(accepted') + dropped' = Len(accepted) + dropped + 1
    <3>1. CASE Drop(w)
      BY <1>1, <3>1 DEF Drop, historyVars
    <3>2. CASE Publish(w)
      <4>1. frame[w].id \in Nat
        BY DEF RingInv, TypeOK, FrameRecord
      <4>2. accepted' = Append(accepted, frame[w].id) /\ dropped' = dropped
        BY <3>2 DEF Publish
      <4>3. Len(accepted') = Len(accepted) + 1
        BY <1>1, <4>1, <4>2, OneMoreElement
      <4> QED
        BY <1>1, <4>2, <4>3
    <3> QED
      BY <1>4, <3>1, <3>2
  <2>5. attempts = Len(accepted) + dropped + 1
    BY <2>3 DEF AllCounted
  <2> QED
    BY <2>1, <2>3, <2>4, <2>5 DEF AllCounted
<1>5. ASSUME NEW w \in Writers, WritePad(w) \/ PublishPad(w) \/ WriteHeader(w) \/ WriteBody(w)
      PROVE  AllCounted'
  <2>1. pc[w] # "idle" /\ pc'[w] # "idle"
    BY <1>5 DEF WritePad, PublishPad, WriteHeader, WriteBody, Running, RingInv, TypeOK
  <2>2. Underway = 1 /\ Underway' = 1
    BY <2>1 DEF Underway
  <2>3. UNCHANGED <<attempts, accepted, dropped>>
    BY <1>5 DEF WritePad, PublishPad, WriteHeader, WriteBody, historyVars
  <2> QED
    BY <2>2, <2>3 DEF AllCounted
<1>6. CASE Fork \/ Kill \/ Cancel \/ (\E u \in Offsets : Corrupt(u))
  <2>1. UNCHANGED <<attempts, accepted, dropped, pc>>
    BY <1>6 DEF Fork, Kill, Cancel, Corrupt, historyVars, writerVars
  <2> QED
    BY <1>2, <2>1
<1>7. CASE Drain
  <2>1. UNCHANGED <<attempts, accepted, dropped, pc>>
    BY <1>7 DEF Drain, Tick, LoadHead, Resync, ReadHeader, SkipPad, Decode, Release,
                Report, historyVars, writerVars
  <2> QED
    BY <1>2, <2>1
<1>8. CASE UNCHANGED vars
  BY <1>2, <1>8 DEF vars, writerVars, historyVars
<1> QED
  BY <1>3, <1>4, <1>5, <1>6, <1>7, <1>8 DEF Next, WriterStep

\* The regions are safe and aligned at every step.
LEMMA RingInvAlways == Spec => [](RingInv /\ OneActive)
<1>1. RingInv => OneActive
  BY OneIsActive
<1>2. TypeOK /\ SafeRegions /\ MultipleWriter => RingInv
  BY DEF RingInv
<1> QED
  BY <1>1, <1>2, RegionsAreSafe, TypeCorrect, AlignedInit, AlignmentStep, PTL DEF Spec

\* Every attempt is published, dropped and counted, or still under way --
\* also when processes are killed in the middle and under stray stores.
THEOREM NothingLostSilentlyHolds == Spec => []NothingLostSilently
<1>1. Init => AllCounted
  <2> SUFFICES ASSUME Init PROVE AllCounted
    OBVIOUS
  <2>1. Underway = 0
    BY DEF Init, Underway
  <2> QED
    BY <2>1 DEF Init, AllCounted
<1>2. OneActive /\ AllCounted => NothingLostSilently
  BY UnderwayCounts DEF AllCounted, NothingLostSilently, Active
<1> QED
  BY <1>1, <1>2, RingInvAlways, AllCountedStep, PTL DEF Spec

\* The ring is a lossy FIFO stream: frames come out whole, once each and in
\* the order they were published, PADs, wrap-arounds, forks and kills
\* notwithstanding, and nothing is announced that was not dropped.  Only a
\* stray store of the application can make it otherwise.
THEOREM RingImplementsStream ==
  ASSUME MaxCorruptions = 0
  PROVE  Spec => StreamSpec
<1>1. Init => Stream!Init
  BY DEF Init, Stream!Init
<1>2. RingInv /\ OneActive' /\ StreamInv /\ [Next]_vars => StreamInv'
  BY StreamStepKeeps
<1>3. RingInv /\ StreamInv /\ [Next]_vars => [Stream!Next]_(Stream!vars)
  BY StreamStepMaps
<1> QED
  BY <1>1, <1>2, <1>3, StreamInit, RingInvAlways, NothingLostSilentlyHolds, PTL
  DEF Spec, Stream!Spec, StreamSpec

=============================================================================
