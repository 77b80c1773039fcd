-------------------------------- MODULE Ring --------------------------------
(***************************************************************************)
(* The shared-memory ring between a traced process and the daemon.         *)
(*                                                                         *)
(* Writers are threads of the traced process (metal-hook/src/ring.c,       *)
(* mirrored by smeltr-metal-ring/src/writer.rs); they serialise on an      *)
(* unfair lock of their process.  A forked child shares the mapping.  The  *)
(* reader is the daemon's metal-hook probe, which drains the ring on every *)
(* 10 ms tick (smeltr-metal-ring/src/reader.rs and                         *)
(* smeltr-probes-metal-hook/src/lib.rs).                                   *)
(*                                                                         *)
(* Only head, tail and dropped are atomic; frame bytes are plain memory,   *)
(* so writing a header, writing a payload and publishing head are separate *)
(* steps, and so are loading head, reading a header, decoding a payload    *)
(* and releasing tail.                                                     *)
(*                                                                         *)
(* Positions and lengths are in units of 8 bytes.  head and tail are the   *)
(* monotone u64 counters of the code (2^64 bytes are never written).       *)
(***************************************************************************)
EXTENDS Integers, Sequences, FiniteSets

CONSTANTS
  Threads,         \* threads of the traced process that write frames
  Child,           \* the only thread of a process forked from it
  NoOne,           \* holder of a free lock
  Capacity,        \* ring size
  FrameHeader,     \* size of a frame header (FRAME_HEADER_BYTES)
  FrameAlign,      \* frame lengths are rounded up to this (FRAME_ALIGN)
  Payloads,        \* payload sizes the hook writes
  MaxWrites,       \* bound: frames the application attempts to write
  MaxCorruptions   \* bound: stray stores of the application into the mapping

ASSUME CapacityAssumption == Capacity \in Nat \ {0}
ASSUME AlignAssumption ==
  /\ FrameAlign \in Nat \ {0}
  /\ FrameHeader \in Nat \ {0}
  /\ FrameHeader <= FrameAlign          \* wire.rs asserts it at compile time
  /\ Capacity % FrameAlign = 0          \* both are powers of two
ASSUME PayloadAssumption == Payloads \subseteq Nat
ASSUME BoundAssumption == MaxWrites \in Nat /\ MaxCorruptions \in Nat
ASSUME WriterAssumption == /\ Child \notin Threads
                           /\ NoOne \notin Threads \cup {Child}

VARIABLES
  head, tail, dropped,  \* the atomic words of RingHeader
  mem,       \* data area: what each 8-byte unit holds
  alive,     \* the processes now running
  writable,  \* per process: smeltr_ring.writable
  lock,      \* per process: holder of smeltr_ring.lock
  pc,        \* per writer: position in write_frame_locked
  frame,     \* per writer: the frame being written
  attempts,  \* frames attempted so far; also the identity of the last one
  rpc,       \* the probe: position in RingDrain::drain / RingReader::next
  rhead,     \* the head it loaded last
  rhdr,      \* the header it read at tail
  rgot,      \* what the payload decoded to
  accepted, delivered,  \* history: frames published, frames put in the session
  reported,  \* RingDrain.last_dropped: drops announced in the session
  corruptions

writerVars == <<alive, writable, lock, pc, frame, attempts>>
readerVars == <<rpc, rhead, rhdr, rgot>>
historyVars == <<accepted, delivered, reported, corruptions>>
vars == <<head, tail, dropped, mem, writerVars, readerVars, historyVars>>

Procs == {"app", "child"}
Writers == Threads \cup {Child}
Proc(w) == IF w = Child THEN "child" ELSE "app"
Offsets == 0 .. Capacity - 1

\* Mutant: frames are not padded to the alignment, as before #113.
RoundAlignToUnit(n) == n

\* round_align
RoundAlign(n) == ((n + FrameAlign - 1) \div FrameAlign) * FrameAlign

FrameLen(payload) == RoundAlign(FrameHeader + payload)

\* Contents of a unit.  FRAME and PAD mark the first unit of a header, BODY
\* any other unit of the frame whose identity it carries, JUNK a stray store.
Unit(kind, len, id) == [kind |-> kind, len |-> len, id |-> id]
Junk == Unit("JUNK", 0, 0)
NoHeader == Unit("PAD", 0, 0)
Store(first, last, unit) ==
  [u \in Offsets |-> IF u \in first .. last THEN unit ELSE mem[u]]

(***************************************************************************)
(* Writer: smeltr_write_* -> write_frame -> write_frame_locked.            *)
(***************************************************************************)
Offset(position) == position % Capacity
ToEnd == Capacity - Offset(head)
Free == Capacity - (head - tail)

\* Mutant: write_frame does not take the lock, as before #113.
LockNotTaken(w) == TRUE
LockFree(w) == lock[Proc(w)] = NoOne

\* write_frame: take the process's lock; a ring that is not writable is left
\* alone.
Lock(w) ==
  /\ pc[w] = "idle"
  /\ Proc(w) \in alive
  /\ LockFree(w)
  /\ writable[Proc(w)]
  /\ attempts < MaxWrites
  /\ \E p \in Payloads :
       frame' = [frame EXCEPT ![w] = [id |-> attempts + 1, len |-> FrameLen(p)]]
  /\ attempts' = attempts + 1
  /\ lock' = [lock EXCEPT ![Proc(w)] = w]
  /\ pc' = [pc EXCEPT ![w] = "check"]
  /\ UNCHANGED <<head, tail, dropped, mem, alive, writable, readerVars,
                 historyVars>>

Unlock(w) ==
  /\ pc' = [pc EXCEPT ![w] = "idle"]
  /\ lock' = [lock EXCEPT ![Proc(w)] = NoOne]

\* Load head and tail, then choose: no room, no room before the end of the
\* data area, or write.

MustDrop(w) ==
  \/ frame[w].len > Free
  \/ frame[w].len > ToEnd /\ ToEnd < FrameHeader

Running(w, at) == pc[w] = at /\ Proc(w) \in alive

Drop(w) ==
  /\ Running(w, "check")
  /\ MustDrop(w)
  /\ dropped' = dropped + 1
  /\ Unlock(w)
  /\ UNCHANGED <<head, tail, mem, alive, writable, frame, attempts, readerVars,
                 historyVars>>

\* The frame does not fit before the end: write a PAD header there ...
WritePad(w) ==
  /\ Running(w, "check")
  /\ ~MustDrop(w)
  /\ frame[w].len > ToEnd
  /\ mem' = Store(Offset(head), Offset(head), Unit("PAD", ToEnd, frame[w].id))
  /\ pc' = [pc EXCEPT ![w] = "pad"]
  /\ UNCHANGED <<head, tail, dropped, alive, writable, lock, frame, attempts,
                 readerVars, historyVars>>

\* ... publish it, and try the frame again at the start of the data area.
PublishPad(w) ==
  /\ Running(w, "pad")
  /\ head' = head + ToEnd
  /\ pc' = [pc EXCEPT ![w] = "check"]
  /\ UNCHANGED <<tail, dropped, mem, alive, writable, lock, frame, attempts,
                 readerVars, historyVars>>

HeaderStored(w) ==
  LET off == Offset(head)
  IN  [u \in Offsets |->
         IF u = off THEN Unit("FRAME", frame[w].len, frame[w].id)
         ELSE IF u \in off .. off + FrameHeader - 1
              THEN Unit("BODY", 0, frame[w].id) ELSE mem[u]]

WriteHeader(w) ==
  /\ Running(w, "check")
  /\ ~MustDrop(w)
  /\ frame[w].len <= ToEnd
  /\ mem' = HeaderStored(w)
  /\ pc' = [pc EXCEPT ![w] = "body"]
  /\ UNCHANGED <<head, tail, dropped, alive, writable, lock, frame, attempts,
                 readerVars, historyVars>>

WriteBody(w) ==
  /\ Running(w, "body")
  /\ mem' = Store(Offset(head) + FrameHeader, Offset(head) + frame[w].len - 1,
                  Unit("BODY", 0, frame[w].id))
  /\ pc' = [pc EXCEPT ![w] = "publish"]
  /\ UNCHANGED <<head, tail, dropped, alive, writable, lock, frame, attempts,
                 readerVars, historyVars>>

Publish(w) ==
  /\ Running(w, "publish")
  /\ head' = head + frame[w].len
  /\ accepted' = Append(accepted, frame[w].id)
  /\ Unlock(w)
  /\ UNCHANGED <<tail, dropped, mem, alive, writable, frame, attempts,
                 readerVars, delivered, reported, corruptions>>

WriterStep(w) ==
  \/ Drop(w) \/ WritePad(w) \/ PublishPad(w)
  \/ WriteHeader(w) \/ WriteBody(w) \/ Publish(w)

(***************************************************************************)
(* Processes.                                                              *)
(***************************************************************************)

\* ring_atfork_child: reset the child's copy of the lock and take its right
\* to write.
AtforkChild ==
  /\ lock' = [lock EXCEPT !["child"] = NoOne]
  /\ writable' = [writable EXCEPT !["child"] = FALSE]

\* The application forks.  The child has only the forking thread, which is
\* not inside write_frame.
Fork ==
  /\ "app" \in alive /\ "child" \notin alive
  /\ alive' = alive \cup {"child"}
  /\ AtforkChild
  /\ UNCHANGED <<head, tail, dropped, mem, pc, frame, attempts, readerVars,
                 historyVars>>

\* The application is killed (a GPU crash, SIGKILL), perhaps inside a write.
Kill ==
  /\ "app" \in alive
  /\ alive' = alive \ {"app"}
  /\ UNCHANGED <<head, tail, dropped, mem, writable, lock, pc, frame, attempts,
                 readerVars, historyVars>>

\* A stray store of the application hits the start of an unread frame.
Corrupt(u) ==
  /\ corruptions < MaxCorruptions
  /\ "app" \in alive
  /\ mem[u].kind \in {"FRAME", "PAD"}
  /\ mem' = [mem EXCEPT ![u] = Junk]
  /\ corruptions' = corruptions + 1
  /\ UNCHANGED <<head, tail, dropped, writerVars, readerVars, accepted,
                 delivered, reported>>

(***************************************************************************)
(* Reader: RingDrain::drain calling RingReader::next until it is empty.    *)
(***************************************************************************)
Tick ==
  /\ rpc = "tick"
  /\ rpc' = "load"
  /\ UNCHANGED <<head, tail, dropped, mem, writerVars, rhead, rhdr, rgot,
                 historyVars>>

\* The probe is cancelled between two ticks; it does not drain again.
Cancel ==
  /\ rpc = "tick"
  /\ rpc' = "stopped"
  /\ UNCHANGED <<head, tail, dropped, mem, writerVars, rhead, rhdr, rgot,
                 historyVars>>

LoadHead ==
  /\ rpc = "load"
  /\ rhead' = head
  /\ rpc' = IF tail = head THEN "report" ELSE "header"
  /\ UNCHANGED <<head, tail, dropped, mem, writerVars, rhdr, rgot, historyVars>>

\* What the bytes at an offset say when read as a header: bytes that are not
\* one say anything.
HeadersAt(off) ==
  IF mem[off].kind \in {"FRAME", "PAD"}
  THEN {mem[off]}
  ELSE {Unit(kind, len, 0) : kind \in {"FRAME", "PAD"}, len \in 0 .. Capacity + 1}

HeaderFits(off) == off + FrameHeader <= Capacity

\* Mutant: the frame is not compared with what is published.
PlausibleBeyondHead(off, hdr) ==
  hdr.len >= FrameHeader /\ off + hdr.len <= Capacity

\* Mutant: a frame ending exactly at the end of the data area is refused.
PlausibleBeforeEnd(off, hdr) ==
  /\ hdr.len >= FrameHeader
  /\ off + hdr.len < Capacity
  /\ tail + hdr.len <= rhead

Plausible(off, hdr) ==
  /\ hdr.len >= FrameHeader
  /\ off + hdr.len <= Capacity
  /\ tail + hdr.len <= rhead

Truncated(off, hdr) == ~HeaderFits(off) \/ ~Plausible(off, hdr)

\* Mutant: the error is returned and the cursor stays, as before #113.
ResyncInPlace == tail
ResyncTo == rhead

\* An implausible frame: give up everything published when head was loaded.
Resync ==
  /\ rpc = "header"
  /\ \E hdr \in HeadersAt(Offset(tail)) : Truncated(Offset(tail), hdr)
  /\ tail' = ResyncTo
  /\ rpc' = "load"
  /\ UNCHANGED <<head, dropped, mem, writerVars, rhead, rhdr, rgot, historyVars>>

ReadHeader ==
  /\ rpc = "header"
  /\ \E hdr \in HeadersAt(Offset(tail)) :
       /\ ~Truncated(Offset(tail), hdr)
       /\ rhdr' = hdr
       /\ rpc' = IF hdr.kind = "PAD" THEN "skip" ELSE "decode"
  /\ UNCHANGED <<head, tail, dropped, mem, writerVars, rhead, rgot, historyVars>>

SkipPad ==
  /\ rpc = "skip"
  /\ tail' = tail + rhdr.len
  /\ rpc' = "load"
  /\ UNCHANGED <<head, dropped, mem, writerVars, rhead, rhdr, rgot, historyVars>>

\* decode_frame: a whole frame decodes to its identity; torn or foreign bytes
\* decode to an error (0) or to some frame nobody wrote (MaxWrites + 1).
Undecodable == 0
Garbage == MaxWrites + 1

Whole(off, hdr) ==
  /\ hdr.id # 0
  /\ \A u \in off + 1 .. off + hdr.len - 1 : mem[u] = Unit("BODY", 0, hdr.id)

Decode ==
  /\ rpc = "decode"
  /\ rgot' \in IF Whole(Offset(tail), rhdr) THEN {rhdr.id}
               ELSE {Undecodable, Garbage}
  /\ rpc' = "release"
  /\ UNCHANGED <<head, tail, dropped, mem, writerVars, rhead, rhdr, historyVars>>

\* Move tail past the frame, then hand it to the session; a frame that does
\* not decode is skipped.
Release ==
  /\ rpc = "release"
  /\ tail' = tail + rhdr.len
  /\ delivered' = IF rgot = Undecodable THEN delivered ELSE Append(delivered, rgot)
  /\ rpc' = "load"
  /\ UNCHANGED <<head, dropped, mem, writerVars, rhead, rhdr, rgot, accepted,
                 reported, corruptions>>

\* Mutant: only the first batch of drops is announced.
AnnouncedOnce == IF reported = 0 THEN dropped ELSE reported
Announced == IF dropped > reported THEN dropped ELSE reported

\* The ring is empty: announce what the writer dropped since the last time.
Report ==
  /\ rpc = "report"
  /\ reported' = Announced
  /\ rpc' = "tick"
  /\ UNCHANGED <<head, tail, dropped, mem, writerVars, rhead, rhdr, rgot,
                 accepted, delivered, corruptions>>

Drain ==
  \/ Tick \/ LoadHead \/ Resync \/ ReadHeader \/ SkipPad \/ Decode \/ Release
  \/ Report

-----------------------------------------------------------------------------
Init ==
  /\ head = 0 /\ tail = 0 /\ dropped = 0
  /\ mem = [u \in Offsets |-> Junk]
  /\ alive = {"app"}
  /\ writable = [p \in Procs |-> TRUE]
  /\ lock = [p \in Procs |-> NoOne]
  /\ pc = [w \in Writers |-> "idle"]
  /\ frame = [w \in Writers |-> [id |-> 0, len |-> FrameLen(0)]]
  /\ attempts = 0
  /\ rpc = "tick" /\ rhead = 0 /\ rhdr = NoHeader /\ rgot = Undecodable
  /\ accepted = <<>> /\ delivered = <<>> /\ reported = 0 /\ corruptions = 0

Next ==
  \/ \E w \in Writers : Lock(w) \/ WriterStep(w)
  \/ Fork
  \/ Kill
  \/ \E u \in Offsets : Corrupt(u)
  \/ Drain
  \/ Cancel

Spec == Init /\ [][Next]_vars

(***************************************************************************)
(* The probe is polled every 10 ms for as long as it is not cancelled, and *)
(* a thread inside write_frame runs on (it holds a lock, waits for         *)
(* nothing).  Nothing makes an application write, fork or die.             *)
(***************************************************************************)
Fairness ==
  /\ WF_vars(Drain)
  /\ \A w \in Writers : WF_vars(WriterStep(w))

FairSpec == Spec /\ Fairness

(***************************************************************************)
(* Properties.                                                             *)
(***************************************************************************)
FrameRecord == [id : Nat, len : Nat]
UnitRecord == [kind : {"FRAME", "PAD", "BODY", "JUNK"}, len : Nat, id : Nat]

\* The type invariant: counters are naturals, every program counter is a place
\* in write_frame_locked or in the drain loop, a frame holds its header.
TypeOK ==
  /\ head \in Nat /\ tail \in Nat /\ dropped \in Nat
  /\ mem \in [Offsets -> UnitRecord]
  /\ alive \subseteq Procs
  /\ writable \in [Procs -> BOOLEAN]
  /\ lock \in [Procs -> Writers \cup {NoOne}]
  /\ pc \in [Writers -> {"idle", "check", "pad", "body", "publish"}]
  /\ frame \in [Writers -> FrameRecord]
  /\ \A w \in Writers : frame[w].len >= FrameHeader
  /\ attempts \in Nat
  /\ rpc \in {"tick", "load", "header", "skip", "decode", "release", "report",
              "stopped"}
  /\ rhead \in Nat
  /\ rhdr \in UnitRecord
  /\ rgot \in Nat
  /\ accepted \in Seq(Nat) /\ delivered \in Seq(Nat)
  /\ reported \in Nat
  /\ corruptions \in Nat

Writing(w) == pc[w] \in {"pad", "body", "publish"}

\* Never more unread bytes than the ring holds and never a tail past head,
\* whatever the application scribbles: the writer computes
\* capacity - (head - tail) in u64 (ring.c:168, writer.rs:78), which would
\* wrap, and the reader trusts tail .. head to be published.
Occupancy ==
  /\ tail <= head
  /\ head - tail <= Capacity
  /\ rpc \in {"header", "skip", "decode", "release"} =>
       tail <= rhead /\ rhead <= head

\* A frame being written lies in space the reader has released and does not
\* cross the end of the data area (ring.c:166-176), although tail moves and
\* PADs are published while it is being written.
WritesInFreeSpace ==
  \A w \in Writers :
    /\ pc[w] = "pad" => ToEnd <= Free
    /\ pc[w] \in {"body", "publish"} => frame[w].len <= Free /\ frame[w].len <= ToEnd

\* One writer in the data area at a time, over all processes that share the
\* mapping: the lock is per process, and the flag set at fork is what keeps
\* the child out (ring.c:26-37, 46-56).
ExclusiveWriter ==
  \A v, w \in Writers : Writing(v) /\ Writing(w) => v = w

\* What ties the locks to the program counters and the reader's cursor to what
\* it has loaded; with the three invariants above it is inductive.
LockDiscipline ==
  /\ \A w \in Writers : pc[w] # "idle" => lock[Proc(w)] = w
  /\ pc[Child] = "idle"
  /\ "child" \in alive => ~writable["child"]

ReaderCursor ==
  /\ rpc \in {"header", "skip", "decode", "release"} =>
       tail <= rhead /\ rhead <= head
  /\ rpc \in {"skip", "decode", "release"} => tail + rhdr.len <= rhead

\* Regions are safe, at any moment and under stray stores: one writer holds
\* the data area, in space the reader has released, and the cursors stay in
\* order and within one lap.
SafeRegions ==
  LockDiscipline /\ ReaderCursor /\ Occupancy /\ WritesInFreeSpace

\* A header always fits between head and the end of the data area, so the
\* "defensive drop" after the wrap test cannot happen (ring.c:177-183).  With
\* a smaller alignment it could, and then every later frame was dropped.
HeaderAlwaysFits == ToEnd >= FrameHeader

\* Every attempted frame is published, counted in `dropped`, or still being
\* written, even when a PAD precedes it or the process dies in the middle.
NothingLostSilently ==
  attempts = Len(accepted) + dropped + Cardinality({w \in Writers : pc[w] # "idle"})

\* The ring is a lossy FIFO stream (FrameStream): frames come out whole, once
\* and in publication order, and every attempt is accounted for, although only
\* head, tail and dropped are atomic.
Stream == INSTANCE FrameStream WITH
  Frames <- 1 .. MaxWrites, refused <- dropped
StreamSpec == Stream!Spec /\ []NothingLostSilently

\* Every dropped frame is announced in the session unless the probe is
\* cancelled (RingDrain::drain, lib.rs:146-158).
DropsAreReported ==
  \A n \in 1 .. MaxWrites : dropped >= n ~> reported >= n \/ rpc = "stopped"

\* No wedge (#113): a frame of at most half the ring, attempted when the
\* reader has caught up, is published wherever head stands.
SmallFrameOnEmptyRing(w, id) ==
  /\ pc[w] = "check" /\ head = tail
  /\ frame[w].id = id /\ 2 * frame[w].len <= Capacity
IsIn(id, frames) == \E i \in DOMAIN frames : frames[i] = id

SmallFrameGetsIn ==
  \A w \in Writers, id \in 1 .. MaxWrites :
    SmallFrameOnEmptyRing(w, id) ~> IsIn(id, accepted) \/ Proc(w) \notin alive

\* The reader never wedges on corrupt bytes (reader.rs:60-67): it gets past
\* everything published ...
ReaderNeverWedges == tail < head ~> tail = head \/ rpc = "stopped"

\* Neither side wedges: the two together.
NobodyWedges == SmallFrameGetsIn /\ ReaderNeverWedges

\* ... and once it has caught up, as at the start, every frame attempted later
\* reaches the session if it is published at all, also when its writer has been
\* killed since, unless another stray store hits the ring.
CaughtUp == head = tail /\ \A w \in Writers : pc[w] = "idle"

RecoversAfterCorruption ==
  \A id \in 1 .. MaxWrites, n \in 0 .. MaxCorruptions :
    [](CaughtUp /\ attempts < id /\ corruptions = n =>
         [](IsIn(id, accepted) =>
              <>(IsIn(id, delivered) \/ rpc = "stopped" \/ corruptions # n)))
=============================================================================
