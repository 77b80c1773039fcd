----------------------------- MODULE SessionWriter -----------------------------
(***************************************************************************)
(* The append-only writer of a session (crates/smeltr-core/src/writer.rs). *)
(*                                                                         *)
(* Events are compressed into a batch; a full batch is sealed into a unit; *)
(* units queue until the disk takes them.  One action per step at which    *)
(* the disk may refuse a write or the daemon may die: `pc' is the position *)
(* inside the call `call' of the (single-threaded) writer.                 *)
(*                                                                         *)
(* A write that fails leaves part of its bytes behind, and cutting them    *)
(* off may fail too.  A crash is the death of the process: what it wrote   *)
(* is in the page cache and survives, what it held in memory does not.     *)
(***************************************************************************)
EXTENDS SessionFile

CONSTANTS
    Events,          \* facts of the events offered: [size, ts, source]
    MaxFrame,        \* MAX_FRAME_BYTES, bound of one encoded event
    FrameHeader,     \* cells of an encoded event's length (4 bytes)
    MaxBytes,        \* max_bytes of the chunks, LEGACY_FRAME_BYTES of frames
    MaxUnitEvents,   \* max_events of the chunks
    FlushMin,        \* flush_min_bytes
    MaxPending,      \* MAX_PENDING_BYTES
    ZstdSlack,       \* how much larger than its input a frame can be
    MaxTs,           \* largest timestamp (u64::MAX)
    EncoderFails,    \* whether finishing a zstd frame in memory may fail
    Filters,         \* filters readers use: [from, to, sources]
    MaxEvents,       \* bound: events offered
    MaxOutages       \* bound: times the disk starts refusing writes

ASSUME EventAssumption ==
    Events \subseteq [size : Nat, ts : Nat, source : Nat]
ASSUME FilterAssumption ==
    Filters \subseteq [from : Nat, to : Nat, sources : SUBSET Nat]
ASSUME SizeAssumption ==
    /\ MaxFrame \in Nat \ {0} /\ FrameHeader \in Nat \ {0}
    /\ MaxBytes \in Nat \ {0} /\ MaxUnitEvents \in Nat \ {0}
    /\ FlushMin \in Nat /\ MaxPending \in Nat /\ ZstdSlack \in Nat
    /\ MaxTs \in Nat
ASSUME WriterBounds ==
    MaxEvents \in Nat /\ MaxOutages \in Nat /\ EncoderFails \in BOOLEAN
\* chunked.rs: a chunk is at most one maximal frame and zstd's overhead.
ASSUME ChunkAssumption == MaxFrame + FrameHeader + ZstdSlack <= MaxChunk

VARIABLES
    batch,                  \* Batch: events compressed, not yet sealed
    hand,                   \* the unit being sealed: <<>> or <<unit>>
    pending, pendingBytes,  \* Appender: units waiting for the disk
    cursor,                 \* end of the last unit fully on disk
    index,                  \* entries of the chunks on disk
    written, dropped,       \* event counters
    lastError,              \* whether last_error is set
    file,                   \* cells of the events file
    meta,                   \* metadata.toml: event_count (-1: none), dropped
    pc, call, arg, failed,  \* the call in progress; failed: its first error
    result,                 \* what the last call returned
    disk, outages,          \* whether the disk refuses writes
    log, lost, durable      \* history: events accepted, given up, flushed

appender == <<pending, pendingBytes, cursor, index, written, lastError>>
control == <<pc, call, arg, failed, result>>
environment == <<disk, outages>>
history == <<log, lost, durable>>
vars == <<batch, hand, appender, dropped, file, meta, control, environment,
          history>>

EmptyBatch == [n |-> 0, bytes |-> 0, lo |-> MaxTs, hi |-> 0, sources |-> {}]
FrameLen(e) == FrameHeader + e.size
Lesser(a, b) == IF a < b THEN a ELSE b
Greater(a, b) == IF a > b THEN a ELSE b

Count(u) == u.last - u.first + 1
EventSet(units) == UNION {units[i].first .. units[i].last : i \in DOMAIN units}

\* The events still in memory: queued, being sealed, and in the batch (which
\* always holds the latest ones).
InBatch == Len(log) - batch.n + 1 .. Len(log)
InMemory == EventSet(pending) \cup EventSet(hand) \cup InBatch

Running == pc \notin {"closed", "crashed"}

Init ==
    /\ batch = EmptyBatch /\ hand = <<>>
    /\ pending = <<>> /\ pendingBytes = 0
    /\ cursor = HeadLen /\ index = <<>> /\ written = 0 /\ lastError = FALSE
    /\ dropped = 0
    /\ file = [i \in 1 .. HeadLen |-> MagicCell]
    /\ meta = [count |-> -1, dropped |-> 0]
    /\ pc = "idle" /\ call = "none" /\ arg = <<>> /\ failed = FALSE
    /\ result = [op |-> "none", ok |-> TRUE, pushed |-> FALSE]
    /\ disk = "ok" /\ outages = 0
    /\ log = <<>> /\ lost = {} /\ durable = {}

Return(op, ok, pushed) ==
    /\ pc' = "idle" /\ call' = "none" /\ arg' = <<>> /\ failed' = FALSE
    /\ result' = [op |-> op, ok |-> ok, pushed |-> pushed]

GoTo(place) == pc' = place /\ UNCHANGED <<call, arg, failed, result>>

-----------------------------------------------------------------------------
(* write_event                                                             *)

BatchLimit == IF Chunked THEN Lesser(MaxBytes, MaxFrame) ELSE MaxBytes

\* Mutant: trusts timestamps to be monotone.
PushedBatchMonotone(e) ==
    [n       |-> batch.n + 1,
     bytes   |-> batch.bytes + FrameLen(e),
     lo      |-> Lesser(batch.lo, e.ts),
     hi      |-> e.ts,
     sources |-> batch.sources \cup {e.source}]

\* Batch::push
PushedBatch(e) ==
    [n       |-> batch.n + 1,
     bytes   |-> batch.bytes + FrameLen(e),
     lo      |-> Lesser(batch.lo, e.ts),
     hi      |-> Greater(batch.hi, e.ts),
     sources |-> batch.sources \cup {e.source}]

Full(b) == b.bytes >= BatchLimit \/ (Chunked /\ b.n >= MaxUnitEvents)

\* The event would take the batch past the limit: seal it first.
\* Mutant: a batch is sealed only once it is full.
SealsFirstNever(e) == FALSE
SealsFirst(e) == batch.n > 0 /\ batch.bytes + FrameLen(e) > BatchLimit

WriteEvent(e) ==
    /\ pc = "idle" /\ Len(log) < MaxEvents
    /\ IF e.size > MaxFrame
       THEN Return("write", FALSE, FALSE)
       ELSE /\ pc' = IF SealsFirst(e) THEN "seal" ELSE "push"
            /\ call' = "pre" /\ arg' = <<e>>
            /\ UNCHANGED <<failed, result>>
    /\ UNCHANGED <<batch, hand, appender, dropped, file, meta, environment,
                   history>>

Push ==
    /\ pc = "push"
    /\ batch' = PushedBatch(arg[1])
    /\ log' = Append(log, arg[1])
    /\ IF Full(PushedBatch(arg[1]))
       THEN /\ pc' = "seal" /\ call' = "post" /\ arg' = <<>>
            /\ UNCHANGED <<failed, result>>
       ELSE Return("write", TRUE, TRUE)
    /\ UNCHANGED <<hand, appender, dropped, file, meta, environment, lost,
                   durable>>

-----------------------------------------------------------------------------
(* seal, in three steps: finish the frame, make room, enqueue.             *)

\* A unit of frameLen cells from the batch.
SealedUnit(frameLen) ==
    [first |-> Len(log) - batch.n + 1, last |-> Len(log),
     frameLen |-> frameLen,
     lo |-> batch.lo, hi |-> batch.hi, sources |-> batch.sources]

\* What finishing the frame may yield; 0 stands for a failure.
FrameLens == (1 .. batch.bytes + ZstdSlack)
                \cup (IF EncoderFails THEN {0} ELSE {})

Sealable(n) == n > 0 /\ (Chunked => n <= MaxChunk)

\* Events dropped, and counted.
GiveUp(ids, n) == lost' = lost \cup ids /\ dropped' = dropped + n

\* Where a call goes on after seal() has returned.
AfterSeal(ok) ==
    IF ~ok /\ call \in {"pre", "post"}
    THEN Return("write", FALSE, call = "post")
    ELSE pc' = "drain" /\ failed' = (failed \/ ~ok)
         /\ UNCHANGED <<call, arg, result>>

SealUnit(n) ==
    /\ pc = "seal" /\ batch.n > 0 /\ n \in FrameLens /\ Sealable(n)
    /\ hand' = <<SealedUnit(n)>>
    /\ batch' = EmptyBatch
    /\ GoTo(IF pending # <<>> THEN "room" ELSE "enqueue")
    /\ UNCHANGED <<appender, dropped, file, meta, environment, history>>

SealFails(n) ==
    /\ pc = "seal" /\ batch.n > 0 /\ n \in FrameLens /\ ~Sealable(n)
    /\ GiveUp(InBatch, batch.n)
    /\ batch' = EmptyBatch
    /\ AfterSeal(FALSE)
    /\ UNCHANGED <<hand, appender, file, meta, environment, log, durable>>

\* finalize seals whatever there is; an empty batch makes no unit.
SealNothing ==
    /\ pc = "seal" /\ batch.n = 0
    /\ AfterSeal(TRUE)
    /\ UNCHANGED <<batch, hand, appender, dropped, file, meta, environment,
                   history>>

BacklogWith(u) == pendingBytes + Size(u)

BacklogFull(u) == pending # <<>> /\ BacklogWith(u) > MaxPending

\* Mutant: the unit jumps the queue.
QueuedFirst(u) == <<u>> \o pending
Queued(u) == Append(pending, u)

Enqueue ==
    /\ pc = "enqueue"
    /\ LET u == hand[1] IN
       IF BacklogFull(u)
       THEN /\ GiveUp(u.first .. u.last, Count(u))
            /\ AfterSeal(FALSE)
            /\ UNCHANGED <<pending, pendingBytes>>
       ELSE /\ pending' = Queued(u)
            /\ pendingBytes' = BacklogWith(u)
            /\ AfterSeal(TRUE)
            /\ UNCHANGED <<dropped, lost>>
    /\ hand' = <<>>
    /\ UNCHANGED <<batch, cursor, index, written, lastError, file, meta,
                   environment, log, durable>>

-----------------------------------------------------------------------------
(* drain: one step per unit, then its end.                                 *)

\* Mutant: one failed write poisons the writer.
DrainingUnlessFailed == pc \in {"room", "drain"} /\ ~lastError
Draining == pc \in {"room", "drain"}

\* Mutant: the offset of the end of the chunk.
EntryAfter(u, offset) ==
    [offset |-> offset + Size(u), frameLen |-> u.frameLen, lo |-> u.lo,
     hi |-> u.hi, sources |-> u.sources, count |-> Count(u)]
Entry(u, offset) ==
    [offset |-> offset, frameLen |-> u.frameLen, lo |-> u.lo, hi |-> u.hi,
     sources |-> u.sources, count |-> Count(u)]

DrainUnit ==
    /\ Draining /\ pending # <<>>
    /\ LET u == Head(pending) IN
       /\ file' = Overwrite(file, cursor, CellsOf(u))
       /\ pendingBytes' = pendingBytes - Size(u)
       /\ index' = IF Chunked THEN Append(index, Entry(u, cursor)) ELSE index
       /\ cursor' = cursor + Size(u)
       /\ written' = written + Count(u)
    /\ pending' = Tail(pending)
    /\ UNCHANGED <<batch, hand, lastError, dropped, meta, control,
                   environment, history>>

\* The first k of some cells written at the cursor.
\* Mutant: no seek before the write.
PartialAtEnd(cells, k) == Overwrite(file, Len(file), SubSeq(cells, 1, k))
Partial(cells, k) == Overwrite(file, cursor, SubSeq(cells, 1, k))

\* After a write that failed: cut back to the cursor, or not when set_len
\* fails as well.
Torn(cells) == {SubSeq(file, 1, cursor)}
                  \cup {Partial(cells, k) : k \in 0 .. Len(cells) - 1}

\* Where a call goes on after drain() has returned; only flush and finalize
\* look at its result.
AfterDrain(ok) ==
    \/ /\ pc = "room"
       /\ GoTo("enqueue")
       /\ UNCHANGED <<durable, pending, pendingBytes, dropped, lost>>
    \/ /\ pc = "drain" /\ call = "pre"
       /\ GoTo("push")
       /\ UNCHANGED <<durable, pending, pendingBytes, dropped, lost>>
    \/ /\ pc = "drain" /\ call = "post"
       /\ Return("write", TRUE, TRUE)
       /\ UNCHANGED <<durable, pending, pendingBytes, dropped, lost>>
    \/ /\ pc = "drain" /\ call = "flush"
       /\ Return("flush", ok /\ ~failed, FALSE)
       /\ durable' = IF ok /\ ~failed THEN (1 .. Len(log)) \ lost ELSE durable
       /\ UNCHANGED <<pending, pendingBytes, dropped, lost>>
    \/ /\ pc = "drain" /\ call = "finalize" /\ ok
       /\ GoTo(IF Chunked THEN "footer" ELSE "meta")
       /\ UNCHANGED <<durable, pending, pendingBytes, dropped, lost>>
    \/ /\ pc = "drain" /\ call = "finalize" /\ ~ok
       \* Units the disk still refuses go with the writer; they share no
       \* event, so the sum of their counts is that of the events.
       /\ GiveUp(EventSet(pending), Cardinality(EventSet(pending)))
       /\ pending' = <<>> /\ pendingBytes' = 0
       /\ pc' = "meta" /\ failed' = TRUE
       /\ UNCHANGED <<call, arg, result, durable>>

\* Mutant: the error outlives the recovery.
DrainDoneKeepsError ==
    /\ Draining /\ pending = <<>>
    /\ AfterDrain(TRUE)
    /\ UNCHANGED <<batch, hand, cursor, index, written, lastError, file, meta,
                   environment, log>>
DrainDone ==
    /\ Draining /\ pending = <<>>
    /\ lastError' = FALSE
    /\ AfterDrain(TRUE)
    /\ UNCHANGED <<batch, hand, cursor, index, written, file, meta,
                   environment, log>>

DrainFails ==
    /\ Draining /\ pending # <<>> /\ disk = "refusing"
    /\ file' \in Torn(CellsOf(Head(pending)))
    /\ lastError' = TRUE
    /\ AfterDrain(FALSE)
    /\ UNCHANGED <<batch, hand, cursor, index, written, meta, environment,
                   log>>

-----------------------------------------------------------------------------
(* flush and finalize                                                      *)

\* Mutant: a flush leaves a small batch alone.
FlushSealsMany == batch.n > 1 /\ batch.bytes >= FlushMin
FlushSeals ==
    batch.n > 0 /\ batch.bytes >= (IF Chunked THEN FlushMin ELSE 0)

Flush ==
    /\ pc = "idle"
    /\ pc' = IF FlushSeals THEN "seal" ELSE "drain"
    /\ call' = "flush"
    /\ UNCHANGED <<arg, failed, result, batch, hand, appender, dropped, file,
                   meta, environment, history>>

Finalize ==
    /\ pc = "idle"
    /\ pc' = "seal" /\ call' = "finalize"
    /\ UNCHANGED <<arg, failed, result, batch, hand, appender, dropped, file,
                   meta, environment, history>>

WriteFooter ==
    /\ pc = "footer"
    /\ file' = Overwrite(file, cursor, FooterCells(index, cursor))
    /\ GoTo("meta")
    /\ UNCHANGED <<batch, hand, appender, dropped, meta, environment, history>>

FooterFails ==
    /\ pc = "footer" /\ disk = "refusing"
    /\ file' \in Torn(FooterCells(index, cursor))
    /\ pc' = "meta" /\ failed' = TRUE
    /\ UNCHANGED <<call, arg, result, batch, hand, appender, dropped, meta,
                   environment, history>>

\* The metadata is replaced whole, by a rename, or not at all; finalize
\* consumes the writer either way.
Closed(ok) ==
    /\ pc' = "closed" /\ call' = "none" /\ arg' = <<>> /\ failed' = FALSE
    /\ result' = [op |-> "finalize", ok |-> ok, pushed |-> FALSE]

WriteMeta ==
    /\ pc = "meta"
    /\ meta' = [count |-> written, dropped |-> dropped]
    /\ Closed(~failed)
    /\ UNCHANGED <<batch, hand, appender, dropped, file, environment, history>>

MetaFails ==
    /\ pc = "meta" /\ disk = "refusing"
    /\ Closed(FALSE)
    /\ UNCHANGED <<batch, hand, appender, dropped, file, meta, environment,
                   history>>

-----------------------------------------------------------------------------
(* The disk and the process.                                               *)

DiskRefuses ==
    /\ Running /\ disk = "ok" /\ outages < MaxOutages
    /\ disk' = "refusing" /\ outages' = outages + 1
    /\ UNCHANGED <<batch, hand, appender, dropped, file, meta, control, history>>

DiskRecovers ==
    /\ disk = "refusing"
    /\ disk' = "ok"
    /\ UNCHANGED <<batch, hand, appender, dropped, file, meta, control,
                   outages, history>>

\* The cells being written at this position.
InFlight == IF Draining /\ pending # <<>> THEN CellsOf(Head(pending))
            ELSE IF pc = "footer" THEN FooterCells(index, cursor)
            ELSE <<>>

\* What a crash leaves of the file: also part, or all, of a write that the
\* process does not live to account for.
CrashImages == {Partial(InFlight, k) : k \in 0 .. Len(InFlight)}

Crash ==
    /\ Running
    /\ file' \in CrashImages
    /\ pc' = "crashed" /\ call' = "none" /\ arg' = <<>> /\ failed' = FALSE
    /\ batch' = EmptyBatch /\ hand' = <<>>
    /\ pending' = <<>> /\ pendingBytes' = 0
    /\ UNCHANGED <<cursor, index, written, lastError, dropped, meta, result,
                   environment, history>>

Seal == \/ \E n \in FrameLens : SealUnit(n)
        \/ \E n \in FrameLens : SealFails(n)
        \/ SealNothing
        \/ Enqueue
Drain == DrainUnit \/ DrainDone \/ DrainFails
Finish == WriteFooter \/ FooterFails \/ WriteMeta \/ MetaFails

Next == \/ \E e \in Events : WriteEvent(e)
        \/ Push \/ Seal \/ Drain \/ Flush \/ Finalize
        \/ call = "finalize" /\ Finish
        \/ DiskRefuses \/ DiskRecovers \/ Crash

Spec == Init /\ [][Next]_vars

\* A call once begun goes on; the daemon flushes every 500 ms; a disk that
\* refuses writes takes them again some day.
LiveSpec ==
    /\ Spec
    /\ WF_vars(Push \/ Seal \/ DrainUnit \/ DrainDone \/ WriteFooter \/ WriteMeta)
    /\ SF_vars(Flush)
    /\ WF_vars(DiskRecovers)

-----------------------------------------------------------------------------
(* Properties.                                                             *)

Units == [first : Nat, last : Nat, frameLen : Nat \ {0}, lo : Nat, hi : Nat,
          sources : SUBSET Nat]
Entries == [offset : Nat, frameLen : Nat, lo : Nat, hi : Nat,
            sources : SUBSET Nat, count : Nat]

Cells == [kind : {"magic"}]
            \cup [kind : {"unit"}, u : Units, k : Nat]
            \cup [kind : {"index"}, index : Seq(Entries)]
            \cup [kind : {"trailer"}, offset : Nat]

\* Type invariant of the writer.
TypeOK ==
    /\ batch \in [n : Nat, bytes : Nat, lo : Nat, hi : Nat,
                   sources : SUBSET Nat]
    /\ hand \in Seq(Units) /\ pending \in Seq(Units) /\ pendingBytes \in Nat
    /\ cursor \in Nat /\ index \in Seq(Entries)
    /\ written \in Nat /\ dropped \in Nat /\ lastError \in BOOLEAN
    /\ file \in Seq(Cells)
    /\ meta \in [count : Int, dropped : Nat]
    /\ pc \in {"idle", "push", "seal", "room", "enqueue", "drain", "footer",
               "meta", "closed", "crashed"}
    /\ call \in {"none", "pre", "post", "flush", "finalize"}
    /\ arg \in Seq(Events) /\ failed \in BOOLEAN
    /\ result \in [op : {"none", "write", "flush", "finalize"}, ok : BOOLEAN,
                   pushed : BOOLEAN]
    /\ disk \in {"ok", "refusing"} /\ outages \in 0 .. MaxOutages
    /\ log \in Seq(Events) /\ lost \subseteq Nat /\ durable \subseteq Nat

Stored == Read(file, meta).events

\* The writer implements the event log: events reach the file in the order of
\* acceptance, none twice, none that was given up; what a reader of the file
\* can decode, at any moment and after any failed write, failed cut or crash,
\* only grows; a finalized session has every event on disk or given up.
Promise == INSTANCE EventLog WITH
    accepted <- Len(log), stored <- Stored, lost <- lost, open <- Running
EventLogSpec == Promise!Spec

\* While the writer runs, the events neither readable nor given up are exactly
\* those of its queue, of the unit being sealed and of the batch: a retry
\* repeats no unit, a seal forgets no event.
NothingForgotten ==
    Running => InMemory = (1 .. Len(log)) \ (ToSet(Stored) \cup lost)

\* The counters tell the truth: written_events is what a reader decodes,
\* dropped_events what was given up; in the metadata of a finalized session
\* the two make up every event accepted.
CountersAddUp ==
    /\ pc # "crashed" => /\ written = Len(Stored)
                         /\ dropped = Cardinality(lost)
    /\ meta.count # -1 => /\ meta.count = Len(Stored)
                          /\ meta.count + meta.dropped = Len(log)

\* flush() that returned Ok made every event accepted before it durable: it
\* stays readable whatever fails, and whenever the daemon dies, later.
FlushIsDurable == durable \subseteq ToSet(Stored)

\* The file is always a readable prefix: past the last whole unit there is at
\* most a beginning of the unit that will overwrite it, so no stale byte is
\* left once that unit is written.
TornTailIsOverwritten ==
    Running /\ pc # "meta" /\ Len(file) > cursor =>
        /\ pending # <<>>
        /\ Len(file) < cursor + Size(Head(pending))

\* Between calls, storage_error() is set exactly while units wait for the
\* disk: it neither outlives the recovery nor misses a refusal.
StorageErrorIsCurrent == pc = "idle" => (lastError <=> pending # <<>>)

\* write_event returns Ok when the writer holds the event and an error when
\* the event was not kept, also when a seal inside the call fails.
WriteResultIsTrue ==
    pc = "idle" /\ result.op = "write" =>
        /\ result.ok => result.pushed /\ Len(log) \notin lost
        /\ ~result.ok /\ result.pushed => Len(log) \in lost

\* The writer's word is true, whatever the disk does: its counters, its
\* results and its flushes say what the file holds, and no event is forgotten.
WriterKeepsItsWord ==
    NothingForgotten /\ CountersAddUp /\ FlushIsDurable /\ WriteResultIsTrue

\* A disk that never refused a write costs no event; in particular no chunk
\* is ever too large for the recovery scan (MAX_CHUNK_BYTES).
HealthyDiskLosesNothing == outages = 0 /\ ~EncoderFails => lost = {}

\* The backlog accounts for the units it holds, and exceeds its limit only
\* for a single unit larger than the limit.
BacklogIsBounded ==
    /\ LET sum[i \in 0 .. Len(pending)] ==
             IF i = 0 THEN 0 ELSE sum[i - 1] + Size(pending[i])
       IN  pendingBytes = sum[Len(pending)]
    /\ Len(pending) > 1 => pendingBytes <= MaxPending

\* Both limits: of a chunk and of the backlog.
LimitsAreKept == HealthyDiskLosesNothing /\ BacklogIsBounded

\* Every entry of the index points, at any moment, to a chunk that is whole in
\* the file and that it describes: neither a failed write, a failed cut, the
\* footer nor a crash touches a chunk once it is indexed.
IndexIsExact ==
    \A i \in DOMAIN index :
        LET e == index[i]
        IN  /\ EntryReadable(file, e, cursor)
            /\ Entry(file[e.offset + PrefixLen + 1].u, e.offset) = e

\* Reading a finalized session through its index, skipping the chunks that
\* cannot match a filter, gives what filtering the whole session gives.
FilteredReadAgrees ==
    pc = "closed" =>
        \A f \in Filters : ReadFiltered(file, log, f) = Matching(Stored, log, f)

\* An accepted event reaches the file, however often the disk refuses it in
\* between, unless the backlog overflows or the writer ends first.
HeldEventsReachDisk ==
    \A i \in 1 .. MaxEvents :
        (Running /\ i \in InMemory)
            ~> (i \in ToSet(Stored) \/ i \in lost \/ ~Running)

-----------------------------------------------------------------------------
(* The inductive invariant behind the theorems of SessionWriterProofs.     *)

\* What the position in a call implies.
ControlInv ==
    /\ pc = "push" => call = "pre"
    /\ call = "pre" => Len(arg) = 1
    /\ Len(hand) = IF pc \in {"room", "enqueue"} THEN 1 ELSE 0
    /\ pc \in {"footer", "meta", "closed"} => pending = <<>>

\* The events in memory: each unit holds some, the queue is in order of
\* acceptance, the unit being sealed comes after it and the batch last.
MemoryInOrder ==
    /\ batch.n <= Len(log)
    /\ \A i \in DOMAIN pending :
         /\ pending[i].first \in 1 .. pending[i].last
         /\ pending[i].last <= Len(log) - batch.n
         /\ pending[i].frameLen > 0
         /\ \A j \in DOMAIN pending :
              i < j => pending[i].last < pending[j].first
    /\ \A h \in DOMAIN hand :
         /\ hand[h].first \in 1 .. hand[h].last
         /\ hand[h].last <= Len(log) - batch.n
         /\ hand[h].frameLen > 0
         /\ \A i \in DOMAIN pending : pending[i].last < hand[h].first

\* An event given up is no longer in memory, and was counted.
DropsAreCounted == dropped = Cardinality(lost)
LostIsGone == lost \subseteq 1 .. Len(log) /\ lost \cap InMemory = {}

\* pendingBytes is the sum of the sizes of the queue: f[i] is that of the
\* first i units.
BacklogSum ==
    \E f \in [0 .. Len(pending) -> Nat] :
        /\ f[0] = 0 /\ f[Len(pending)] = pendingBytes
        /\ \A i \in 1 .. Len(pending) : f[i] = f[i - 1] + Size(pending[i])
        /\ \A i, j \in 0 .. Len(pending) : i <= j => f[i] <= f[j]

\* The last error is that of the units waiting, except while a drain runs.
ErrorInv ==
    pc \in {"idle", "push", "seal", "enqueue"} => (lastError <=> pending # <<>>)

CursorInFile == cursor >= HeadLen /\ cursor <= Len(file)

IndexedFrames == \A i \in DOMAIN index : index[i].frameLen > 0

Inv == /\ TypeOK /\ ControlInv /\ MemoryInOrder /\ BacklogSum /\ CursorInFile
       /\ LostIsGone /\ DropsAreCounted /\ ErrorInv
       /\ TornTailIsOverwritten /\ IndexIsExact /\ IndexedFrames

-----------------------------------------------------------------------------
(* What the file holds, behind the theorems about what a reader gets.      *)

\* The units D lie whole in a file, one behind the other: the i-th ends at
\* at[i], and ev[i] are the events of the first i.
Laid(F, D, at, ev) ==
    /\ at[0] = HeadLen /\ ev[0] = <<>>
    /\ at[Len(D)] <= Len(F)
    /\ \A i \in 0 .. Len(D) : at[i] \in HeadLen .. at[Len(D)]
    /\ \A i \in 1 .. Len(D) :
         /\ D[i].first \in 1 .. D[i].last
         /\ Chunked => D[i].frameLen <= MaxChunk
         /\ at[i] = at[i - 1] + Size(D[i])
         /\ ev[i] = ev[i - 1] \o EventsOf(D[i])
         /\ \A k \in 1 .. Size(D[i]) : F[at[i - 1] + k] = UnitCell(D[i], k)

\* Behind cell c there is at most a beginning of the unit u ...
Begun(F, c, u) == /\ Len(F) < c + Size(u)
                  /\ \A k \in 1 .. Len(F) - c : F[c + k] = UnitCell(u, k)

\* ... or the footer, or its body alone.
FooterBegun(F, c, entries) ==
    /\ Chunked /\ Len(F) \in {c + 1, c + 2}
    /\ F[c + 1] = FooterBody(entries)
    /\ Len(F) = c + 2 => F[c + 2] = Trailer(c)

TailOf(F, c, entries) ==
    \/ Len(F) = c
    \/ \E u \in Units : Begun(F, c, u)
    \/ FooterBegun(F, c, entries)

EntriesOf(D, at) == [i \in 1 .. Len(D) |-> Entry(D[i], at[i - 1])]

\* The file is some units, up to cell c and with these entries and events,
\* and a tail.
FileHolds(F, c, entries, events) ==
    \E D \in Seq(Units) :
      \E at \in [0 .. Len(D) -> Nat], ev \in [0 .. Len(D) -> Seq(Nat)] :
        /\ Laid(F, D, at, ev)
        /\ TailOf(F, c, entries)
        /\ at[Len(D)] = c /\ ev[Len(D)] = events
        /\ Chunked => entries = EntriesOf(D, at)

\* While the process lives, the cursor is at the end of the units in the file,
\* the index describes them, and a reader gets their events.
DiskInv ==
    IF pc # "crashed"
    THEN FileHolds(file, cursor, index, Stored)
    ELSE \E c \in Nat, entries \in Seq(Entries) :
            FileHolds(file, c, entries, Stored)

\* A torn tail belongs to the unit that waits next, and no unit in memory is
\* too large for the scan.
QueueInv ==
    /\ Running /\ pending # <<>> => Begun(file, cursor, Head(pending))
    /\ \A i \in DOMAIN pending : Chunked => pending[i].frameLen <= MaxChunk
    /\ \A h \in DOMAIN hand : Chunked => hand[h].frameLen <= MaxChunk

\* A flush (without a threshold) and finalize leave no batch behind.
BatchIsSealed ==
    /\ call = "flush" /\ pc # "seal" /\ (Chunked => FlushMin = 0) =>
            batch.n = 0
    /\ call = "finalize" /\ pc # "seal" => batch.n = 0
    /\ pc \in {"footer", "meta"} => call = "finalize"
    /\ pc = "footer" => Chunked
    /\ pc = "closed" => batch.n = 0 /\ hand = <<>>

\* What a reader gets is in the order of acceptance, older than anything in
\* memory, and with that and the losses makes up all there was.
Rising(s) == \A i, j \in DOMAIN s : i < j => s[i] < s[j]

StoredInv ==
    /\ Stored \in Seq(Nat) /\ Rising(Stored)
    /\ ToSet(Stored) \subseteq 1 .. Len(log) /\ ToSet(Stored) \cap lost = {}
    /\ \A x \in ToSet(Stored), y \in InMemory : x < y
    /\ pc # "crashed" =>
         /\ ToSet(Stored) \cup lost \cup InMemory = 1 .. Len(log)
         /\ written = Len(Stored)
    /\ (Chunked => FlushMin = 0) => durable \subseteq ToSet(Stored)
    /\ meta.count # -1 => /\ pc = "closed" /\ meta.count = Len(Stored)
                          /\ meta.count + meta.dropped = Len(log)
=============================================================================
