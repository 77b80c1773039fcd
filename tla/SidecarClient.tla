----------------------------- MODULE SidecarClient -----------------------------
(***************************************************************************)
(* The Python sidecar's connection to the daemon (python/src/smeltr:       *)
(* _client.py).                                                            *)
(*                                                                         *)
(* Threads of the program emit without a lock: they append to a bounded    *)
(* queue and wake a sender thread when they see it idle.  The sender takes *)
(* batches off the queue, writes them and reads one Ack per frame.  One    *)
(* step per access to a variable another thread writes: the interpreter    *)
(* may switch threads, or run a signal handler that emits, between any two.*)
(*                                                                         *)
(* A process forked from the program starts over (_after_fork_in_child):   *)
(* it is the second initial state, the parent the first.  A wait may end   *)
(* by its timeout at any time, the daemon may die and come back.           *)
(***************************************************************************)
EXTENDS Integers, Sequences, FiniteSets, SequencesExt

CONSTANTS
    Emitters,        \* threads of the program
    NoEvent, Report, \* no event; the Mark that reports drops
    QueueMax, BatchMax,
    MaxEvents,       \* bound: events emitted
    MaxFailures      \* bound: deaths of the daemon, timeouts, encoding errors

ASSUME SidecarAssumption ==
    /\ QueueMax \in Nat /\ BatchMax \in Nat \ {0}
    /\ MaxEvents \in Nat /\ MaxFailures \in Nat
    /\ NoEvent \notin 1 .. MaxEvents /\ Report \notin 1 .. MaxEvents

VARIABLES
    opened, stopping,       \* the flags of connect and close
    queue,
    droppedEmit, droppedSend, droppedReported,
    sender,                 \* where the sender thread stands
    batch,                  \* the frames it holds: events, or the Report
    unread, total,          \* Acks it has yet to read; what the Report says
    idle, wake,             \* _sender_idle; a byte in the wake pipe
    ioLock, sock,           \* holder of _io_lock; whether there is a socket
    emitter,                \* where each emit stands, and with which event
    closer,                 \* where close() stands
    smeltrd, peer,           \* up or down; whether it holds the other end
    frames, acks,           \* frames it has yet to read; Acks sent, unread
    delivered,              \* events it took, in order
    emitted, failures,
    settled                 \* history: events whose emit ended before close()

flags == <<opened, stopping>>
counters == <<droppedEmit, droppedSend, droppedReported>>
senderVars == <<sender, batch, unread, total>>
signal == <<idle, wake>>
connection == <<ioLock, sock, smeltrd, peer, frames, acks, delivered>>
users == <<emitter, closer>>
sidecarVars == <<flags, queue, counters, senderVars, signal, connection, users,
          emitted, failures, settled>>

Events == 1 .. MaxEvents
Quiet == [at |-> "out", event |-> NoEvent]
SenderAlive == sender \notin {"none", "exited"}
dropped == droppedEmit + droppedSend

\* connect() has succeeded, and started the sender.
Connected == sender = "top" /\ sock = TRUE /\ peer = TRUE
\* _after_fork_in_child: the parent keeps its connection, sender and queue.
Forked == sender = "none" /\ sock = FALSE /\ peer = FALSE

SidecarInit ==
    /\ opened = TRUE /\ stopping = FALSE
    /\ queue = <<>> /\ droppedEmit = 0 /\ droppedSend = 0
    /\ droppedReported = 0
    /\ Connected \/ Forked
    /\ batch = <<>> /\ unread = 0 /\ total = 0 /\ idle = FALSE /\ wake = FALSE
    /\ ioLock = "free" /\ emitter = [t \in Emitters |-> Quiet]
    /\ closer = "out" /\ smeltrd = "up"
    /\ frames = <<>> /\ acks = 0 /\ delivered = <<>>
    /\ emitted = 0 /\ failures = 0 /\ settled = {}

-----------------------------------------------------------------------------
(* emit()                                                                  *)

Goto(t, place) == emitter' = [emitter EXCEPT ![t].at = place]
Return(t) == /\ emitter' = [emitter EXCEPT ![t] = Quiet]
             /\ settled' = IF closer = "out"
                           THEN settled \cup {emitter[t].event} ELSE settled

\* Refused, with an exception, when the client is not connected.
Emit(t) ==
    /\ emitter[t] = Quiet /\ opened /\ emitted < MaxEvents
    /\ emitted' = emitted + 1
    /\ emitter' = [emitter EXCEPT ![t] = [at |-> "room", event |-> emitted + 1]]
    /\ UNCHANGED <<flags, queue, counters, senderVars, signal, connection,
                   closer, failures, settled>>

CheckRoom(t) ==
    /\ emitter[t].at = "room"
    /\ IF Len(queue) >= QueueMax
       THEN droppedEmit' = droppedEmit + 1 /\ Return(t)
       ELSE Goto(t, "append") /\ UNCHANGED <<droppedEmit, settled>>
    /\ UNCHANGED <<flags, queue, droppedSend, droppedReported, senderVars,
                   signal, connection, closer, emitted, failures>>

AppendEvent(t) ==
    /\ emitter[t].at = "append"
    /\ queue' = Append(queue, emitter[t].event)
    /\ Goto(t, "look")
    /\ UNCHANGED <<flags, counters, senderVars, signal, connection, closer,
                   emitted, failures, settled>>

\* Mutant: only connect() starts the sender.
LookOnly(t) ==
    /\ emitter[t].at = "look"
    /\ IF idle THEN Goto(t, "wake") /\ UNCHANGED settled ELSE Return(t)
    /\ UNCHANGED <<flags, queue, counters, senderVars, signal, connection,
                   closer, emitted, failures>>

\* Start the sender, or wake it when it is idle.
Look(t) ==
    /\ emitter[t].at = "look"
    /\ IF sender # "none" /\ idle
       THEN Goto(t, "wake") /\ UNCHANGED settled ELSE Return(t)
    /\ sender' = IF sender = "none" /\ ~stopping THEN "top" ELSE sender
    /\ UNCHANGED <<flags, queue, counters, batch, unread, total, signal,
                   connection, closer, emitted, failures>>

Wake(t) ==
    /\ emitter[t].at = "wake"
    /\ wake' = TRUE /\ Return(t)
    /\ UNCHANGED <<flags, queue, counters, senderVars, idle, connection,
                   closer, emitted, failures>>

EmitStep(t) == CheckRoom(t) \/ AppendEvent(t) \/ Look(t) \/ Wake(t)

-----------------------------------------------------------------------------
(* The socket.                                                             *)

\* What is written together is events, or the Report alone.
EventsOf(written) == IF written = <<Report>> THEN <<>> ELSE written

\* _drop_socket: of the frames written, the daemon still reads some, in order.
DropSocket(written) ==
    /\ sock' = FALSE /\ peer' = FALSE /\ frames' = <<>> /\ acks' = 0
    /\ \E read \in Prefixes(IF peer /\ smeltrd = "up" THEN written ELSE <<>>) :
          delivered' = delivered \o EventsOf(read)

\* A wait that ends by its timeout.
TimesOut == failures < MaxFailures /\ failures' = failures + 1
\* What a read or a write meets: the peer is gone, close() took the socket
\* away, or the daemon does not answer in time.
Fails == \/ (~peer \/ ~sock) /\ UNCHANGED failures
         \/ peer /\ sock /\ TimesOut

-----------------------------------------------------------------------------
(* The sender thread: _run.                                                *)

At(place) == sender = place
Step(place) == sender' = place
SenderRest == <<flags, total, users, emitted, settled>>

Open ==
    /\ At("open") /\ ioLock = "free"
    /\ IF smeltrd = "up"
       THEN /\ ioLock' = "sender" /\ sock' = TRUE /\ peer' = TRUE
            /\ Step("hello")
       ELSE Step("sleep") /\ UNCHANGED <<ioLock, sock, peer>>
    /\ UNCHANGED <<SenderRest, queue, counters, batch, unread, signal, smeltrd,
                   frames, acks, delivered, failures>>

HelloOk ==
    /\ At("hello") /\ sock /\ peer
    /\ ioLock' = "free" /\ Step("top")
    /\ UNCHANGED <<SenderRest, queue, counters, batch, unread, signal, sock,
                   smeltrd, peer, frames, acks, delivered, failures>>

HelloFails ==
    /\ At("hello") /\ Fails
    /\ DropSocket(<<>>) /\ ioLock' = "free" /\ Step("sleep")
    /\ UNCHANGED <<SenderRest, queue, counters, batch, unread, signal, smeltrd>>

\* The backoff: cut short by the wake pipe, not begun when stopping.
Sleep ==
    /\ At("sleep") /\ Step("top")
    /\ wake' = (wake /\ stopping)
    /\ UNCHANGED <<SenderRest, queue, counters, batch, unread, idle,
                   connection, failures>>

\* Without a socket, connect, unless stopping; then report the drops
\* (_should_report_drops: not more often than once a period while the queue
\* holds events) or take a batch.
Top ==
    /\ At("top")
    /\ \/ /\ ~sock /\ Step(IF stopping THEN "exited" ELSE "open")
          /\ UNCHANGED <<batch, total>>
       \/ /\ sock /\ dropped > droppedReported
          /\ batch' = <<Report>> /\ total' = dropped /\ Step("exchange")
       \/ /\ sock /\ (dropped <= droppedReported \/ queue # <<>>)
          /\ Step("take") /\ UNCHANGED <<batch, total>>
    /\ UNCHANGED <<flags, users, emitted, settled, queue, counters, unread,
                   signal, connection, failures>>

Taken == SubSeq(queue, 1, IF Len(queue) < BatchMax THEN Len(queue) ELSE BatchMax)

\* The frames of what was taken but could not be encoded are left out.
Encoded(bad) ==
    LET kept[i \in 0 .. Len(Taken)] ==
          IF i = 0 THEN <<>>
          ELSE IF Taken[i] \in bad THEN kept[i - 1] ELSE Append(kept[i - 1], Taken[i])
    IN  kept[Len(Taken)]

\* _take_batch, and the encoding of what it took, which may fail.
TakeBatch ==
    /\ At("take")
    /\ \E bad \in SUBSET ToSet(Taken) :
         /\ failures' = failures + Cardinality(bad) /\ failures' <= MaxFailures
         /\ batch' = Encoded(bad)
         /\ droppedSend' = droppedSend + Cardinality(bad)
    /\ queue' = SubSeq(queue, Len(Taken) + 1, Len(queue))
    /\ Step(IF batch' # <<>> THEN "exchange"
            ELSE IF Taken # <<>> THEN "top" ELSE "empty")
    /\ UNCHANGED <<SenderRest, droppedEmit, droppedReported, unread, signal,
                   connection>>

Empty ==
    /\ At("empty") /\ Step(IF stopping THEN "exited" ELSE "idle")
    /\ UNCHANGED <<SenderRest, queue, counters, batch, unread, signal,
                   connection, failures>>

-----------------------------------------------------------------------------
(* _exchange: write the frames, then read one reply per frame.             *)

\* Mutant: the batch goes back to the queue, to be sent again.
GiveUpRequeue ==
    /\ queue' = EventsOf(batch) \o queue
    /\ batch' = <<>> /\ unread' = 0
    /\ ioLock' = "free" /\ Step("top")
    /\ UNCHANGED <<droppedEmit, droppedSend, droppedReported>>

\* The whole batch counts as dropped; a failed report does not count.
GiveUp ==
    /\ droppedSend' = droppedSend + Len(EventsOf(batch))
    /\ batch' = <<>> /\ unread' = 0
    /\ ioLock' = "free" /\ Step("top")
    /\ UNCHANGED <<queue, droppedEmit, droppedReported>>

\* close() has taken the socket away.
NoSocket ==
    /\ At("exchange") /\ ioLock = "free" /\ ~sock
    /\ GiveUp
    /\ UNCHANGED <<SenderRest, signal, sock, smeltrd, peer, frames, acks,
                   delivered, failures>>

WriteFrames ==
    /\ At("exchange") /\ ioLock = "free" /\ sock /\ peer
    /\ ioLock' = "sender" /\ frames' = frames \o batch /\ unread' = Len(batch)
    /\ Step("ack")
    /\ UNCHANGED <<SenderRest, queue, counters, batch, signal, sock, smeltrd,
                   peer, acks, delivered, failures>>

WriteFails ==
    /\ At("exchange") /\ ioLock = "free" /\ sock
    /\ Fails /\ GiveUp /\ DropSocket(batch)
    /\ UNCHANGED <<SenderRest, signal, smeltrd>>

ReadAck ==
    /\ At("ack") /\ sock /\ acks > 0 /\ unread > 1
    /\ acks' = acks - 1 /\ unread' = unread - 1
    /\ UNCHANGED <<SenderRest, queue, counters, sender, batch, signal, ioLock,
                   sock, smeltrd, peer, frames, delivered, failures>>

LastAck ==
    /\ At("ack") /\ sock /\ acks > 0 /\ unread = 1
    /\ acks' = acks - 1 /\ unread' = 0 /\ batch' = <<>>
    /\ droppedReported' = IF batch = <<Report>> THEN total ELSE droppedReported
    /\ ioLock' = "free" /\ Step("top")
    /\ UNCHANGED <<SenderRest, queue, droppedEmit, droppedSend, signal, sock,
                   smeltrd, peer, frames, delivered, failures>>

\* An answer already in the buffer is read before a timeout is noticed.
ReadFails ==
    /\ At("ack") /\ (acks = 0 \/ ~sock)
    /\ Fails /\ GiveUp /\ DropSocket(frames)
    /\ UNCHANGED <<SenderRest, signal, smeltrd>>

-----------------------------------------------------------------------------
(* _idle_wait                                                              *)

SetIdle ==
    /\ At("idle") /\ idle' = TRUE /\ Step("recheck")
    /\ UNCHANGED <<SenderRest, queue, counters, batch, unread, wake,
                   connection, failures>>

Recheck ==
    /\ At("recheck")
    /\ Step(IF queue # <<>> \/ stopping THEN "awake" ELSE "select")
    /\ UNCHANGED <<SenderRest, queue, counters, batch, unread, signal,
                   connection, failures>>

\* By a byte in the pipe, or when the 0.5 s are over.
Select ==
    /\ At("select") /\ Step("awake")
    /\ UNCHANGED <<SenderRest, queue, counters, batch, unread, signal,
                   connection, failures>>

Awake ==
    /\ At("awake") /\ Step("top")
    /\ idle' = FALSE /\ wake' = FALSE
    /\ UNCHANGED <<SenderRest, queue, counters, batch, unread, connection,
                   failures>>

SenderStep ==
    \/ Open \/ HelloOk \/ HelloFails \/ Sleep \/ Top \/ TakeBatch \/ Empty
    \/ NoSocket \/ WriteFrames \/ WriteFails \/ ReadAck \/ LastAck \/ ReadFails
    \/ SetIdle \/ Recheck \/ Select \/ Awake

-----------------------------------------------------------------------------
(* A user thread's hello(), under the same lock: it opens a connection when *)
(* there is none, and drops one that fails.                                *)

Hello ==
    /\ opened /\ ioLock = "free"
    /\ \/ /\ ~sock /\ smeltrd = "up"
          /\ sock' = TRUE /\ peer' = TRUE
          /\ UNCHANGED <<frames, acks, delivered, failures>>
       \/ sock /\ Fails /\ DropSocket(<<>>)
    /\ UNCHANGED <<flags, queue, counters, senderVars, signal, users, ioLock,
                   smeltrd, emitted, settled>>

-----------------------------------------------------------------------------
(* close()                                                                 *)

CloserAt(place) == closer = place
CloseRest == <<counters, senderVars, emitter, emitted, failures, settled>>

CloseBegin ==
    /\ CloserAt("out") /\ opened
    /\ IF SenderAlive THEN stopping' = TRUE /\ closer' = "wake"
                      ELSE closer' = "end" /\ UNCHANGED stopping
    /\ UNCHANGED <<CloseRest, opened, queue, signal, connection>>

CloseWake ==
    /\ CloserAt("wake") /\ wake' = TRUE /\ closer' = "join"
    /\ UNCHANGED <<CloseRest, flags, queue, idle, connection>>

\* When the sender does not end in time the socket is shut down, and the
\* sender joined once more.
Join ==
    /\ CloserAt("join")
    /\ \/ ~SenderAlive /\ closer' = "end" /\ UNCHANGED connection
       \/ /\ SenderAlive /\ closer' = "rejoin"
          /\ peer' = FALSE /\ frames' = <<>> /\ acks' \in {0, acks}
          /\ \E read \in Prefixes(IF smeltrd = "up" THEN frames ELSE <<>>) :
                delivered' = delivered \o EventsOf(read)
          /\ UNCHANGED <<ioLock, sock, smeltrd>>
    /\ UNCHANGED <<CloseRest, flags, queue, signal>>

EndClose ==
    /\ closer \in {"end", "rejoin"} /\ closer' = "count"
    /\ stopping' = TRUE /\ opened' = FALSE
    /\ UNCHANGED <<CloseRest, queue, signal, connection>>

CountQueue ==
    /\ CloserAt("count") /\ closer' = "clear"
    /\ droppedEmit' = droppedEmit + Len(queue)
    /\ UNCHANGED <<droppedSend, droppedReported, senderVars, emitter,
                   emitted, failures, settled, flags, queue, signal, connection>>

ClearQueue ==
    /\ CloserAt("clear") /\ closer' = "closed"
    /\ queue' = <<>> /\ DropSocket(frames)
    /\ UNCHANGED <<CloseRest, flags, signal, ioLock, smeltrd>>

CloseStep == CloseWake \/ Join \/ EndClose \/ CountQueue \/ ClearQueue

-----------------------------------------------------------------------------
(* The daemon.                                                             *)

DaemonRest == <<flags, queue, counters, senderVars, signal, users, ioLock, sock,
                emitted, settled>>

Serve ==
    /\ smeltrd = "up" /\ peer /\ frames # <<>>
    /\ delivered' = delivered \o EventsOf(<<Head(frames)>>)
    /\ frames' = Tail(frames) /\ acks' = acks + 1
    /\ UNCHANGED <<DaemonRest, smeltrd, peer, failures>>

\* Acks already sent can still be read.
Die ==
    /\ smeltrd = "up" /\ TimesOut
    /\ smeltrd' = "down" /\ peer' = FALSE /\ frames' = <<>>
    /\ UNCHANGED <<DaemonRest, acks, delivered>>

Restart ==
    /\ smeltrd = "down" /\ smeltrd' = "up"
    /\ UNCHANGED <<DaemonRest, peer, frames, acks, delivered, failures>>

-----------------------------------------------------------------------------

SidecarNext ==
    \/ \E t \in Emitters : Emit(t) \/ EmitStep(t)
    \/ SenderStep \/ Hello \/ CloseBegin \/ CloseStep
    \/ Serve \/ Die \/ Restart

\* Threads that are not waiting run; the daemon answers, and comes back.
SidecarFairness ==
    /\ \A t \in Emitters : WF_sidecarVars(EmitStep(t))
    /\ WF_sidecarVars(SenderStep) /\ WF_sidecarVars(CloseStep)
    /\ WF_sidecarVars(Serve) /\ WF_sidecarVars(Restart)

SidecarSpec == SidecarInit /\ [][SidecarNext]_sidecarVars /\ SidecarFairness

-----------------------------------------------------------------------------
(* Properties.                                                             *)

\* An event whose emit was over before close() began is in the queue, in the
\* batch in flight, with the daemon, or counted as dropped, and no event
\* reaches the daemon twice: through full queues, failed exchanges, reconnections
\* and close() racing a sender that is stuck (_client.py `dropped': "Events
\* that did not reach the daemon").
EachEventOnceOrCounted ==
    LET missing == settled \ (ToSet(queue) \cup ToSet(batch) \cup ToSet(delivered))
    IN  /\ Cardinality(missing) <= dropped
        /\ \A i, j \in DOMAIN delivered : delivered[i] = delivered[j] => i = j

\* No event, and no close() that joins the sender, waits for a wake-up that
\* nobody will send (_idle_wait: "one of the two sees the other"), so the
\* half-second timeout is never what delivers an event; nor does an event wait
\* for a sender that nobody will start.
NoLostWakeup ==
    /\ sender = "select" /\ queue # <<>> =>
         wake \/ \E t \in Emitters : emitter[t].at \in {"look", "wake"}
    /\ sender = "select" /\ closer \in {"join", "rejoin"} => wake
    /\ sender = "none" /\ queue # <<>> =>
         stopping \/ \E t \in Emitters : emitter[t].at = "look"

\* Nothing is lost uncounted, nor left for a wake-up that never comes.
NoEventIsLost == EachEventOnceOrCounted /\ NoLostWakeup

\* What waits in the client gets out of it, in the parent and in a forked
\* child, while the daemon comes back in the end: every event leaves the queue
\* of a client that has opened its connection, and the daemon is told of every
\* drop unless the client closes first.  A program emits finitely many events
\* here, so what leaves does so for good.
QueueDrained == queue = <<>> \/ ~opened
DropsReported == dropped <= droppedReported \/ stopping
NothingWaitsForEver == []<>(QueueDrained /\ DropsReported)
=============================================================================
