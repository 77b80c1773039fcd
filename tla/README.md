# smeltr: specifications, model checking and proofs

smeltr records what a process does with the GPU of a Mac: `smeltr record`
launches a command, a library injected into it writes Metal events to a
shared-memory ring, a Python sidecar sends more over a socket, a daemon
(`smeltrd`) drains, routes and stores them in session files, and a TUI, an
analyzer and an MCP server read those files, live or afterwards.

This directory holds TLA+ modules of the parts where events can be lost,
duplicated, misrouted or left behind, the TLC runs that check them on small
instances, and TLAPS proofs of the strongest invariants for all instances.
Paths below are relative to the repository root.

## 1. Inventory

| Component | State it keeps | Operations | What makes it hard | What makes it correct |
|---|---|---|---|---|
| Ring (`metal-hook/src/ring.c`, `crates/smeltr-metal-ring`) | head, tail, dropped (atomics), data area, a lock per process, `writable` | `write_frame` (PAD, header, body, publish, drop), atfork handler, `RingReader::next`, `RingDrain::drain` | two address spaces, only three atomic words; fork; kill while the lock is held; wrap-around; stray stores | frames whole, once, in order; each attempt delivered or counted; never wedged |
| Session writer (`smeltr-core/src/writer.rs`, `chunked.rs`) | batch, queue of compressed units, cursor, index, counters, the file, the metadata | `write_event`, seal, drain, `flush`, `finalize` | any write, and the cut that follows it, may fail; the daemon may die at any of them; a backlog limit | the file is always a readable prefix; no event twice, out of order or silently lost; counters true |
| Session reader (`reader.rs`, `chunked.rs`, `filter.rs`) | none | read all, read filtered, damage report | torn, truncated, damaged files; an index that may be missing | damage costs what it hits, and is reported |
| Session router (`smeltr-daemon/src/session_router.rs`, `sessions.rs`) | `by_pid`, `by_token`, `attach_order`, ambient session | `append_stamped`, `attach_scoped`, `detach_scoped`, `flush_all`, `finalize_all` | three locks taken one after the other by many threads; supersession; shutdown | each session finalized once; events reach the recording that is theirs; no deadlock |
| Recording protocol (`smeltr-cli/.../record.rs`, `smeltr-daemon/src/server.rs`, `probes.rs`, `main.rs`, `recovery.rs`) | client, exec gate, child, connection, attachments, probes, ring file | AttachScopedProbes, AttachMetalHook, the two detaches, cleanup of a lost connection, stop, boot with recovery | four processes, any of which may be killed between two messages | nothing runs unrecorded; nothing outlives its owner; what the user is told is true |
| Bus and subscribers (`bus.rs`, `server.rs`, `client.rs`) | broadcast channel, the handler's position, the socket, the client | publish, subscribe, stream, reconnect with backoff | lag, a frame that times out half-way, a daemon that dies | in order, each once, with gaps for lags only |
| Flight recorder, triggers, post-mortems (`flight_recorder.rs`, `triggers.rs`, `panic_flush.rs`) | recent events, last trigger per reason | push, evict, save, panic flush | order of pushes against instants, lag of the watcher, a panic under any lock | a dump holds its trigger and what the window keeps; one per reason and period; the hook never waits |
| Probe supervisor (`smeltr-probes-core/src/supervisor.rs`) | failures in a row, backoff | run, restart, give up, cancel | cancel during the backoff, a healthy run resets the count | given up for cause only; a cancel ends it |
| Ring family and its probe (`ring.c`, `family.rs`, `smeltr-probes-metal-hook`) | the rings of a recording, flocks, names, what the probe has opened | claim, make, look, drain, detach, remove | launch, fork and exec while the probe looks | one writer per ring; what was found is drained before it goes |
| Metal hook (`metal-hook/src/hook.mm`) | marks, depth per queue, sample slots, back-off, table of buffers in flight | encoder, commit, completion, dealloc, sampling | threads, wrappers around a buffer, addresses used again | each commit recorded once; counters and table exact; sampling comes back |
| Daemon start (`main.rs`, `recovery.rs`, `smeltr-cli/.../daemon.rs`) | pid file, socket, sessions on disk | start, stop, restart | competing starters, stale and empty files, kills | one daemon per home; not everyone refuses; restart tells the truth |
| Python client (`python/src/smeltr/_client.py`) | deque, idle flag, counters, socket | emit, sender loop, hello, close, fork | lock-free wake-up, exchanges that fail half-way | every event arrives once or is counted; none waits for a wake-up |
| Python instrumentation (`_api.py`, `_shutdown.py`, `_importhook.py`, `_modules.py`, `_mlx.py`) | SIGTERM and exception handlers, pending imports, stacks of calls | attach, detach, import, enter, return, eval | handlers the program sets before, between and after; imports in other threads; calls that overlap | the program's handlers run as without it; libraries are instrumented; stacks tell who ran what |
| Analyzer (`smeltr-analyzer`) | none | clamp, pairing, windows, attribution, memory, trace, crash join | recycled buffer ids, lost frames, calls that do not nest, reports that come late | time is conserved, samples go to the call that had them, a death is explained truly |
| MCP server (`smeltr-mcp`) | one-entry session cache, live cursors | tools, polls | sessions that grow while they are decoded | data no older than the call; each event told once |
| TUI, replay (`smeltr-tui`) | virtual clock, cursor, panels | play, seek, clear | incremental state against rebuilt state | the screen shows the moment, however it was reached |
| System probes, CLI, event model, metadata, translation, test harness | | | calls into the operating system, formatting, data definitions | see section 8; of the probes, crash reports are modelled |

How they interact: the hook and the probe share the ring's memory; probes,
connections and marks call the router from threads of their own; the router
owns the active sessions, each of which owns a writer behind a lock and
publishes what it stored on the bus and to the flight recorder; `record`, the
connection handler and the child synchronise through messages and a pipe; a
daemon that starts repairs what its predecessor left.

`PROJECT.json` lists every component with its status, and under "hazards" what
in this code is hard to test, each at the line where it bites, with the
properties that would catch it going wrong.

## 2. Modules

```
FrameStream <-- Ring (RingProofs) -------------+
                RingFamily (HookProofs) -------+-- MCMetalHook
                MetalHook (HookProofs) --------+
EventLog <-- SessionWriter (SessionWriterProofs) <-- LivePolls -- MCLivePolls
                SessionFile             SessionDamage --+
             Attribution <- ScopeMemory ----------------+-- MCReading
             SessionCache, Replay, CrashVerdict,        |
             CommandBuffers ----------------------------+
             (ReadingProofs, but SidecarProofs for
             Attribution, none for ScopeMemory)
SessionRouter (SessionRouterProofs) -- MCSessionRouter
Recording (RecordingProofs), SidecarClient, SidecarHooks (SidecarProofs) -- MCClients
Supervisor <- Daemon, PostMortem <- Subscriber (DaemonProofs) -- MCDaemon
```

`A <-- B`: B is shown to implement A, or extends it. `MC*` modules hold the
values of the constants for TLC; each `.cfg` is one run. MCMetalHook, MCReading,
MCDaemon and MCClients put components beside each other that share no state in
the code either: a variable `focus` says which one a behaviour is about, and the
others stay where they began. That makes one run of several small models.
Where components do interact, one module holds both (Subscriber on PostMortem,
Daemon on Supervisor, LivePolls and SessionDamage on SessionWriter, ScopeMemory
on Attribution). Operators commented
"Mutant" are single plausible bugs; no specification uses them, and each is
listed in `PROJECT.json` with the property it must break when it replaces the
definition below it.

### Ring and FrameStream

`FrameStream` is the promise: frames are accepted or refused, accepted frames
come out once each and in order, refusals are reported and never over-reported.

`Ring` is the code at the granularity of its memory accesses, positions in units of 8
bytes. A writer thread goes through `write_frame_locked`: `Lock`, then `Drop`,
or `WritePad` and `PublishPad` (and back to the check for space), or
`WriteHeader`, `WriteBody`, `Publish`; only `head`, `tail` and `dropped` are
atomic, so the data area changes in several steps and the reader may look
between any two of them. A process forked from the application shares the
mapping and copies the lock; `AtforkChild` is the handler of `ring.c`. `Kill`
ends a process at any step. The probe is `Tick`, `LoadHead`, `ReadHeader`,
`SkipPad`, `Decode`, `Release`, `Resync`, `Report` (`RingReader::next` inside
`RingDrain::drain`), `Cancel` its detach. `Corrupt` is a stray store of the
application into a frame header.

### SessionFile, SessionWriter, EventLog, SessionDamage

`SessionFile` is the file as a sequence of cells in both formats (back-to-back
zstd frames; chunks with a length prefix, a footer index and a trailer) and
the reader as functions of it: `Read` (with the scan, its resynchronisation
and the damage it reports) and `ReadFiltered` (through the index). What
compression yields is a length chosen within bounds; what CBOR yields is the
identity of the event and its size.

`SessionWriter` is `SessionWriter` and `Appender` of `writer.rs`. One call
(`WriteEvent`, `Flush`, `Finalize`) is a chain of steps: `Push`; seal in three
(`SealUnit` or `SealFails` or `SealNothing`, then `GiveUp` as room requires,
then `Enqueue`); drain unit by unit (`DrainUnit`, `DrainDone`, `DrainFails`,
which leaves any prefix of the unit in the file and a cut that works or
fails); footer and metadata. `Crash` may come between any two of them or leave
any prefix of the write in flight.

`EventLog` is the promise: events are numbered as they are accepted, reach the
file in that order and stay there; the others are held or knowingly given up;
closing leaves none in doubt.

`SessionDamage` extends the writer: once it has ended, cells are flipped
(which may make a length prefix or the footer's offset point anywhere) or the
end is cut off.

### SessionRouter

One action per critical section of `by_pid`, `by_token`, `attach_order`;
`call[t].at` says where thread `t` stands between two of them. `by_token` and
a session's own lock are only held inside one action; `by_pid` and
`attach_order` can be held across actions, because `newest_scoped` takes one
under the other. `AttachScoped` to `DropPrevToken` is `attach_scoped`,
`Emit` to `WriteEvent` is `append_stamped` with `route_for`, `DetachScoped` to
`RemoveToken` is `detach_scoped`, `FinalizeAll` to `FinalizeNext`, `FlushAll`
and `FlushDone` the calls of the same names. A session's writer may accept or
refuse an event (`MayRefuse`); what happens inside it is SessionWriter.

### Recording

`record` from the creation of the ring to its removal, with the child held at
the exec gate; the daemon's handler of its connection, one step per await; the
probes and the hook's probe of that pid; `Stop`, `ShutdownProbes`,
`FinalizeAll`, `Exit` (the stages of `main.rs`), `Crash`, and `Boot` with the
recovery of sessions and rings. `Kill` kills the client at any step. A
connection that is lost goes through the cleanup of `server.rs`
(`Disconnected`, `AwaitChild`, `AutoUnhook`, `AutoRemoveRing`,
`AutoStopProbes`, `AutoDetach`), which waits for the child to be gone.

### RingFamily and MetalHook

`RingFamily` is who writes which ring: the processes below the recorded
command `Claim` the ring of `record` by flock or make their own under a
temporary name and rename it, fork, execute other programs and exit; the probe
looks for rings every `ScanEvery` passes and drains those it has opened;
`record` waits, detaches, removes. A ring only counts its frames.

`MetalHook` follows each command buffer through `hook.mm`: encoder with a slot of the
sample pool, commit seen at every wrapper's layer, the queue's box and its
depth, arming, completion, dealloc and the address used again; the back-off of
the sampling after failed allocations; the table of buffers in flight behind a
serial queue.

### Supervisor, Daemon, PostMortem, Subscriber

`Supervisor` is `run_with_restart` for one probe, which may say anything of itself each
time it is run (`Probe::health`: a stub says failed, the thermal probe degraded), with
its events of health in that order. `Daemon` is `main()` by system
calls: the pid file created, written, read, removed, the socket probed, removed
and bound, recovery of the sessions of dead daemons, serving, the stages of a
stop; beside it `smeltr daemon restart`. Any process may be started at any time
and killed anywhere.

`PostMortem` is `ActiveSession::append_internal` as far as the recorder and the bus
see it (an instant taken, a push, a send), the watcher with its gate, and the panic
hook on any thread at any place. `Subscriber` adds the streaming handler and the
reconnecting client.

### SidecarClient and SidecarHooks

`SidecarClient` has one step per access to a variable that another thread of
the interpreter writes: `emit` (room, append, look, wake), the sender's loop
(report, take, exchange, idle), `hello`, `close`, a forked child, and the
daemon behind it.

`SidecarHooks` keeps each handler twice, in the program as it is and in the
same program without the sidecar (`plain`), through handlers set, chained and
put back, attach and detach in the main thread or another; `Outcome` says what
a signal or an uncaught exception runs. The same module has `when_imported`, `_Finder`,
`_fire` and `cancel_all` while other threads import.

### The readers

`CommandBuffers` produces the frames of command buffers (as `hook.mm` orders them,
pointers reused, frames lost) and gives them to four folds that pair them again:
the clamp, the breakdown's pairing, the trace, the TUI's panel. `Attribution`
produces the events of the sidecar's stacks (two threads, calls that overlap and
are dropped, evals) and defines the windows, the sweep, the tree and the
notices on them; `ScopeMemory` adds samples that reach the session late.
`SessionCache` is the cache's key, peek, decode and store between which files
change. `LivePolls` polls a session that SessionWriter is writing. `Replay` is the cursor
and the clock. `CrashVerdict` has the end of a run and of its session in every
combination, the passes in which macOS writes a report and the purge of it, the
probe that emits incidents, and overlapping analyses.

## 3. Runs

| Run | Instance | Shows |
|---|---|---|
| RingSafety (MCMetalHook) | ring of 8 units, two threads and a forked child, 4 attempts, frames of a quarter, a half and three quarters; or three processes, two rings beside `record`'s, a frame in each; or two buffers of three layers, three uses, a pool of one slot | `StreamSpec` (the ring implements FrameStream), a header always fits, one writer per ring and a detach that leaves nothing undrained of what two looks could find, the hook's marks, depth, slots and table exact |
| RingLive (MCRing) | one thread, a child, 3 attempts, one stray store, smallest and largest frames, fairness | regions safe; the reader always catches up; drops are announced; what follows a corruption arrives |
| SessionLegacy (MCSessionWriter) | frames; 3 events of three sizes (one refused), batches of 2 cells, backlog of 3, 2 outages, an encoder that fails, fairness | `EventLogSpec`, torn tails, storage error, counters, durability, results of `write_event`; held events reach the disk |
| SessionChunked (MCLivePolls) | chunks of at most 3 cells, smallest and largest events of 2 sources, timestamps in any order, 1 outage, 27 filters; a client that polls | limits, index entries exact, filtered reading agrees with reading all, polls tell each event once and the end when all were told |
| Router (MCSessionRouter) | 3 threads, 2 pids, 2 tokens, each for recordings of one pid (without this limit the run takes longer and passes too), 3 sessions, 1 event, writers that may refuse | one owner until finalized, registry consistent, events where they belong and on the bus, some call proceeds |
| Clients (MCClients) | 2 recordings and 1 stop or death of the daemon; or 2 emitters, a queue of 1, batches of 2, 2 events, 1 failure; or 3 changes of handlers and 2 attaches; or 2 libraries and 2 attaches; fairness | no command unrecorded, nothing left or taken early, `record` returns and sessions end; every event once or counted, nothing waits; handlers as without the sidecar, libraries instrumented |
| Daemon (MCDaemon) | 3 processes, 2 homes, 1 kill, a restart, a probe of 3 runs that says ok or failed of itself; or 2 publishers, 3 events, a recorder of 2, a bus of 2, 1 panic, a client; fairness | starts sound, a probe given up for cause and shown so, a stop ends; post-mortems right, a panic proceeds, a client is served |
| Reading (MCReading) | see `MCReading.tla`: 2 damages of 3 chunks; 3 buffers on 2 pointers, 1 lost frame; 6 steps of 2 threads with 3 calls; 3 samples; 2 tools, 2 sessions of which one grows; 3 recordings, seeks of 1 and 2; 2 analyses, 2 passes of a report | damage is handled, buffers are paired, time is conserved and advice true, memory goes to its call, cached data is fresh, the screen shows the moment, a death is explained |
| LostRing, HiddenDamage, LostCompletion, ChainedSignal | the smallest instance of RingFamily, SessionDamage, CommandBuffers, SidecarHooks in which it happens | violations, see section 6 |

### Why the bounds are enough

*Ring.* Eight units is the smallest ring the code creates. Four attempts with
three frame sizes put `head` at every aligned offset, fill the ring, wrap it,
need a PAD with and without room for the frame after it, and drop. Two threads
are enough for every race on the lock; the forked child is a third writer. The
invariants about regions and headers are also proved for all sizes.

*RingFamily.* The probe looks every 25 ticks and `record` waits 20 of them
(200 ms); `ScanEvery = 2` and `DrainWait = 1` keep what matters, that the wait
is shorter than the time between two looks and has room for a pass. Three processes are a launcher, a
worker and a forked child. *MetalHook.* Three layers are a buffer under two
wrappers, two buffers and one slot meet an empty pool, three uses reuse an
address.

*SessionWriter.* Three events give a full batch, an event that seals the
previous batch first, and a unit in the backlog behind one whose write failed;
two outages give a failure after a recovery. Cells let a write stop after any
prefix. Three units are the least that have a neighbour on both sides for
damage; two damages can hit a footer and a unit, or two units.

*SessionRouter.* Three threads let a detach, a superseding attach and the
shutdown meet at one session; two pids and two tokens give a recording, a
descendant with its token, and a process without one. The third session (one
is the ambient) is the superseding one. One event suffices: events interact
only through the registry.

*Clients.* Two recordings share one daemon, one recovery and one sweep of the
rings; which of two alike clients or threads goes first is fixed, since
exchanging them changes nothing. A queue of one is full at once, a batch of two
loses a neighbour. Handlers and imports interact with nothing but attach and detach,
so they are explored apart; three changes are the least that set, chain and put back.

*Daemon.* Two starters of one home race, a third process has another home and
the same socket; `StartsAreSoundAlways` covers any number of each. Three runs of the
probe reach the limit of three failures, with a healthy run in any place, and the first
doubling of the pause; a probe that says degraded is as one that says ok, and
`GivenUpForCauseAlways` covers both and any limits. A recorder and a bus of two evict and lag at the third event;
two time units are longer than the window and as long as the interval between
dumps.

*Reading.* Two values stand for pointers, threads, tools and analyses, with one
symmetry that exchanges them; the two queues have values, and a symmetry, of
their own. Three buffers reuse a pointer twice over; three calls
are two of one name and one of another, nested or overlapping. A day of the
verdict's clock is the grace; `SeenCap = 2` is just reached by two incidents,
and what happens beyond it is not explored. Analyses are explored where the
probe does not watch, emissions where nobody analyzes.

`CHECK_DEADLOCK FALSE` everywhere: applications stop writing, sessions end,
bounds are used up. Symmetry is used only over values that nothing tells apart,
and only in runs without liveness.

## 4. Fairness

* Ring: weak fairness of the probe's polling (a 10 ms timer until it is
  cancelled) and of a thread inside `write_frame`, which waits for nothing once it
  has the lock. Nothing makes an application write, fork or die.
* SessionWriter: a call once begun goes on (weak); the daemon's 500 ms flush is
  called again and again (strong, because the writer is busy in between); a
  disk that refuses writes takes them again some day (weak). The last one is
  not the code's to justify; it is what "the event reaches the disk" is
  conditional on. `MaxOutages` bounds how often the disk fails.
* Recording: some process that can go on does (`record`, the exec gate, the
  connection handlers, the daemon's shutdown), and a daemon that is gone is started
  again (launchd, `KeepAlive`). No process goes on for ever by itself here, so
  one condition serves for all. None for the command, which may run for ever,
  nor for kills and stops.
* SidecarClient: weak fairness of each thread inside `emit`, of the sender and of
  `close`, of the daemon's answers and of its restart. A select may time out at
  any time but nothing relies on it (`NoLostWakeup`).
* Daemon: weak fairness of each process once started, of the probe's task and of
  the CLI, not of starts. Feed: weak fairness of the panic hook, the restart of
  an aborted daemon, the handler and the client; none of publishers.

## 5. Assumptions and abstractions

* The ring's counters do not wrap (2^64 bytes). Stores of the header become
  visible in program order, as the release store of `head` guarantees for what
  precedes it.
* Batches, units and files are counted in cells; a zstd frame decodes iff it is
  whole. A read of damaged bytes never yields a wrong event (the checksum).
* The pid of a child is not reused while the daemon holds it (Recording), nor
  that of a victim within the grace of its report (CrashVerdict); SessionRouter
  does reuse pids, one call per pid at a time (`Busy`).
* Tokens are fresh for every attach (`record.rs` makes a UUID).
* In SessionRouter the bus is a set: events are published after the session's
  lock is released and nothing promises an order. PostMortem has the order.
* `ShutdownProbes` and `Boot` of Recording are one step each; a signal before
  the daemon's handlers are installed is a crash. AttachMetalHook is never refused
  by the daemon, so the branch of `record` for a refusal is not modelled.
* MetalHook: no thread spends the 30 s of the retry interval inside one
  sampling attempt. Without that, sampling can stay off for ever (section 6).
  Completion handlers of one queue run one after another.
* Attribution: events are in time order; ScopeMemory has the samples that are not.
* Supervisor: a probe does not panic, since in smeltrd that aborts the process (a kill
  of Daemon, and PostMortem's hook).
* CrashVerdict: one call per analysis, the footprint always rises, no rule
  finds a root cause of its own.
* SidecarHooks: calls of attach and detach do not overlap; a connection that
  fails leaves everything as it was.

## 6. Where the code and its comments disagree

With a run that shows it:

* **LostRing** (`smeltr-probes-metal-hook/src/lib.rs:72`). The probe knows a ring by
  its path. A process with a ring of its own that executes another hooked
  program replaces the file under the same name, and the probe goes on draining
  the old one. `ring.c:34-36` says each such ring is drained.
* **HiddenDamage** (`chunked.rs:334`). The scan advances by the length prefix of a
  chunk, which nothing protects, and `decode_chunk` ignores what follows the first
  zstd frame of the slice: a prefix damaged to span the next chunk too makes
  the scan step over an intact chunk without a word when the session was never
  finalized. A finalized session is safe: the count in its metadata shows the gap
  (`FinalizedDamageIsReported`).
* **LostCompletion** (`breakdown.rs:220`). When the completion frame of a buffer is
  lost, its kernels replace those of the last completion of the same pointer.
* **ChainedSignal** (`_shutdown.py:54`). A program that installs, after attach, a
  SIGTERM handler that calls the one it replaced calls `_sigterm_handler`, which
  ends the program where it would have carried on.

Met while modelling, without a run of its own. In the daemon:

* `main.rs:231,235`: aborting the accept loop leaves connections open; an attach
  that registers after `finalize_all` has drained the map has a session that only the
  next start closes.
* `server.rs:169,217`: a client killed between DetachMetalHook and the removal of
  its ring leaves the ring until the next start.
* `main.rs:34`: of two starters that find a stale pid file, the second may remove
  the file the first has just claimed, against the comment at 43-44
  (`StartsAreSound` excepts exactly this). `main.rs:241`: a stop removes the
  socket even when it is by now that of another home's daemon.
* `server.rs:207`: the Ack of SubscribeEvents is written before the handler
  subscribes: events in between are not seen. `bus.rs:3-4` says a lagging subscriber
  is dropped; `stream_events` goes on.
* `panic_flush.rs:22-25`: the panic of a second thread aborts while the first is
  still saving. The trigger gate records an admission before a flush that may fail.
* `mark.rs:38-41`: a mark may go to another recording when the one it names ends
  between the check and the routing.
* `record.rs:389-390`: a ring first created in the last look's interval is never
  opened. A process that opened the main ring before its removal may leave its own
  behind.

In the hook:

* `hook.mm:65-69` says sampling comes back after the retry interval. A thread that is
  stopped for that whole interval between its look at `was_enabled` (off already, by
  another thread) and its own store that disables the sampling turns off what another
  thread has enabled again in the meantime, with no retry scheduled: the sampling stays
  off. TLC finds this in a second without the assumption of section 5.
* `smeltr_cb_gpu_window` loads and exchanges in two steps, right only if completion
  handlers of a queue never overlap.
* `hook.mm:1704`: a buffer freed between the exchange of the implementation and the
  store of the original one calls a null pointer.
* Slots of encoders attached to another layer of a buffer are given back at
  dealloc only.

In the sidecar:

* A SIGTERM handler left behind by a detach in another thread (only the main one
  may set handlers) finds no previous handler and ends the program
  (`_shutdown.py:104-108`); attached again, it finds itself and recurses.
  The same holds for a handler or an exception hook the program had chained: after
  a detach the traceback is lost. `SidecarIsTransparent` excepts slots where
  our handler was left behind.
* `_shutdown.py:90-94`: a signal between the installation and the assignment of
  `_prev_sigterm` finds none.
* `_importhook.py:30`: an import under way when the library is registered is never
  instrumented, and one that is executing is patched half-initialised; a callback
  may run after a concurrent detach; removing the finder while another thread
  walks `sys.meta_path` can make it skip the next one.
* `_panic_stop.clear()` and `_poll_stop.clear()` revive a thread that outlived the
  join of its predecessor.
* `_client.py`: an emit that races `close` can vanish uncounted; a sender that is
  connecting at `close` may leave its socket open; a forked child's sender started
  after `close` stops only by the 0.5 s timeout.
* Call ids of several Python processes of one recording collide.

In the readers:

* Frames lost on the way leave a stale clamp window, and shift `pending_ops` of the
  trace. `dispatch_origins.rs:30` says "Empty if no events carry stack_frames" but
  scope rows are produced.
* A session finalized while it is decoded is reported as damaged.
* `scope_windows` closes unreturned calls at the last event in file order, though
  the file is not in time order.
* `app.rs:155`: events that come while live mode is paused are dropped.
* `crash_join.rs`: "its absence means exactly session alive" is false while the daemon
  is down; an orderly stop of the daemon is a third way to an exit code of None,
  so a run that lives on is presumed a memory death, and so is one ended by a
  closed terminal (SIGHUP, relayed by `record.rs:376`), though line 572 excludes
  stops by the user. Two overlapping analyses can keep different reports, and one that
  meets `crash.json` emptied for a rewrite scans again ("cannot disagree",
  #242). A crash of a grandchild is not joined, a jetsam kill is. A restarted
  crash-reports probe forgets what it has seen.

## 7. Proofs

TLAPS checks these for every value of the constants that satisfies the
assumptions the modules name: bounds are naturals and sizes and limits positive;
values that stand for nothing are not among those they stand beside. Of the code
itself they say that the ring's header is at most the alignment, which divides the capacity;
that a chunk has room for the largest frame; that a command buffer has at most
eight layers (the code gives up at eight) and the program finitely many; that
`record`'s wait has room for a pass of the probe. Each module of proofs is laid
out alike: an inductive invariant in named parts, a lemma for each part or each
action that can disturb it, the theorem.

*RingProofs.* `TypeOK` is inductive with the offsets' range. The safety of
regions is not inductive by itself: that a writer's bytes lie in free space
needs that the space it checked is still free (the reader only moves `tail`
forward: `ReaderCursor`), that nobody else moved `head` (`ExclusiveWriter`),
which needs who holds which lock and which process may write
(`LockDiscipline`). `SafeRegions` is their conjunction. Theorems: `TypeCorrect`,
`RegionsAreSafe` (including under stray stores: the reader validates a length
before it moves `tail`), `HeaderFitsAlways` (all cursors are multiples of the
alignment, which divides the capacity, so a header never straddles the end),
`NothingLostSilentlyHolds`. `RingImplementsStream` is the refinement of FrameStream,
step by step. Its invariant says that the unread bytes are a chain of segments,
each a PAD or the next frame published (`UnreadIsChained`, with functions from
a segment's number to its place and to the frames before it); that the writer holds what it has
stored so far beyond `head` (`BeyondHead`); and that it is a new frame. A writer
cannot spoil the chain because positions less than a lap apart have different
offsets (`LapApart`, `UnreadApartFromFree`). It assumes
`MaxCorruptions = 0`, as the run does: a stray store does break the promise.

*SessionWriterProofs.* `Inv` is the conjunction of the type invariant, what each control
point knows (`ControlInv`), the order of what is in memory (`MemoryInOrder`), the
accounting (`BacklogSum`, `LostIsGone`, `DropsAreCounted`), the file
(`CursorInFile`, `TornTailIsOverwritten`, `IndexIsExact`, `IndexedFrames`) and
the error flag (`ErrorInv`). The torn tail needs the cursor to be within the
file and the head of the queue to be the unit that was torn; the index needs the
cursor to be past every indexed chunk, and overwriting at the cursor to change
nothing before it (lemma `OverwriteProperties`). Theorems: `TypeCorrect`,
`TornTailOverwritten`, `StorageErrorCurrent`, `IndexExact`, `DropsCounted`. On top
of it `LimitsAreKeptAlways` needs that an event to be pushed fits its batch, or finds it empty
(`BatchFits`), so that `ChunkAssumption` bounds the frame; and that a disk that takes
every write leaves no queue to a unit that is added (`Healthy`). `WriteResultTrue` needs that the
event of a write that seals behind it is the last one accepted (`ResultInv`).

`FileInv` is about what a reader makes of the file. `FileHolds` says that the file is some
units `D`, laid whole one behind the other from `HeadLen` to the cursor (`Laid`), which
the index describes (`EntriesOf`), and a tail: nothing, a beginning of one unit (`Begun`),
or the footer or its body (`FooterBegun`). The lemmas `ScanReads` (induction from the
end, with the scan's look-ahead for damage), `IndexReads` (induction over the entries) and
`EverythingIsRead` show that a reader of such a file gets the events of `D`, whichever way it
takes and whatever the tail; `FileGrows`, `TornUnit`, `FooterWritten` and `CrashDisk` that a write
that succeeds adds a unit to `D` and that any other write, cut or crash leaves `D` alone.
`QueueInv` says that a torn tail belongs to the unit waiting next, and
`BatchIsSealed` that a flush and a finalize leave no batch; `StoredInv` that what is stored is in
order, older than anything in memory, and with that and the losses makes up all that was
accepted. `QuietMemory` sums up what each step does to memory: nothing, gain an event, or
give some up. From these follow `WriterHonest`, which is `WriterKeepsItsWord`, and
`WriterImplementsEventLog`, which is `EventLogSpec`. `WriterHonest` assumes a flush threshold of 0
(`FLUSH_MIN_BYTES` in `chunked.rs`): with a larger one a flush may return Ok with a
batch still in memory.

`FilteredReads` is `FilteredReadAgrees` for every filter. `SummaryInv` says that the bounds
and the sources of the batch, and of each unit queued, being sealed or in the index, cover
its events (`PushCovers`, `SealedCovers`, `IndexSummary`); so a chunk that a filter skips
holds no event that matches (`MatchOverlaps`), and the filter applied to what is left of the
file gives what it gives of the whole (`FilteredMatches`, by induction over the units, from
`MatchingConcat` about selecting from two sequences one behind the other).

`PollsContinueAlways` (LivePolls) adds that what the polls of a client told is a beginning of
what is stored, and that a poll which found the session closed finds no more to come:
by `FileInv` a reader gets exactly what is stored, whatever is torn at the time, and that
only grows at its end (`PollsInv`).

*SessionRouterProofs.* `SessionsAreOwned` needs, of each call, where it may
stand and what it is about (`CallIsSound`); that one attach or detach at a time is
about a pid (`PidsAreExclusive`, the `Busy` of the model); that the owner of an
open session is its entry in `by_pid` or the one call that has taken it (`Owned`); that before
the shutdown the token is registered but at both ends of a session's life
(`TokenIsSound`) and `attach_order` names the registered pids but those about to
be added or removed (`OrderIsSound`); and that a pid stays registered between an
attach's insertion and its end (`PidIsHeld`). `EventsGoHome` needs also what an event's
call has found out so far about the recordings that last throughout it
(`RouteIsSound`), that what was a recording then is not registered again (`SinceIsSound`), and
that no two calls have the same event to publish (`PublishedOnce`). The two
recursive functions of the module, `Without` and `Newest`, are described by lemmas
proved through the least number for which they would be false.

*RecordingProofs.* `IInv` says of each recording, whatever the others do: one
message is on its way at a time, and where (`OneMessage`); what the child may do
while `record` stands somewhere (`ChildAtGate`); that the session comes before the
gate is opened (`SessionFirst`); what the handler's list says is attached, is (`Attachments`); the
ring is there while the hook is (`RingInUse`); a child let go is observed while its
daemon serves (`Observation`); and how a session may have ended (`Ending`). The three safety
properties of the run follow.

*HookProofs.* `FamilyInv`: who writes a ring holds its lock; a file without its
name is its maker's alone; the probe's file of a name is no later than the
name's (`OpenedIsOwn`); what the probe has not found, and could have, is younger than
two looks (`AgeIsSound`); and a pass made after the end took all that was due
(`DrainIsSound`). `HookInv`: the innermost layer of a buffer is marked from the first call
that sees it, which alone records it; one box is made for a queue; a thread that finds
sampling off within its attempt follows another one that has the retry set or is
about to (`SamplingInv`; here the assumption on `RetryComesDue` of section 5 is needed);
the last task of a buffer in the serial queue, or with none the table, says whether
it is in flight (`TableInv`); free slots are distinct, nobody's, and with those given out
all there are (`SlotsInv`).

*DaemonProofs.* `DaemonInv`: a process that has claimed the pid file finds it
its own until it ends, unless one was unlinked under a live process (`ClaimInv`); no name
stands in a file before its claim (`FilesInv`); only `restart` stops a process, and
waits for it (`ToldInv`); with nobody killed or stopped, who has its name in a file serves
or is on the way, or has left the field to one that does (`CalmInv`); what `restart` has said
stays true (`RestartInv`); the supervisor's count is that of its last failures, its pause
follows the count, and the last event is its own if it has given up, else the probe's
(`SupInv`). The proof attempt for any number of processes of a home showed that the stop removes the
socket after its pid file, when the next daemon of the home may have started:
that window is the one in which section 6 says a stop may take another's socket.

The same module proves the post-mortems and the event feed, of `FeedSpec`. What is
sent, or read by the watcher, was pushed before (`PushedFirst`); the recorder is
the end of what was pushed, and all it has let go is out of its reach for good
(`RecorderInv`: the instants of two threads need not rise, so a push may be too old
by one that came before the newest); a dump is then right when taken, and a later
push does not change what it should have held (`DumpsInv`). The gate's last admission
of a reason is the latest of its admitted decisions (`GateInv`), which makes each
decision exact (`RateInv`). Of a connection, `ConnInv`: the events taken, those in the
socket and the one in hand rise from the subscription on, and with those a lag
has passed over are all up to the handler's place (`ConnRising`, `ConnComplete`); a
frame cut by a timeout ends both claims until the connection is over.

*ReadingProofs.* The key of the cache is read before the files, and files only
grow: so the key is no newer than the data, and a hit, which finds the key of
now, has data no older than the call. `DeathIsExplainedAlways` (CrashVerdict): while a run is
alive the clock of its session is today's, and the daemon that closes or recovers a session
dates it no later than the run's death (`ClockInv`), so a stranger with the same pid
dies too late to be taken for it, and a report of the run that was due when a call began is in the
call's reach at each of its steps until it is read, or changes (`CallInv`); what the probe
remembers is what it emitted (`ProbeInv`, where the cap of the memory must be at least the
number of incidents). `ReplayShowsTheMomentAlways` (Replay): the events passed are those
whose time is up to the clock, which an advance or a seek forward keeps since the times
are sorted (ties pass together), and a seek back establishes anew.

`DamageIsHandledAlways` (SessionDamage): `FileInv` makes of a session at rest a file of
whole units and a tail, in both formats, and damage of any kind, in any number and any
order, leaves of it a beginning in which some cells no longer decode, with lengths and
offsets that may say anything (`DamageOf`; `Hurt` is the invariant). What still decodes
lies where it was laid (`WholeFrameIsLaid`, `UnitFoundIsLaid`), and a scan or a footer index,
whichever the reader takes, only moves on; so it gets events that were there, each once and
in their order (`ScanOfDamage` and `IndexOfDamage`, by induction; `DamagedIsRead`). As many of them
as the metadata counts are then all of them (`RisingSame`). When no damaged length or
offset misleads the reader it skips no cell of a whole unit (`IntactDecodes`), and gets each.
That a wrong length can cost it an intact neighbour is why the second half has
`NoMisleadingLength` as its hypothesis, in the property as in the theorem.

`BuffersArePairedAlways` (CommandBuffers): a pointer belongs to at most one buffer that is
not yet free, a queue completes its buffers in order, and each frame's time is its own
(`BuffersOK`). As many frames as were lost are missing from what the buffers were heard
of (`LossOK`), so one loss touches one buffer. The clamp remembers a scheduling only
until the completion of that buffer, a queue's last completion heard, and a window only of the
buffer whose kernels are still to come (`ClampInv`): what it scales by is the buffer's
own window, which later steps do not change (`OwnWindowLasts`). The theorem has "at most
one frame lost" as its hypothesis, which the run has as the bound `MaxLost`, because TLC
shows the property false of two: when the completion of a buffer and the scheduling of
the next with its pointer are lost, the next is scaled by a window that begins in the life before.
With none lost, each fold is described by the buffers themselves: one entry for each
completion and the place of a pointer's last (`PairOK`), one slice for each, apart on
its queue, with the kernels still awaited (`TraceOK`), and on the panel what was committed
and not completed (`PanelOK`).

*SidecarProofs.* An event is in one place at a time, pending in an emit, queued, in the
batch or with the daemon, but while the Acks of the batch are read (`OnceInv`);
then the frames the daemon has yet to read are the end of the batch, and the Acks
read and unread make up the rest (`ExchangeInv`), so the last Ack says that all of
it arrived. `CountInv` is the count with what `close()` has counted in the queue and not
yet cleared taken out, and with the emits that have appended and not returned put in;
a step loses no more events than it counts (lemma `CountKeptBy`). `WakeInv` adds
who is idle and that a `close()` that joins has said stop. Nothing is assumed of
`QueueMax`, which may be zero. `SidecarIsTransparentAlways` (SidecarHooks): at each slot the
program has the handler it would have without the sidecar, or ours stands there and has
kept that one (`HandlersInv`); a library that `attach` registered is instrumented, or at
each point of its import something is left that will do it: the finder, the wrapped
loader with a callback pending, or the callbacks about to run (`ImportsInv`, `Ready`).

`AttributionIsSoundAlways` (Attribution) needs little of the session (`AttributionInv`): its times
rise, numbers of calls rise with them and a call's parent has a smaller one
(`SessionRises`, `CallsRise`), and an eval has frames if they are captured (`EvalsAreFramed`); the
lemma `SessionGrows` says that whatever a sidecar or a driver adds keeps it. The
rest is about the functions. The sweep keeps on its stack, in the order of entering, every call
that may cover a time still to come, so the top is the innermost (`SweepIs`,
`SweptIsInnermost`, with `AscendingSorts` for the order); a lost return leaves a call open to
the end, and the sweep right. The tree has each call under its parent or, if that was
lost, at the top, and a recursion over it sums every call once (`ShownIsWhole`, by taking one
call more at a time: children are younger than parents). So kernel time is shown
or unscoped and none twice (`ShownAddsUp`), the origins agree (`OriginsAgree`), and a gap
has its advice (`GapIsUnscoped`, `NoSidecarNoScope`).

Only model-checked: all liveness; `SomeCallProceeds` and `PanicProceeds` (ENABLED);
ScopeMemory, whose samples are out of order in the file, so that what is proved of
Attribution's sweep over rising times does not carry over.

## 8. Not modelled

* Data definitions, formatting, argument parsing, rendering: the event model, CLI
  commands other than `record`, `mark` and `daemon`, the other TUI panels and MCP tools,
  per-kernel tables, heap tables, the diff, the other rules. The translation of
  hook records to events is field by field.
* Calls into the operating system and the parsing of what it returns (system
  probes other than crash reports); installing the hook's swizzles, dispatch-boundary
  sampling, tick calibration, allocation frames, Metal captures; which classes
  the sidecar patches, its polling and panic threads, model loading.
* In the reader: the early stop of a visitor, the decode threads, files of
  releases without checksums. In the writer: a batch whose encoder cannot be
  allocated.
* In the daemon: replacing the probes of a pid, the global probes, pruning of old
  sessions, unreadable metadata at recovery.

## 9. Plan

Eight modules of proofs is what the project keeps, so what is left goes into them:

1. SidecarProofs: ScopeMemory, from what is proved of the sweep and the tree, with a
   lemma on the order its samples are put in.
