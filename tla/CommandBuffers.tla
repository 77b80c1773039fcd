---------------------------- MODULE CommandBuffers ----------------------------
(***************************************************************************)
(* What the analysis makes of the frames the Metal hook sends about each   *)
(* command buffer: committed, scheduled, completed and, from the same      *)
(* completion handler, the GPU times of its kernels.  A frame names its    *)
(* buffer by pointer, and Metal recycles pointers; a frame is lost when    *)
(* the ring is full.  Four consumers pair the frames again, each by a fold *)
(* of its own over the session:                                            *)
(*   clamp   analyzer/op_clamp.rs, the window a buffer's times are         *)
(*           scaled down to;                                               *)
(*   pairs   analyzer/breakdown.rs, the completions with their kernels;    *)
(*   trace   analyzer/export.rs, the GPU slices of the Chrome trace;       *)
(*   panel   tui/state.rs, the buffers in flight on each queue.            *)
(* Time is the number of frames sent so far.                               *)
(***************************************************************************)
EXTENDS Integers, Sequences, FiniteSets, FiniteSetsExt, SequencesExt, TLC

CONSTANTS
  Pointers, Queues,
  OpTimes,        \* the kernel times a buffer may report, as sequences
  MaxBuffers,     \* bound: buffers committed
  MaxLost         \* bound: frames lost

ASSUME BufferAssumption ==
    /\ OpTimes \subseteq Seq(Nat) /\ MaxBuffers \in Nat /\ MaxLost \in Nat

VARIABLES
  buffers,        \* the buffers committed so far, in order
  sent, lostFrames,     \* frames sent, frames lost among them
  clamp, shownTimes,   \* the clamp's fold; the kernel times shown, by buffer
  pairs, trace, panel

bufferVars == <<buffers, sent, lostFrames, clamp, shownTimes, pairs, trace, panel>>

None == -1
OpSum(ops) ==
    LET sum[i \in 0 .. Len(ops)] == IF i = 0 THEN 0 ELSE sum[i - 1] + ops[i]
    IN  sum[Len(ops)]
Later(a, b) == IF a > b THEN a ELSE b
SatMinus(a, b) == IF a > b THEN a - b ELSE 0

-----------------------------------------------------------------------------
(* op_clamp.rs: a forward state machine, fed one event at a time.          *)

ClampInit == [sched |-> [p \in Pointers |-> None],
              done |-> [q \in Queues |-> 0],
              window |-> [p \in Pointers |-> None]]

ClampScheduled(c, f) == [c EXCEPT !.sched[f.cb] = f.ts]

\* Mutant: a completion without its scheduled frame leaves an older window.
ClampCompletedKeeps(c, f) ==
    [c EXCEPT !.sched[f.cb] = None,
              !.window[f.cb] = IF c.sched[f.cb] = None THEN @
                               ELSE SatMinus(f.ts, Later(c.sched[f.cb], c.done[f.queue])),
              !.done[f.queue] = f.ts]

ClampCompleted(c, f) ==
    [c EXCEPT !.sched[f.cb] = None,
              !.window[f.cb] = IF c.sched[f.cb] = None THEN None
                               ELSE SatMinus(f.ts, Later(c.sched[f.cb], c.done[f.queue])),
              !.done[f.queue] = f.ts]

ClampOps(c, f) == [c EXCEPT !.window[f.cb] = None]

\* The kernels' times as shown: scaled down, never up.
Scaled(c, f) ==
    LET window == c.window[f.cb]
        sum == OpSum(f.ops)
    IN  IF window # None /\ sum > window
        THEN [i \in DOMAIN f.ops |-> (f.ops[i] * window) \div sum]
        ELSE f.ops

Clamp(c, f) == CASE f.kind = "scheduled" -> ClampScheduled(c, f)
                 [] f.kind = "completed" -> ClampCompleted(c, f)
                 [] f.kind = "ops" -> ClampOps(c, f)
                 [] OTHER -> c

-----------------------------------------------------------------------------
(* breakdown.rs, pair_command_buffers: what was completed, with the        *)
(* kernels of that lifetime.  "of" is the buffer, for the properties only. *)

PairInit == [commit |-> [p \in Pointers |-> None],
             completed |-> <<>>,
             last |-> [p \in Pointers |-> 0]]

PairCompleted(s, f) ==
    IF s.commit[f.cb] = None THEN s
    ELSE [commit |-> [s.commit EXCEPT ![f.cb] = None],
          completed |-> Append(s.completed, [commit |-> s.commit[f.cb],
                                             of |-> f.of, ops |-> None]),
          last |-> [s.last EXCEPT ![f.cb] = Len(s.completed) + 1]]

PairOps(s, f) ==
    IF s.last[f.cb] = 0 THEN s
    ELSE [s EXCEPT !.completed[s.last[f.cb]].ops = f.of]

Pair(s, f) == CASE f.kind = "committed" -> [s EXCEPT !.commit[f.cb] = f.ts]
                [] f.kind = "completed" -> PairCompleted(s, f)
                [] f.kind = "ops" -> PairOps(s, f)
                [] OTHER -> s

-----------------------------------------------------------------------------
(* export.rs, to_chrome_trace: the GPU slice of each buffer, and its       *)
(* kernels one after the other inside it.  A slice starts no earlier than  *)
(* the end of the one before it on the queue.                              *)

NoWindow == [start |-> None, end |-> None, of |-> None]
NoCb == [commit |-> None, sched |-> None]

TraceInit == [open |-> [p \in Pointers |-> NoCb],
              awaiting |-> [p \in Pointers |-> NoWindow],
              pending |-> [p \in Pointers |-> <<>>],
              busy |-> [q \in Queues |-> 0],
              slices |-> {},     \* [queue, start, end, of]
              drawn |-> {}]      \* [window, ops]: kernels drawn in a window

Window(t, f) ==
    LET cb == t.open[f.cb]
        begun == IF cb.sched = None THEN cb.commit ELSE cb.sched
        start == Max({begun, cb.commit, t.busy[f.queue]})
    IN  [start |-> start, end |-> Later(cb.commit + f.inFlight, start), of |-> f.of]

TraceCompleted(t, f) ==
    LET w == Window(t, f)
        slice == [t EXCEPT !.open[f.cb] = NoCb,
                           !.busy[f.queue] = w.end,
                           !.slices = @ \cup {[queue |-> f.queue, window |-> w]}]
    IN  IF t.open[f.cb].commit = None THEN t
        ELSE IF t.pending[f.cb] # <<>>
        THEN [slice EXCEPT !.pending[f.cb] = <<>>,
                           !.drawn = @ \cup {[window |-> w, ops |-> t.pending[f.cb]]}]
        ELSE [slice EXCEPT !.awaiting[f.cb] = w]

TraceOps(t, f) ==
    IF t.awaiting[f.cb] = NoWindow
    THEN [t EXCEPT !.pending[f.cb] = Append(@, f.of)]
    ELSE [t EXCEPT !.awaiting[f.cb] = NoWindow,
                   !.drawn = @ \cup {[window |-> t.awaiting[f.cb], ops |-> <<f.of>>]}]

Trace(t, f) ==
    CASE f.kind = "committed" ->
            [t EXCEPT !.open[f.cb] = [commit |-> f.ts, sched |-> None]]
      [] f.kind = "scheduled" ->
            IF t.open[f.cb].commit = None THEN t
            ELSE [t EXCEPT !.open[f.cb].sched = f.ts]
      [] f.kind = "completed" -> TraceCompleted(t, f)
      [] f.kind = "ops" -> TraceOps(t, f)

-----------------------------------------------------------------------------
(* state.rs, ingest_payload: in flight on each queue, with commit times.   *)

PanelInit == [q \in Queues |-> {}]

Panel(s, f) ==
    CASE f.kind = "committed" ->
            [s EXCEPT ![f.queue] = {e \in @ : e.cb # f.cb} \cup {[cb |-> f.cb, ts |-> f.ts]}]
      [] f.kind = "completed" -> [s EXCEPT ![f.queue] = {e \in @ : e.cb # f.cb}]
      [] OTHER -> s

-----------------------------------------------------------------------------
(* The hook.  A queue runs its buffers in order; the kernels' times are    *)
(* sent from the completion handler, if any were sampled; the pointer is   *)
(* free again when the handler is done.                                    *)

BufferInit ==
    /\ buffers = <<>> /\ sent = 0 /\ lostFrames = 0
    /\ clamp = ClampInit /\ shownTimes = <<>>
    /\ pairs = PairInit /\ trace = TraceInit /\ panel = PanelInit

Buffers == DOMAIN buffers

\* The kernel times shown, with those of the buffer b.
WithTimes(b, times) ==
    [a \in DOMAIN shownTimes \cup {b} |-> IF a = b THEN times ELSE shownTimes[a]]

\* One frame about the buffer b: every consumer reads it, or the ring was full.
Send(b, kind, r, arrives) ==
    LET f == [kind |-> kind, of |-> b, ts |-> sent + 1, cb |-> r.cb, queue |-> r.queue,
              ops |-> r.ops, inFlight |-> sent + 1 - r.commit]
    IN  /\ sent' = sent + 1
        /\ IF arrives
           THEN /\ lostFrames' = lostFrames
                /\ clamp' = Clamp(clamp, f)
                /\ shownTimes' = IF kind = "ops" THEN WithTimes(b, Scaled(clamp, f)) ELSE shownTimes
                /\ pairs' = Pair(pairs, f)
                /\ trace' = Trace(trace, f)
                /\ panel' = Panel(panel, f)
           ELSE /\ lostFrames < MaxLost
                /\ lostFrames' = lostFrames + 1
                /\ UNCHANGED <<clamp, shownTimes, pairs, trace, panel>>

CbCommit(p, q, ops, arrives) ==
    /\ Len(buffers) < MaxBuffers
    /\ \A b \in Buffers : buffers[b].cb = p => buffers[b].stage = "free"
    /\ LET r == [cb |-> p, queue |-> q, ops |-> ops, stage |-> "committed",
                 commit |-> sent + 1, sched |-> 0, done |-> 0,
                 got |-> IF arrives THEN {"committed"} ELSE {}]
       IN  /\ buffers' = Append(buffers, r)
           /\ Send(Len(buffers) + 1, "committed", r, arrives)

\* The buffer's next frame.
CbAdvance(b, from, to, arrives) ==
    /\ buffers[b].stage = from
    /\ buffers' = [buffers EXCEPT ![b].stage = to,
                                  ![b].got = IF arrives THEN @ \cup {to} ELSE @,
                                  ![b].sched = IF to = "scheduled" THEN sent + 1 ELSE @,
                                  ![b].done = IF to = "completed" THEN sent + 1 ELSE @]
    /\ Send(b, to, buffers[b], arrives)

CbSchedule(b, arrives) == CbAdvance(b, "committed", "scheduled", arrives)

CbComplete(b, arrives) ==
    /\ \A a \in 1 .. b - 1 : buffers[a].queue = buffers[b].queue =>
                                buffers[a].stage \notin {"committed", "scheduled"}
    /\ CbAdvance(b, "scheduled", "completed", arrives)

CbReport(b, arrives) ==
    /\ buffers[b].ops # <<>>
    /\ CbAdvance(b, "completed", "ops", arrives)

CbRelease(b) ==
    /\ buffers[b].stage = IF buffers[b].ops = <<>> THEN "completed" ELSE "ops"
    /\ buffers' = [buffers EXCEPT ![b].stage = "free"]
    /\ UNCHANGED <<sent, lostFrames, clamp, shownTimes, pairs, trace, panel>>

BufferNext ==
    \/ \E arrives \in BOOLEAN :
          \/ \E p \in Pointers, q \in Queues, ops \in OpTimes : CbCommit(p, q, ops, arrives)
          \/ \E b \in Buffers : \/ CbSchedule(b, arrives)
                                \/ CbComplete(b, arrives)
                                \/ CbReport(b, arrives)
    \/ \E b \in Buffers : CbRelease(b)

BufferSpec == BufferInit /\ [][BufferNext]_bufferVars

-----------------------------------------------------------------------------
Done(b) == buffers[b].done > 0

(* The kernel times shown for a buffer whose completion frame arrived are  *)
(* the sampled ones, scaled down to its own time on the queue (from its    *)
(* scheduling or the previous completion heard of, to its completion), or  *)
(* left alone when its scheduled frame was lost: never scaled by the       *)
(* window of another life of the pointer (one frame lost at most).         *)
OwnWindow(b) ==
    LET before == {a \in Buffers : /\ buffers[a].queue = buffers[b].queue
                                   /\ "completed" \in buffers[a].got
                                   /\ buffers[a].done < buffers[b].done}
    IN  buffers[b].done - Max({buffers[b].sched} \cup {buffers[a].done : a \in before})

ClampIsOfOwnBuffer ==
    \A b \in DOMAIN shownTimes : "completed" \in buffers[b].got =>
        LET sampled == OpSum(buffers[b].ops)
            now == OpSum(shownTimes[b])
        IN  IF "scheduled" \notin buffers[b].got \/ sampled <= OwnWindow(b)
            THEN shownTimes[b] = buffers[b].ops
            ELSE now <= OwnWindow(b) /\ now > OwnWindow(b) - Len(shownTimes[b])

(* Each completion has its own kernels or none.                            *)
PairingIsExact ==
    \A i \in DOMAIN pairs.completed : pairs.completed[i].ops \in {None, pairs.completed[i].of}

(* When no frame is lost, every consumer sees what the GPU did, however    *)
(* the lives of the pointers and the queues interleave: the completions    *)
(* with their commit times and kernels, slices that do not overlap on a    *)
(* queue, kernels drawn inside the slice of their own buffer, and as in    *)
(* flight exactly what was committed and not completed.                    *)
PairsAreTrue ==
    /\ {pairs.completed[i] : i \in DOMAIN pairs.completed} =
       {[commit |-> buffers[b].commit, of |-> b,
         ops |-> IF "ops" \in buffers[b].got THEN b ELSE None] : b \in {b \in Buffers : Done(b)}}
    /\ Len(pairs.completed) = Cardinality({b \in Buffers : Done(b)})

TraceIsTrue ==
    /\ \A s \in trace.slices :
          /\ s.window.end = buffers[s.window.of].done
          /\ s.window.end - s.window.start = OwnWindow(s.window.of)
    /\ \A s, u \in trace.slices : (s.queue = u.queue /\ s # u) =>
          s.window.end <= u.window.start \/ u.window.end <= s.window.start
    /\ trace.drawn = {[window |-> s.window, ops |-> <<s.window.of>>] :
                        s \in {s \in trace.slices : "ops" \in buffers[s.window.of].got}}

PanelIsTrue ==
    \A q \in Queues : panel[q] =
        {[cb |-> buffers[b].cb, ts |-> buffers[b].commit] :
            b \in {b \in Buffers : buffers[b].queue = q /\ ~Done(b)}}

FramesArePaired == lostFrames = 0 => PairsAreTrue /\ TraceIsTrue /\ PanelIsTrue /\ PairingIsExact

(* Both: what is lost may leave times unscaled, what is not is paired.     *)
BuffersArePaired == ClampIsOfOwnBuffer /\ FramesArePaired
=============================================================================
