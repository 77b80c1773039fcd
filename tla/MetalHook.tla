------------------------------ MODULE MetalHook ------------------------------
(***************************************************************************)
(* What the hook keeps inside the traced application (metal-hook: hook.mm) *)
(* while threads of the application make, encode, commit and drop command  *)
(* buffers of one queue and Metal completes them: the marks by which a     *)
(* commit is recorded once, the queue's depth counter, the pool of sample  *)
(* slots with the back-off of the sampling, and the table of buffers in    *)
(* flight behind a serial dispatch queue.                                  *)
(*                                                                         *)
(* A command buffer belongs to one thread until it is committed and to     *)
(* Metal's completion handler after, so the steps are those of buffers.    *)
(* It has one compute encoder, which lives as long as it.  Each step is    *)
(* one atomic access, one critical section, or private to its thread.      *)
(***************************************************************************)
EXTENDS Integers, FiniteSets, Sequences, SequencesExt

CONSTANTS
    Buffers,        \* addresses of command buffers, used again and again
    Layers,         \* a buffer and the wrappers around it; 1 is the outermost
    Pools, Pairs,   \* at most so many pool buffers, of so many slots each
    FailureLimit,   \* failures in a row that disable the sampling
    MaxMade         \* bound: command buffers made

ASSUME MetalHookAssumption ==
    /\ Layers \in 1 .. 8 /\ Pools \in Nat /\ Pairs \in Nat \ {0}
    /\ IsFiniteSet(Buffers)
    /\ FailureLimit \in Nat \ {0} /\ MaxMade \in Nat

VARIABLES
    at,         \* how far each command buffer is
    made,
    marked,     \* its layers that carry kSmeltrCbTrackedKey
    records,    \* how often its commit was recorded
    sampling, failures, \* g_stage_sampling_enabled, g_stage_alloc_failures
    retry,      \* g_stage_retry_at_ns: none, set, or due by now
    was,        \* was_enabled, of each thread
    pools, free,        \* g_stage_pool_n, g_stage_pool_free
    slot, given,        \* the encoder's slot; whether it was given back
    box, boxes, mine,   \* the queue's box, boxes made, the one a thread found
    depth,      \* by box
    inflight,   \* g_inflight: absent, armed, warned
    tasks       \* g_inflight_q

cbVars == <<made, marked, records>>
samplingVars == <<sampling, failures, retry, was>>
slotVars == <<pools, free, slot, given>>
depthVars == <<box, boxes, mine, depth>>
tableVars == <<inflight, tasks>>
hookVars == <<at, cbVars, samplingVars, slotVars, depthVars, tableVars>>

NoSlot == <<>>
NoBox == 0

\* On a device that has the sampling, and after the calibration.
HookInit ==
    /\ at = [c \in Buffers |-> "none"] /\ made = 0
    /\ marked = [c \in Buffers |-> {}] /\ records = [c \in Buffers |-> 0]
    /\ sampling = TRUE /\ failures = 0 /\ retry = "none"
    /\ was = [c \in Buffers |-> FALSE]
    /\ pools = 0 /\ free = <<>>
    /\ slot = [c \in Buffers |-> NoSlot] /\ given = [c \in Buffers |-> FALSE]
    /\ box = NoBox /\ boxes = 0 /\ mine = [c \in Buffers |-> NoBox]
    /\ depth = [b \in 1 .. Cardinality(Buffers) |-> 0]
    /\ inflight = [c \in Buffers |-> "absent"] /\ tasks = <<>>

Moves(c, from, to) == at[c] = from /\ at' = [at EXCEPT ![c] = to]

-----------------------------------------------------------------------------
(* computeCommandEncoderWithDispatchType.                                  *)

NewBuffer(c) ==
    /\ Moves(c, "none", "encoding") /\ made < MaxMade
    /\ made' = made + 1
    /\ marked' = [marked EXCEPT ![c] = {}] /\ records' = [records EXCEPT ![c] = 0]
    /\ UNCHANGED <<samplingVars, slotVars, depthVars, tableVars>>

AskEnabled(c) ==
    /\ Moves(c, "encoding", IF sampling THEN "choosing" ELSE "asking")
    /\ UNCHANGED <<cbVars, samplingVars, slotVars, depthVars, tableVars>>

\* smeltr_sampling_retry_due: one thread wins.
AskRetry(c) ==
    /\ Moves(c, "asking", IF retry = "due" THEN "rearming" ELSE "choosing")
    /\ retry' = IF retry = "due" THEN "none" ELSE retry
    /\ UNCHANGED <<cbVars, sampling, failures, was, slotVars, depthVars, tableVars>>

ForgetFailures(c) ==
    /\ Moves(c, "rearming", "enabling") /\ failures' = 0
    /\ UNCHANGED <<cbVars, sampling, retry, was, slotVars, depthVars, tableVars>>

Enable(c) ==
    /\ Moves(c, "enabling", "choosing") /\ sampling' = TRUE
    /\ UNCHANGED <<cbVars, failures, retry, was, slotVars, depthVars, tableVars>>

Choose(c) ==
    /\ Moves(c, "choosing", IF sampling THEN "acquiring" ELSE "encoded")
    /\ UNCHANGED <<cbVars, samplingVars, slotVars, depthVars, tableVars>>

\* Under the pool's lock; with no slot left, one more pool buffer, unless
\* Metal refuses it.
Acquire(c) ==
    \E refused \in BOOLEAN :
       LET grows == free = <<>> /\ pools < Pools /\ ~refused
           stock == IF grows THEN [i \in 1 .. Pairs |-> <<pools + 1, Pairs - i + 1>>]
                    ELSE free
       IN /\ IF stock = <<>>
             THEN Moves(c, "acquiring", "short") /\ UNCHANGED <<slot, given>>
             ELSE /\ Moves(c, "acquiring", "supplied")
                  /\ slot' = [slot EXCEPT ![c] = Last(stock)]
                  /\ given' = [given EXCEPT ![c] = FALSE]
          /\ free' = IF stock = <<>> THEN <<>> ELSE Front(stock)
          /\ pools' = IF grows THEN pools + 1 ELSE pools
          /\ UNCHANGED <<cbVars, samplingVars, depthVars, tableVars>>

Supplied(c) ==
    /\ Moves(c, "supplied", "encoded") /\ failures' = 0
    /\ UNCHANGED <<cbVars, sampling, retry, was, slotVars, depthVars, tableVars>>

\* The counter stops one beyond the limit here: no test tells more apart.
CountFailure(c) ==
    LET n == failures + 1 IN
    /\ Moves(c, "short", IF n >= FailureLimit THEN "failing" ELSE "encoded")
    /\ failures' = IF n > FailureLimit THEN failures ELSE n
    /\ UNCHANGED <<cbVars, sampling, retry, was, slotVars, depthVars, tableVars>>

ReadEnabled(c) ==
    /\ Moves(c, "failing", "disabling")
    /\ was' = [was EXCEPT ![c] = sampling]
    /\ UNCHANGED <<cbVars, sampling, failures, retry, slotVars, depthVars, tableVars>>

Disable(c) ==
    /\ Moves(c, "disabling", IF was[c] THEN "scheduling" ELSE "encoded")
    /\ sampling' = FALSE
    /\ UNCHANGED <<cbVars, failures, retry, was, slotVars, depthVars, tableVars>>

ScheduleRetry(c) ==
    /\ Moves(c, "scheduling", "encoded") /\ retry' = "set"
    /\ UNCHANGED <<cbVars, sampling, failures, was, slotVars, depthVars, tableVars>>

\* Assumed: no thread spends the 30 s to the retry on one attempt to sample.
\* (One stopped between ReadEnabled and Disable for that long would disable
\* the sampling with no retry to come.)
RetryComesDue ==
    /\ retry = "set" /\ retry' = "due"
    /\ \A c \in Buffers : at[c] \notin {"acquiring", "short", "failing", "disabling"}
    /\ UNCHANGED <<at, cbVars, sampling, failures, was, slotVars, depthVars, tableVars>>

-----------------------------------------------------------------------------
(* commit: the swizzles of the buffer's class and of the queue see it, each *)
(* any of its layers, any number of times, before Metal has it.             *)

\* smeltr_cb_mark_tracked.
Claims(c, o) == marked[c] \cap o .. Layers = {}

Intercept(c, o) ==
    /\ at[c] \in {"encoded", "called"}
    /\ at' = [at EXCEPT ![c] = IF Claims(c, o) THEN "claimed" ELSE "called"]
    /\ marked' = [marked EXCEPT ![c] = IF Claims(c, o) THEN @ \cup o .. Layers
                                       ELSE @ \cup {o}]
    /\ UNCHANGED <<made, records, samplingVars, slotVars, depthVars, tableVars>>

\* smeltr_queue_box: looked up, then looked up again under the lock.
LookBox(c) ==
    /\ Moves(c, "claimed", IF box = NoBox THEN "boxless" ELSE "boxed")
    /\ mine' = [mine EXCEPT ![c] = box]
    /\ UNCHANGED <<cbVars, samplingVars, slotVars, box, boxes, depth, tableVars>>

MakeBox(c) ==
    /\ Moves(c, "boxless", "boxed")
    /\ boxes' = IF box = NoBox THEN boxes + 1 ELSE boxes
    /\ box' = IF box = NoBox THEN boxes' ELSE box
    /\ mine' = [mine EXCEPT ![c] = box']
    /\ UNCHANGED <<cbVars, samplingVars, slotVars, depth, tableVars>>

\* The depth goes up and CB_COMMITTED is written.
Record(c) ==
    /\ Moves(c, "boxed", "recorded")
    /\ depth' = [depth EXCEPT ![mine[c]] = @ + 1]
    /\ records' = [records EXCEPT ![c] = @ + 1]
    /\ UNCHANGED <<made, marked, samplingVars, slotVars, box, boxes, mine, tableVars>>

Watch(c) ==
    /\ Moves(c, "recorded", "called")
    /\ tasks' = Append(tasks, <<"add", c>>)
    /\ UNCHANGED <<cbVars, samplingVars, slotVars, depthVars, inflight>>

\* The original commit.
Submit(c) ==
    /\ Moves(c, "called", "running")
    /\ UNCHANGED <<cbVars, samplingVars, slotVars, depthVars, tableVars>>

-----------------------------------------------------------------------------
(* The completion handler, and the end of the buffer and its encoder.      *)

Complete(c) ==
    /\ Moves(c, "running", "completing")
    /\ UNCHANGED <<cbVars, samplingVars, slotVars, depthVars, tableVars>>

\* Mutant: whether or not it was given back before.
GiveBackAgain(c) ==
    /\ free' = IF slot[c] = NoSlot THEN free ELSE Append(free, slot[c])
    /\ given' = [given EXCEPT ![c] = TRUE]

\* smeltr_stage_slot_release.
GiveBack(c) ==
    /\ free' = IF slot[c] = NoSlot \/ given[c] THEN free ELSE Append(free, slot[c])
    /\ given' = [given EXCEPT ![c] = TRUE]

ReleaseSlot(c) ==
    /\ Moves(c, "completing", "resolved") /\ GiveBack(c)
    /\ UNCHANGED <<cbVars, samplingVars, pools, slot, depthVars, tableVars>>

CountDown(c) ==
    /\ Moves(c, "resolved", "counted")
    /\ depth' = [depth EXCEPT ![box] = @ - 1]
    /\ UNCHANGED <<cbVars, samplingVars, slotVars, box, boxes, mine, tableVars>>

Unwatch(c) ==
    /\ Moves(c, "counted", "done")
    /\ tasks' = Append(tasks, <<"remove", c>>)
    /\ UNCHANGED <<cbVars, samplingVars, slotVars, depthVars, inflight>>

\* The encoder goes with a buffer that completed or was never committed.
Dealloc(c) ==
    /\ \/ Moves(c, "done", "none")
       \/ Moves(c, "encoded", "none")
    /\ GiveBack(c)
    /\ slot' = [slot EXCEPT ![c] = NoSlot]
    /\ UNCHANGED <<cbVars, samplingVars, pools, depthVars, tableVars>>

-----------------------------------------------------------------------------
(* g_inflight_q: the tasks in order, and between them the timer.           *)

RunTask ==
    /\ tasks # <<>>
    /\ LET what == Head(tasks)[1]
           c == Head(tasks)[2]
       IN inflight' = [inflight EXCEPT ![c] = IF what = "add" THEN "armed" ELSE "absent"]
    /\ tasks' = Tail(tasks)
    /\ UNCHANGED <<at, cbVars, samplingVars, slotVars, depthVars>>

\* After 5 s in flight, once.
Warn(c) ==
    /\ inflight[c] = "armed"
    /\ inflight' = [inflight EXCEPT ![c] = "warned"]
    /\ UNCHANGED <<at, cbVars, samplingVars, slotVars, depthVars, tasks>>

HookNext ==
    \/ RetryComesDue \/ RunTask
    \/ \E c \in Buffers :
        \/ NewBuffer(c) \/ AskEnabled(c) \/ AskRetry(c) \/ ForgetFailures(c)
        \/ Enable(c) \/ Choose(c) \/ Acquire(c) \/ Supplied(c) \/ CountFailure(c) \/ ReadEnabled(c)
        \/ Disable(c) \/ ScheduleRetry(c)
        \/ \E o \in 1 .. Layers : Intercept(c, o)
        \/ LookBox(c) \/ MakeBox(c) \/ Record(c) \/ Watch(c) \/ Submit(c)
        \/ Complete(c) \/ ReleaseSlot(c) \/ CountDown(c) \/ Unwatch(c) \/ Dealloc(c)
        \/ Warn(c)

HookSpec == HookInit /\ [][HookNext]_hookVars

-----------------------------------------------------------------------------
(* Properties.                                                             *)

Committed == {"running", "completing", "resolved", "counted", "done"}

\* Whichever layers the swizzles see, in whichever order, a commit is recorded
\* exactly once by the time Metal has it.
RecordedOnce ==
    \A c \in Buffers : /\ records[c] <= 1
                       /\ at[c] \in Committed => records[c] = 1

\* The depth written with a commit is the number of buffers recorded and not
\* completed, however many threads make their first commit at once.
Outstanding == {c \in Buffers : records[c] = 1
                  /\ at[c] \in {"recorded", "called", "running", "completing", "resolved"}}
DepthIsExact == box # NoBox => depth[box] = Cardinality(Outstanding)

\* No slot is in two hands, or both held and free, and none is lost.
Held == {c \in Buffers : slot[c] # NoSlot /\ ~given[c]}
SlotsAreExclusive ==
    /\ \A c, d \in Held : slot[c] = slot[d] => c = d
    /\ ToSet(free) \cap {slot[c] : c \in Held} = {}
    /\ Len(free) + Cardinality(Held) = pools * Pairs

\* Sampling that is off is on its way back.
SamplingComesBack ==
    \/ sampling \/ retry # "none"
    \/ \E c \in Buffers : at[c] \in {"rearming", "enabling", "scheduling"}

\* Once its queue is empty the table holds the buffers in flight, and no
\* earlier buffer of the same address.
TableIsExact ==
    tasks = <<>> =>
        \A c \in Buffers :
            inflight[c] # "absent"
                <=> records[c] = 1
                    /\ at[c] \in {"called", "running", "completing", "resolved", "counted"}

HookIsExact ==
    /\ RecordedOnce /\ DepthIsExact /\ SlotsAreExclusive
    /\ SamplingComesBack /\ TableIsExact
=============================================================================
