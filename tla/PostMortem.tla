------------------------------ MODULE PostMortem ------------------------------
(***************************************************************************)
(* What the daemon keeps for the case that something crashes: the flight   *)
(* recorder, the watcher that saves it when a crash-like event goes by on  *)
(* the bus, and the panic hook that saves it when the daemon itself fails. *)
(*                                                                         *)
(* An event that a session has written is pushed to the recorder, then     *)
(* sent on the bus (ActiveSession::append_internal).  The watcher reads    *)
(* the bus like any subscriber, so it may lag; it writes its own event     *)
(* after a dump.  A panic runs the hook on the thread that panics, at the  *)
(* place where it stands, while the others go on, and ends in abort().     *)
(***************************************************************************)
EXTENDS Integers, Sequences, FiniteSets, SequencesExt

CONSTANTS
    Publishers, Watcher,     \* threads that append events
    Keys, NoKey,             \* what the rate limit counts as one reason
    NoThread,
    MaxRecorded, Window,     \* FlightRecorder: max_events and window
    Capacity,                \* of the bus
    MinInterval,             \* TRIGGER_MIN_INTERVAL
    MaxEvents, MaxTime, MaxPanics  \* bounds

ASSUME PostMortemAssumption ==
    /\ Watcher \notin Publishers /\ NoKey \notin Keys
    /\ NoThread \notin Publishers \cup {Watcher}
    /\ MaxRecorded \in Nat \ {0} /\ Window \in Nat
    /\ Capacity \in Nat \ {0} /\ MinInterval \in Nat \ {0}
    /\ MaxEvents \in Nat /\ MaxTime \in Nat /\ MaxPanics \in Nat

VARIABLES
    clock, life,         \* "up", or "down" after an abort
    kind,                \* of each event so far: the key it triggers, or NoKey
    publisher,           \* where each append stands: its event and instant
    recorder, recorderLock,  \* held over a step only by a thread that panics
    feed,                \* the events sent on the bus
    watcher,             \* its place, the events it has read, its trigger
    lastAdmitted,        \* TriggerGate::last
    hook,                \* the thread in the panic hook, and its place
    panics,
    pushed,              \* history: every push of this daemon, in order
    dumps, decisions     \* history: post-mortems; what the gate decided

Threads == Publishers \cup {Watcher}
Never == -1
Quiet == [at |-> "out", event |-> 0, now |-> 0]
Idle == [Quiet EXCEPT !.at = "idle"]     \* a thread with nothing to append
NotHooked == [at |-> "out", thread |-> NoThread]
Listening == [at |-> "recv", pos |-> 0, event |-> 0]

history == <<pushed, dumps, decisions>>
feedVars == <<kind, publisher, recorder, recorderLock, feed>>
watchVars == <<watcher, lastAdmitted>>
pmVars == <<clock, life, feedVars, watchVars, hook, panics, history>>

\* The daemon starts at any time, with threads that have events to append,
\* and may have panicked before.
PMInit ==
    /\ clock \in 0 .. MaxTime /\ life = "up" /\ kind = <<>>
    /\ publisher \in [Threads -> {Quiet, Idle}] /\ publisher[Watcher] = Quiet
    /\ recorder = <<>> /\ recorderLock = NoThread /\ feed = <<>>
    /\ watcher = Listening /\ lastAdmitted = [k \in Keys |-> Never]
    /\ hook = NotHooked /\ panics \in 0 .. MaxPanics
    /\ pushed = <<>> /\ dumps = {} /\ decisions = {}

Tick == /\ clock < MaxTime /\ clock' = clock + 1
        /\ UNCHANGED <<life, feedVars, watchVars, hook, panics, history>>

-----------------------------------------------------------------------------
(* An append, from the moment the session has written the event.           *)

Runs(t) == life = "up" /\ hook.thread # t
Goto(t, place) == publisher' = [publisher EXCEPT ![t].at = place]

\* The instant of arrival is taken before the recorder is locked.
Arrive(t, k) ==
    /\ Runs(t) /\ publisher[t].at = "out" /\ Len(kind) < MaxEvents
    /\ kind' = Append(kind, k)
    /\ publisher' = [publisher EXCEPT ![t] =
                       [at |-> "push", event |-> Len(kind) + 1, now |-> clock]]

\* Mutant: the newest events go when there are too many.
EvictedNewest(q, now) == IF Len(q) > MaxRecorded THEN Front(q) ELSE q

\* From the front, what is too many, then what is too old up to the first
\* that is not.
Evicted(q, now) ==
    LET over == IF Len(q) > MaxRecorded THEN Len(q) - MaxRecorded ELSE 0
        kept == {i \in DOMAIN q : i > over /\ now - q[i].now <= Window}
    IN  SubSeq(q, CHOOSE i \in kept : \A j \in kept : i <= j, Len(q))

Push(t) ==
    /\ Runs(t) /\ publisher[t].at = "push" /\ recorderLock = NoThread
    /\ LET arrival == [event |-> publisher[t].event, now |-> publisher[t].now]
       IN  /\ recorder' = Evicted(Append(recorder, arrival), arrival.now)
           /\ pushed' = Append(pushed, arrival)
    /\ Goto(t, "send")
    /\ UNCHANGED <<clock, life, kind, recorderLock, feed, watchVars, hook,
                   panics, dumps, decisions>>

Send(t) ==
    /\ Runs(t) /\ publisher[t].at = "send"
    /\ feed' = Append(feed, publisher[t].event)
    /\ publisher' = [publisher EXCEPT ![t] = Quiet]
    /\ UNCHANGED <<clock, life, kind, recorder, recorderLock, watchVars, hook,
                   panics, history>>

Publish(t) ==
    /\ \E k \in Keys \cup {NoKey} : Arrive(t, k)
    /\ UNCHANGED <<clock, life, recorder, recorderLock, feed, watchVars, hook,
                   panics, history>>

-----------------------------------------------------------------------------
(* The trigger watcher of main().                                          *)

WatcherAt(place) == /\ Runs(Watcher) /\ watcher.at = place
                    /\ publisher[Watcher] = Quiet

\* The bus has moved on by more than it holds: the oldest it still has next.
Lagged(pos) == Len(feed) - pos > Capacity
Oldest == Len(feed) - Capacity

WatcherLags ==
    /\ WatcherAt("recv") /\ Lagged(watcher.pos)
    /\ watcher' = [watcher EXCEPT !.pos = Oldest]
    /\ UNCHANGED <<clock, life, feedVars, lastAdmitted, hook, panics, history>>

Admits(k, now) == \/ lastAdmitted[k] = Never
                  \/ now - lastAdmitted[k] >= MinInterval
Recorded(k, now) == IF Admits(k, now) THEN [lastAdmitted EXCEPT ![k] = now]
                                      ELSE lastAdmitted

\* classify, then TriggerGate::admit.
WatcherRecv ==
    /\ WatcherAt("recv") /\ watcher.pos < Len(feed) /\ ~Lagged(watcher.pos)
    /\ LET event == feed[watcher.pos + 1]
           key == kind[event]
           fires == key # NoKey /\ Admits(key, clock)
       IN  /\ watcher' = [at |-> IF fires THEN "snapshot" ELSE "recv",
                          pos |-> watcher.pos + 1,
                          event |-> IF fires THEN event ELSE 0]
           /\ lastAdmitted' = IF key = NoKey THEN lastAdmitted
                                             ELSE Recorded(key, clock)
           /\ decisions' = IF key = NoKey THEN decisions ELSE decisions \cup
                {[event |-> watcher.pos, key |-> key, at |-> clock,
                  fires |-> fires]}
    /\ UNCHANGED <<clock, life, feedVars, hook, panics, pushed, dumps>>

EventsIn(q) == [i \in DOMAIN q |-> q[i].event]
Dump(trigger, key, events) ==
    [trigger |-> trigger, key |-> key, saved |-> events,
     pushes |-> Len(pushed)]

\* flush_post_mortem: the directory may refuse to be written.  Nothing is
\* written when the recorder is empty.
FlushPostMortem ==
    /\ WatcherAt("snapshot") /\ recorderLock = NoThread
    /\ \/ /\ recorder # <<>>
          /\ dumps' = dumps \cup {Dump(watcher.event, kind[watcher.event],
                                       EventsIn(recorder))}
          /\ watcher' = [watcher EXCEPT !.at = "report", !.event = 0]
       \/ /\ watcher' = [watcher EXCEPT !.at = "recv", !.event = 0]
          /\ UNCHANGED dumps
    /\ UNCHANGED <<clock, life, feedVars, lastAdmitted, hook, panics, pushed,
                   decisions>>

\* The PostMortemFlushed event, which triggers nothing; the watcher reads the
\* bus again when it is appended.
ReportFlush ==
    /\ WatcherAt("report")
    /\ \/ Arrive(Watcher, NoKey)
       \/ Len(kind) = MaxEvents /\ UNCHANGED <<kind, publisher>>
    /\ watcher' = [watcher EXCEPT !.at = "recv"]
    /\ UNCHANGED <<clock, life, recorder, recorderLock, feed, lastAdmitted,
                   hook, panics, history>>

WatcherStep == WatcherLags \/ WatcherRecv \/ FlushPostMortem \/ ReportFlush

-----------------------------------------------------------------------------
(* The panic hook.                                                         *)

Abort == life' = "down" /\ hook' = NotHooked

\* PANICKING is swapped first: a second panic aborts at once, whoever has it.
\* A thread that panics in the middle of a push keeps the lock.
Panic(t) ==
    /\ life = "up" /\ panics < MaxPanics /\ panics' = panics + 1
    /\ hook.thread # t
    /\ IF hook = NotHooked
       THEN hook' = [at |-> "save", thread |-> t] /\ UNCHANGED life
       ELSE Abort
    /\ recorderLock' \in {recorderLock} \cup
          IF publisher[t].at = "push" /\ recorderLock = NoThread THEN {t} ELSE {}
    /\ UNCHANGED <<clock, kind, publisher, recorder, feed, watchVars, history>>

\* Mutant: the recorder is locked, not tried.
TakenLocked == IF recorderLock = NoThread THEN {EventsIn(recorder)} ELSE {}

\* try_snapshot: nothing when the lock is held, by this thread or another.
Taken == {IF recorderLock = NoThread THEN EventsIn(recorder) ELSE <<>>}

SaveBlackBox ==
    /\ life = "up" /\ hook.at = "save"
    /\ \E events \in Taken :
          dumps' \in {dumps, dumps \cup {Dump(0, NoKey, events)}}
    /\ hook' = [hook EXCEPT !.at = "flush"]
    /\ UNCHANGED <<clock, life, feedVars, watchVars, panics, pushed, decisions>>

\* try_flush_all changes nothing of what is modelled here; then abort().
FlushAndAbort ==
    /\ life = "up" /\ hook.at = "flush" /\ Abort
    /\ UNCHANGED <<clock, feedVars, watchVars, panics, history>>

HookStep == SaveBlackBox \/ FlushAndAbort

\* Somebody starts the daemon again.
Restart ==
    /\ life = "down" /\ life' = "up" /\ kind' = <<>>
    /\ publisher' = [t \in Threads |-> IF publisher[t] = Idle THEN Idle ELSE Quiet]
    /\ recorder' = <<>> /\ recorderLock' = NoThread /\ feed' = <<>>
    /\ watcher' = Listening /\ lastAdmitted' = [k \in Keys |-> Never]
    /\ pushed' = <<>> /\ dumps' = {} /\ decisions' = {}
    /\ UNCHANGED <<clock, hook, panics>>

Appending(t) == Push(t) \/ Send(t)

PMNext == \/ Tick \/ Restart \/ WatcherStep \/ HookStep
          \/ \E t \in Publishers : Publish(t)
          \/ \E t \in Threads : Appending(t) \/ Panic(t)

-----------------------------------------------------------------------------
(* Properties.                                                             *)

\* The push at i is out of the recorder by rights after n pushes: as many
\* came after it as the recorder holds, or one that arrived a window later.
OutOfReach(i, n) ==
    \/ n - i >= MaxRecorded
    \/ \E j \in i + 1 .. n : pushed[j].now - pushed[i].now > Window

\* A post-mortem holds the event that caused it and all that the recorder is
\* to keep, in the order of arrival, however late the watcher comes, whatever
\* was pushed meanwhile and however the instants of two threads are ordered:
\* the event is in the recorder before the bus tells the watcher of it.  The
\* box of a panic is the same, or empty.
SavedWithTrigger ==
    \A d \in dumps :
        LET due == {i \in 1 .. d.pushes : ~OutOfReach(i, d.pushes)}
        IN  /\ d.trigger # 0 => \E i \in 1 .. d.pushes :
                                    pushed[i].event = d.trigger
            /\ \/ \A i \in due : pushed[i].event \in ToSet(d.saved)
               \/ d.trigger = 0 /\ d.saved = <<>>
            /\ IsSuffix(d.saved, EventsIn(SubSeq(pushed, 1, d.pushes)))

\* One reason leads to one dump per interval, and a trigger is refused only
\* when one of its reason was admitted within the interval: a storm is one
\* dump, and does not keep the dumps of later triggers away.
RateLimitIsExact ==
    LET admitted == {d \in decisions : d.fires}
        Within(a, d) == a.key = d.key /\ a.at <= d.at
                                      /\ d.at - a.at < MinInterval
    IN  \A d \in decisions :
            d.fires <=> ~\E a \in admitted : a.event < d.event /\ Within(a, d)

PostMortemsAreRight == SavedWithTrigger /\ RateLimitIsExact

\* A panic ends the daemon: the hook never waits, whatever lock the thread
\* that panics holds.
PanicProceeds == life = "up" /\ hook # NotHooked => ENABLED HookStep
=============================================================================
