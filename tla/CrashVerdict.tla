----------------------------- MODULE CrashVerdict -----------------------------
(***************************************************************************)
(* How the death of a recorded run is explained: the reports macOS writes  *)
(* after it in several passes and purges later, the crash-reports probe    *)
(* that emits each incident once (crates/smeltr-probes-crash-reports), and *)
(* the joins of every analysis (crates/smeltr-analyzer/src/crash_join.rs): *)
(* a crash, kept beside the session; a jetsam kill; or a presumption.      *)
(*                                                                         *)
(* The footprint always rises, and no rule finds a root cause of its own.  *)
(* A report is an incident's file: "ours" is about the run, "stranger"     *)
(* about a process that got the run's pid later.                           *)
(***************************************************************************)
EXTENDS Integers, Sequences

CONSTANTS
    Analysts,       \* threads and processes that analyze the session
    ReportGrace,    \* CRASH_REPORT_GRACE_NS
    SeenCap,        \* SEEN_CAP, 512 in the code: more than the incidents here
    LastDay,        \* bound: the clock
    MaxPasses       \* bound: writes of each report

ASSUME VerdictAssumption ==
    /\ ReportGrace \in Nat /\ SeenCap \in Nat /\ SeenCap >= 2
    /\ LastDay \in Nat /\ MaxPasses \in [{"ours", "stranger"} -> Nat]

VARIABLES
    today,          \* the wall clock
    run,            \* [how, died, victim, sampled]: the end of the run
    metadata,       \* [ended, code, signal, by]: the session's metadata
    lastWrite,      \* [at, stamp]: time and last ts_wall of the events file
    reports,        \* each incident's file: [state, kind, at, passes]
    kept,           \* crash.json: absent, torn or whole
    probe,          \* [up, watches, queue, seen, notified]; its daemon is up with it
    emitted,        \* history: what this life of the probe emitted
    analysis        \* the call of each analyst, which makes one

verdictVars == <<today, run, metadata, lastWrite, reports, kept, probe, emitted, analysis>>

Incidents == {"ours", "stranger"}
NotYet == -1
Signals == [interrupted |-> "INT", hungUp |-> "HUP",
            faulted |-> "SEGV", killed |-> "KILL"]
Open == metadata.ended = NotYet
Over == run.how # "alive"
Unread == [ended |-> NotYet, code |-> "none", signal |-> "none", by |-> "nobody"]
NoCall == [at |-> "idle", ended |-> NotYet, end |-> 0, crash |-> FALSE,
           jetsam |-> FALSE, presumed |-> FALSE,
           due |-> [crash |-> FALSE, jetsam |-> FALSE, kept |-> FALSE, passes |-> 0]]

VerdictInit ==
    /\ today = 0
    /\ run = [how |-> "alive", died |-> 0, victim |-> "child", sampled |-> FALSE]
    /\ metadata = Unread
    /\ lastWrite = [at |-> 0, stamp |-> 0]
    /\ reports = [i \in Incidents |-> [state |-> "absent", kind |-> "none", at |-> 0,
                                       passes |-> 0]]
    /\ kept = "absent"
    \* The directory is watched if it is there when the probe starts.
    /\ \E watches \in BOOLEAN :
          probe = [up |-> TRUE, watches |-> watches, queue |-> <<>>, seen |-> <<>>,
                   notified |-> {}]
    /\ emitted = <<>>
    /\ analysis = [t \in Analysts |-> NoCall]

-----------------------------------------------------------------------------
(* The run and its session.                                                *)

\* An open session is written as time passes; its stamps stop while the
\* machine sleeps.  The end of a run reaches a daemon at once.
PassTime ==
    /\ today < LastDay /\ ~(Over /\ Open /\ probe.up)
    /\ today' = today + 1
    /\ IF Open /\ probe.up
       THEN \E s \in {lastWrite.stamp, lastWrite.stamp + 1} :
               lastWrite' = [at |-> today + 1, stamp |-> s]
       ELSE UNCHANGED lastWrite
    /\ UNCHANGED <<run, metadata, reports, kept, probe, emitted, analysis>>

RunEnds(how, victim, sampled) ==
    /\ run.how = "alive"
    /\ victim = "grandchild" => how \in {"faulted", "killed"}
    /\ sampled => how = "killed" /\ victim = "grandchild"
    /\ run' = [how |-> how, died |-> today, victim |-> victim, sampled |-> sampled]
    /\ UNCHANGED <<today, metadata, lastWrite, reports, kept, probe, emitted, analysis>>

\* What record passes with its detach: the status of the child, which may say
\* anything when a process below it died.
Statuses ==
    IF run.how \in DOMAIN Signals /\ run.victim = "child"
    THEN {[code |-> "-1", signal |-> Signals[run.how]]}
    ELSE IF run.victim = "child"
         THEN {[code |-> IF run.how = "clean" THEN "0" ELSE "1", signal |-> "none"]}
         ELSE [code : {"0", "1"}, signal : {"none"}]
Close(status, by, end) ==
    metadata' = [ended |-> end, code |-> status.code, signal |-> status.signal, by |-> by]
NoStatus == [code |-> "none", signal |-> "none"]

Detached ==
    /\ Over /\ Open /\ probe.up
    /\ \E status \in Statuses : Close(status, "record", today)
    /\ UNCHANGED <<today, run, lastWrite, reports, kept, probe, emitted, analysis>>

\* The client is gone and so is the run; or the daemon stops, over either.
ClosedByDaemon ==
    /\ Open /\ probe.up /\ Close(NoStatus, "daemon", today)
    /\ UNCHANGED <<today, run, lastWrite, reports, kept, probe, emitted, analysis>>

DaemonKilled ==
    /\ Open /\ probe.up
    /\ probe' = [probe EXCEPT !.up = FALSE, !.queue = <<>>, !.seen = <<>>,
                              !.notified = {}]
    /\ emitted' = <<>>
    /\ UNCHANGED <<today, run, metadata, lastWrite, reports, kept, analysis>>

Recover ==
    /\ Open /\ ~probe.up /\ Close(NoStatus, "recovery", lastWrite.at)
    /\ probe' = [probe EXCEPT !.up = TRUE]
    /\ UNCHANGED <<today, run, lastWrite, reports, kept, emitted, analysis>>

-----------------------------------------------------------------------------
(* The reports, and the probe.                                             *)

\* A pid is not used again within the grace.
Writable(i, kind) ==
    IF i = "ours" THEN <<run.how, kind>> \in {<<"faulted", "crash">>, <<"killed", "jetsam">>}
    ELSE Over /\ (kind = "crash" => today > run.died + ReportGrace)

\* Crash reports go to the directory the probe watches, jetsam reports do not.
WritePass(i, kind, state) ==
    /\ Writable(i, kind) /\ reports[i].passes < MaxPasses[i]
    /\ reports[i].kind \in {"none", kind}
    /\ reports' = [reports EXCEPT ![i] = [state |-> state, kind |-> kind, at |-> today,
                                          passes |-> @.passes + 1]]
    /\ probe' = IF probe.up /\ probe.watches /\ kind = "crash"
                THEN [probe EXCEPT !.queue = Append(@, i), !.notified = @ \cup {i}]
                ELSE [probe EXCEPT !.notified = @ \ {i}]
    /\ UNCHANGED <<today, run, metadata, lastWrite, kept, emitted, analysis>>

\* macOS removes the report; that of the stranger stays.
PurgeReport ==
    /\ reports["ours"].state # "absent"
    /\ reports' = [reports EXCEPT !["ours"].state = "absent",
                                  !["ours"].passes = MaxPasses["ours"]]
    /\ UNCHANGED <<today, run, metadata, lastWrite, kept, probe, emitted, analysis>>

Seen(i) == \E n \in 1 .. Len(probe.seen) : probe.seen[n] = i
Remembered(i) ==
    LET longer == Append(probe.seen, i)
    IN IF Len(longer) > SeenCap THEN Tail(longer) ELSE longer

\* One notification: what it led to is read now; a part of a report cannot be
\* parsed, and is not remembered.
TakeNotice ==
    /\ probe.up /\ probe.queue # <<>>
    /\ LET i == Head(probe.queue)
           new == reports[i].state = "whole" /\ ~Seen(i)
       IN /\ probe' = [probe EXCEPT !.queue = Tail(@),
                                    !.seen = IF new THEN Remembered(i) ELSE @]
          /\ emitted' = IF new THEN Append(emitted, [of |-> i, read |-> reports[i].state])
                        ELSE emitted
    /\ UNCHANGED <<today, run, metadata, lastWrite, reports, kept, analysis>>

-----------------------------------------------------------------------------
(* An analysis: join_crash, then join_jetsam.                              *)

\* Mutant: the stamps of the events, which lag behind a machine that slept.
WindowEndStamped(ended) == IF ended # NotYet THEN ended ELSE lastWrite.stamp

\* window_end_ns.
WindowEnd(ended) ==
    IF ended # NotYet THEN ended
    ELSE IF lastWrite.stamp > lastWrite.at THEN lastWrite.stamp ELSE lastWrite.at

\* find_crash_report and find_jetsam_report: in time, whole, about a pid of
\* the run; the name of a stranger that jetsam killed is another one.
Found(i, kind, end) ==
    /\ reports[i].kind = kind /\ reports[i].state = "whole"
    /\ reports[i].at <= end + ReportGrace
    /\ kind = "crash" => (i = "ours" => run.victim = "child")
    /\ kind = "jetsam" => i = "ours" /\ (run.victim = "child" \/ run.sampled)

\* The session's end, or the last time its file was written.
LastSign == IF Open THEN lastWrite.at ELSE metadata.ended

At(t, place) == analysis[t].at = place
Go(t, call) == analysis' = [analysis EXCEPT ![t] = call]
Keeping(t) == analysis[t].at \in {"scan", "copy", "write"}
ReadOnly == UNCHANGED <<today, run, metadata, lastWrite, reports, kept, probe, emitted>>

\* The call reads the metadata.  "due" is history: what was to be found then.
Analyze(t) ==
    /\ At(t, "idle")
    /\ Go(t, [NoCall EXCEPT
            !.at = IF metadata.code = "0" THEN "again" ELSE "kept",
            !.ended = metadata.ended,
            !.due = [crash |-> metadata.code # "0" /\ Found("ours", "crash", LastSign),
                     jetsam |-> Found("ours", "jetsam", LastSign),
                     kept |-> kept = "whole" /\ \A u \in Analysts : ~Keeping(u),
                     passes |-> reports["ours"].passes]])
    /\ ReadOnly

LookKept(t) ==
    /\ At(t, "kept")
    /\ Go(t, IF kept = "whole" THEN [analysis[t] EXCEPT !.at = "again", !.crash = TRUE]
             ELSE [analysis[t] EXCEPT !.at = "scan", !.end = WindowEnd(analysis[t].ended)])
    /\ ReadOnly

ScanReports(t) ==
    /\ At(t, "scan")
    /\ LET crash == \E i \in Incidents : Found(i, "crash", analysis[t].end)
       IN Go(t, [analysis[t] EXCEPT !.at = IF crash THEN "copy" ELSE "again",
                                    !.crash = crash])
    /\ ReadOnly

\* keep_crash: best effort.  The join is written over an emptied file.
CopyReport(t) ==
    /\ At(t, "copy")
    /\ \/ Go(t, [analysis[t] EXCEPT !.at = "again"]) /\ UNCHANGED kept
       \/ /\ \E i \in Incidents : Found(i, "crash", analysis[t].end)
          /\ Go(t, [analysis[t] EXCEPT !.at = "write"]) /\ kept' = "torn"
    /\ UNCHANGED <<today, run, metadata, lastWrite, reports, probe, emitted>>

WriteJoin(t) ==
    /\ At(t, "write") /\ kept' \in {kept, "whole"}
    /\ Go(t, [analysis[t] EXCEPT !.at = "again"])
    /\ UNCHANGED <<today, run, metadata, lastWrite, reports, probe, emitted>>

\* presume_memory_death.
Presumes ==
    /\ metadata.signal \notin {"INT", "TERM"}
    /\ metadata.code = "-1" \/ (metadata.code = "none" /\ ~Open)

\* join_jetsam reads the metadata again.
Conclude(t) ==
    /\ At(t, "again")
    /\ LET jetsam == \E i \in Incidents : Found(i, "jetsam", WindowEnd(metadata.ended))
       IN Go(t, [analysis[t] EXCEPT
                    !.at = "returned", !.jetsam = jetsam, !.ended = NotYet, !.end = 0,
                    !.presumed = ~jetsam /\ ~analysis[t].crash /\ Presumes])
    /\ ReadOnly

AnalysisStep(t) ==
    Analyze(t) \/ LookKept(t) \/ ScanReports(t) \/ CopyReport(t) \/ WriteJoin(t)
    \/ Conclude(t)

VerdictNext ==
    \/ PassTime
    \/ \E how \in DOMAIN Signals \cup {"clean", "failed"},
          victim \in {"child", "grandchild"}, sampled \in BOOLEAN :
          RunEnds(how, victim, sampled)
    \/ Detached \/ ClosedByDaemon \/ DaemonKilled \/ Recover
    \/ \E i \in Incidents, kind \in {"crash", "jetsam"}, state \in {"partial", "whole"} :
          WritePass(i, kind, state)
    \/ PurgeReport \/ TakeNotice
    \/ \E t \in Analysts : AnalysisStep(t)

VerdictSpec == VerdictInit /\ [][VerdictNext]_verdictVars

-----------------------------------------------------------------------------
\* A crash is told of a run that crashed, a kill of a run the kernel killed:
\* not of another process that got the pid.
VerdictIsTrue(t) ==
    /\ analysis[t].crash => run.how = "faulted" /\ run.victim = "child"
    /\ analysis[t].jetsam => run.how = "killed"

\* What is there to be found is found, and a report kept beside the session
\* outlives the system's copy, though other analyses write it meanwhile.
VerdictIsFound(t) ==
    LET there == /\ reports["ours"].state = "whole"
                 /\ reports["ours"].passes = analysis[t].due.passes
    IN /\ analysis[t].due.crash /\ there => analysis[t].crash
       /\ analysis[t].due.jetsam /\ there => analysis[t].jetsam
       /\ analysis[t].due.kept => analysis[t].crash

\* A death of memory is presumed of a session that has ended, beside no
\* verdict, and, where record told how its run ended, only of one that died
\* by a signal that asks for no end.
PresumptionIsFair(t) ==
    analysis[t].presumed =>
        /\ ~analysis[t].crash /\ ~analysis[t].jetsam /\ ~Open
        /\ metadata.by = "record" => run.how \in {"hungUp", "faulted", "killed"}

\* An incident is emitted once, however many passes its report took, and from
\* a report that is whole: if the last pass is there to be read, it has been.
EmittedOnce ==
    /\ \A m, n \in 1 .. Len(emitted) : emitted[m].of = emitted[n].of => m = n
    /\ \A n \in 1 .. Len(emitted) : emitted[n].read = "whole"
    /\ probe.queue = <<>> =>
          \A i \in probe.notified : reports[i].state = "whole"
                                    => \E n \in 1 .. Len(emitted) : emitted[n].of = i

\* Every death is explained as what it was.
DeathIsExplained ==
    /\ \A t \in Analysts : At(t, "returned") =>
          VerdictIsTrue(t) /\ VerdictIsFound(t) /\ PresumptionIsFair(t)
    /\ EmittedOnce
=============================================================================
