------------------------------ MODULE Supervisor ------------------------------
(***************************************************************************)
(* One supervised probe (supervisor.rs:run_with_restart): it is run, and   *)
(* run again after a failure and a pause that grows, until it fails too    *)
(* often, fails for good, ends by itself or is cancelled.                  *)
(***************************************************************************)
EXTENDS Integers, Sequences, FiniteSets, SequencesExt

CONSTANTS MaxRestarts,  \* failures in a row after which it is given up
          MaxPause,     \* doublings of the pause before it stays the same
          Healths,      \* what Probe::health may say: ok, degraded or failed
          MaxRuns       \* bound: runs of the probe

ASSUME SupervisorAssumption ==
    MaxRestarts \in Nat \ {0} /\ MaxPause \in Nat /\ MaxRuns \in Nat
    /\ Healths \subseteq {"ok", "degraded", "failed"} /\ Healths # {}

VARIABLES
    task,            \* "off", "top", "running", "pausing" or "ended"
    attempt, pause,  \* failures counted; doublings made of the pause
    cancelled,
    health,          \* the last ProbeHealth event
    said,            \* history: what the probe said of itself before its last run
    runs             \* history: how each run ended, and how long it took

supervision == <<task, attempt, pause, cancelled, health, said, runs>>

Lasting == {"short", "healthy"}
Results == {"clean", "final", "transient"}

SupInit == /\ task = "off" /\ attempt = 0 /\ pause = 0 /\ cancelled = FALSE
           /\ health = "none" /\ said = "none" /\ runs = <<>>

\* The process is over, and its memory goes with it.
ForgetProbe ==
    /\ task' = "off" /\ attempt' = 0 /\ pause' = 0 /\ cancelled' = FALSE
    /\ health' = "none" /\ said' = "none" /\ runs' = <<>>

\* Supervisor::spawn.
StartProbe ==
    /\ task' = "top"
    /\ UNCHANGED <<attempt, pause, cancelled, health, said, runs>>

\* SupervisorHandle::shutdown: cancel, then wait for the task.
CancelProbe ==
    /\ cancelled' = TRUE
    /\ UNCHANGED <<task, attempt, pause, health, said, runs>>
ProbeJoined == task \in {"off", "ended"}

RunProbe ==
    /\ task = "top"
    /\ \/ cancelled /\ task' = "ended" /\ UNCHANGED <<health, said>>
       \/ ~cancelled /\ task' = "running" /\ said' \in Healths /\ health' = said'
    /\ UNCHANGED <<attempt, pause, cancelled, runs>>

\* A probe that is cancelled returns, whatever it returns.
RunCancelled ==
    /\ task = "running" /\ cancelled /\ task' = "ended"
    /\ UNCHANGED <<attempt, pause, cancelled, health, said, runs>>

\* Mutant: the count goes on after a healthy run.
CountedFor(lasted) == attempt + 1

\* A run that lasted HEALTHY_RUN starts the count, and the pause, afresh.
Since(lasted, n) == IF lasted = "healthy" THEN 0 ELSE n
Counted(lasted) == Since(lasted, attempt) + 1

\* Disabled by a permission, or by the platform: no run will do better.
RunEnds(lasted, result) ==
    /\ task = "running" /\ ~cancelled /\ Len(runs) < MaxRuns
    /\ runs' = Append(runs, <<lasted, result>>)
    /\ pause' = Since(lasted, pause)
    /\ \/ /\ result = "clean"
          /\ task' = "ended" /\ attempt' = Since(lasted, attempt) /\ UNCHANGED health
       \/ /\ result = "final"
          /\ task' = "ended" /\ attempt' = Since(lasted, attempt) /\ health' = "failed"
       \/ /\ result = "transient" /\ attempt' = Counted(lasted)
          /\ \/ attempt' >= MaxRestarts /\ task' = "ended" /\ health' = "failed"
             \/ attempt' < MaxRestarts /\ task' = "pausing" /\ UNCHANGED health
    /\ UNCHANGED <<cancelled, said>>

\* The pause ends by its time, and the next will be longer; or at once when
\* cancelled.
PauseEnds ==
    /\ task = "pausing"
    /\ \/ task' = "top" /\ pause' = (IF pause < MaxPause THEN pause + 1 ELSE pause)
       \/ cancelled /\ task' = "ended" /\ UNCHANGED pause
    /\ UNCHANGED <<attempt, cancelled, health, said, runs>>

SupStep == \/ RunProbe \/ RunCancelled \/ PauseEnds
           \/ \E l \in Lasting, r \in Results : RunEnds(l, r)

-----------------------------------------------------------------------------
(* Properties.                                                             *)

\* A probe is given up exactly when it failed for good, or MaxRestarts times
\* in a row with no healthy run among the last ones to start the count
\* afresh, and is never run again then.  The last event says that it failed
\* if it was given up, and else what the probe said of itself.  The pause
\* after the k-th failure in a row is that of k - 1 doublings.
GivenUpForCause ==
    LET n == Len(runs)
        Failed(i) == runs[i][2] = "transient"
        \* the failures in a row up to the last run, a healthy one first
        streak == {i \in 1 .. n : /\ \A j \in i .. n : Failed(j)
                                  /\ \A j \in i + 1 .. n : runs[j][1] = "short"}
        giveUp == n > 0 /\ (runs[n][2] = "final"
                              \/ Cardinality(streak) >= MaxRestarts)
    IN  /\ health = IF giveUp THEN "failed" ELSE said
        /\ giveUp => task = "ended"
        /\ task = "pausing" => /\ ~giveUp /\ n > 0
                               /\ pause = IF Cardinality(streak) - 1 < MaxPause
                                          THEN Cardinality(streak) - 1 ELSE MaxPause
=============================================================================
