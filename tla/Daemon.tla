-------------------------------- MODULE Daemon --------------------------------
(***************************************************************************)
(* Starting and stopping the daemon: smeltrd's main(), Server::bind and    *)
(* `smeltr daemon restart`.                                                *)
(*                                                                         *)
(* Processes are started at any time, by launchd or by hand; the claim of  *)
(* the pid file and of the socket are several system calls each, and those *)
(* of two processes interleave.  Daemons with another SMELTR_HOME have     *)
(* another pid file and other sessions and the same socket.  A process may *)
(* be killed at any point; SIGTERM kills one that does not serve yet.      *)
(* One process runs a supervised probe (Supervisor), which a stop awaits.  *)
(***************************************************************************)
EXTENDS Supervisor

CONSTANTS
    Procs, Homes, HomeOf,
    Ghost,           \* a process of the past, dead
    NoFile,
    Cli,             \* the process that `daemon restart` spawns
    Probed,          \* the process whose probe is modelled
    MaxKills         \* bound: processes killed

ASSUME DaemonAssumption ==
    /\ HomeOf \in [Procs -> Homes] /\ Ghost \notin Procs
    /\ NoFile \notin Procs \cup {Ghost} /\ Cli \in Procs /\ Probed \in Procs

VARIABLES
    place,              \* of each process
    pidFile, written,   \* of each home: who created it, whether it has a pid
    socket,             \* whose socket file
    session,            \* the ambient session of each process, on disk
    cli, cliPid, told,  \* `smeltr daemon restart`
    kills,
    unlinkedLive,       \* history: a start removed the pid file of a live one
    robbed              \* history: a live daemon's session was "recovered"

files == <<pidFile, written, socket, session>>
cliVars == <<cli, cliPid, told>>
past == <<kills, unlinkedLive, robbed>>
vars == <<place, files, cliVars, past, supervision>>

Over == {"new", "exited", "killed"}
Alive(p) == p \in Procs /\ place[p] \notin Over
Serves(p) == p \in Procs /\ place[p] = "serving"
\* connect() succeeds.
SocketServed == Serves(socket)
\* The pid file names a live process called smeltrd.
LivePid(h) == IF written[h] /\ Alive(pidFile[h]) THEN pidFile[h] ELSE NoFile

\* Nothing, or what a daemon that was killed has left.
Init ==
    /\ place = [p \in Procs |-> "new"]
    /\ pidFile \in [Homes -> {NoFile, Ghost}]
    /\ written = [h \in Homes |-> pidFile[h] = Ghost]
    /\ socket \in {NoFile, Ghost}
    /\ session = [p \in Procs |-> "none"]
    /\ cli \in {"idle", "over"} /\ cliPid = NoFile /\ told = "nothing"
    /\ kills = 0 /\ unlinkedLive = FALSE /\ robbed = FALSE
    /\ SupInit

-----------------------------------------------------------------------------
(* main(): the start.                                                      *)

Step(p, from, to) == place[p] = from /\ place' = [place EXCEPT ![p] = to]
Rest == <<cliVars, supervision>>

\* `smeltrd` run by launchd or by hand.
Spawn(p) ==
    /\ p # Cli /\ Step(p, "new", "check")
    /\ UNCHANGED <<files, Rest, past>>

CheckPid(p) ==
    /\ Step(p, "check",
            IF LivePid(HomeOf[p]) # NoFile THEN "exited" ELSE "unlink")
    /\ UNCHANGED <<files, Rest, past>>

\* Whatever the file has become since it was read.
UnlinkPid(p) ==
    LET h == HomeOf[p]
    IN  /\ Step(p, "unlink", "look")
        /\ unlinkedLive' = (unlinkedLive \/ Alive(pidFile[h]))
        /\ pidFile' = [pidFile EXCEPT ![h] = NoFile]
        /\ written' = [written EXCEPT ![h] = FALSE]
        /\ UNCHANGED <<socket, session, Rest, kills, robbed>>

LookAtSocket(p) ==
    /\ Step(p, "look", IF SocketServed THEN "exited" ELSE "claim")
    /\ UNCHANGED <<files, Rest, past>>

\* Mutant: the file is created, or overwritten.
CreatesAlways(h) == TRUE

\* O_EXCL.
Creates(h) == pidFile[h] = NoFile

ClaimPid(p) ==
    LET h == HomeOf[p]
    IN  /\ Step(p, "claim", IF Creates(h) THEN "write" ELSE "exited")
        /\ pidFile' = IF Creates(h) THEN [pidFile EXCEPT ![h] = p] ELSE pidFile
        /\ UNCHANGED <<written, socket, session, Rest, past>>

\* The write goes to the file created, which may have been unlinked since.
WritePid(p) ==
    LET h == HomeOf[p]
    IN  /\ Step(p, "write", "recover")
        /\ written' = [written EXCEPT ![h] = @ \/ pidFile[h] = p]
        /\ UNCHANGED <<pidFile, socket, session, Rest, past>>

\* recover_orphaned_sessions, then the ambient session is opened.
Recover(p) ==
    LET open == {q \in Procs : HomeOf[q] = HomeOf[p] /\ session[q] = "open"}
    IN  /\ Step(p, "recover", "bind")
        /\ session' = [q \in Procs |-> IF q = p THEN "open"
                                       ELSE IF q \in open THEN "recovered"
                                       ELSE session[q]]
        /\ robbed' = (robbed \/ \E q \in open : Alive(q))
        /\ UNCHANGED <<pidFile, written, socket, Rest, kills, unlinkedLive>>

\* Server::bind: the socket of another daemon that serves is left alone.
BindRefused == SocketServed

CheckBind(p) ==
    /\ Step(p, "bind", IF BindRefused THEN "exited" ELSE "unlinkSocket")
    /\ UNCHANGED <<files, Rest, past>>

UnlinkSocket(p) ==
    /\ Step(p, "unlinkSocket", "listen") /\ socket' = NoFile
    /\ UNCHANGED <<pidFile, written, session, Rest, past>>

\* bind() fails on a file that exists.
Listen(p) ==
    /\ Step(p, "listen", IF socket = NoFile THEN "serving" ELSE "exited")
    /\ socket' = IF socket = NoFile THEN p ELSE socket
    /\ IF p = Probed /\ socket = NoFile THEN StartProbe
                                        ELSE UNCHANGED supervision
    /\ UNCHANGED <<pidFile, written, session, cliVars, past>>

-----------------------------------------------------------------------------
(* main(): the stop.                                                       *)

\* A signal; its effect depends on whether the handlers are installed.
Terminated(p) ==
    place' = [place EXCEPT ![p] = IF @ = "serving" THEN "stopping"
                                  ELSE IF @ \in {"stopping", "finalize",
                                                 "unclaim", "unbind"} THEN @
                                  ELSE "killed"]

Kill(p) ==
    /\ Alive(p) /\ kills < MaxKills /\ kills' = kills + 1
    /\ place' = [place EXCEPT ![p] = "killed"]
    /\ IF p = Probed THEN ForgetProbe ELSE UNCHANGED supervision
    /\ UNCHANGED <<files, cliVars, unlinkedLive, robbed>>

\* Mutant: the probes are not told to end.
AwaitProbes(p) ==
    /\ p = Probed => ProbeJoined
    /\ Step(p, "stopping", "finalize")
    /\ UNCHANGED <<supervision, files, cliVars, past>>

\* ProbeRuntime::shutdown: cancel the probes, then wait for each.
StopProbes(p) ==
    \/ /\ p = Probed /\ place[p] = "stopping" /\ ~cancelled /\ ~ProbeJoined
       /\ CancelProbe
       /\ UNCHANGED <<place, files, cliVars, past>>
    \/ /\ p = Probed => ProbeJoined
       /\ Step(p, "stopping", "finalize")
       /\ UNCHANGED <<supervision, files, cliVars, past>>

Finalize(p) ==
    /\ Step(p, "finalize", "unclaim")
    /\ session' = [session EXCEPT ![p] = "ended"]
    /\ UNCHANGED <<pidFile, written, socket, Rest, past>>

Others(p, q) == q # p /\ Alive(q)

Unclaim(p) ==
    /\ Step(p, "unclaim", "unbind")
    /\ pidFile' = [pidFile EXCEPT ![HomeOf[p]] = NoFile]
    /\ written' = [written EXCEPT ![HomeOf[p]] = FALSE]
    /\ unlinkedLive' = (unlinkedLive \/ Others(p, pidFile[HomeOf[p]]))
    /\ UNCHANGED <<socket, session, Rest, kills, robbed>>

\* Whoever's socket it is.
Unbind(p) ==
    /\ Step(p, "unbind", "exited") /\ socket' = NoFile
    /\ IF p = Probed THEN ForgetProbe ELSE UNCHANGED supervision
    /\ UNCHANGED <<pidFile, written, session, cliVars, past>>

DaemonStep(p) ==
    \/ CheckPid(p) \/ UnlinkPid(p) \/ LookAtSocket(p) \/ ClaimPid(p)
    \/ WritePid(p) \/ Recover(p) \/ CheckBind(p) \/ UnlinkSocket(p) \/ Listen(p)
    \/ StopProbes(p) \/ Finalize(p) \/ Unclaim(p) \/ Unbind(p)

-----------------------------------------------------------------------------
(* `smeltr daemon restart`: stop(), then start().                          *)

CliRest == <<files, past, supervision>>

CliStop ==
    LET pid == LivePid(HomeOf[Cli])
    IN  /\ cli = "idle" /\ cliPid' = pid
        /\ IF pid = NoFile THEN cli' = "start" /\ UNCHANGED place
                           ELSE cli' = "wait" /\ Terminated(pid)
        /\ UNCHANGED <<CliRest, told>>

\* Until the process is gone, not only its pid file.
Wait ==
    /\ cli = "wait" /\ ~Alive(cliPid) /\ cli' = "start"
    /\ UNCHANGED <<place, cliPid, told, CliRest>>

CliStart ==
    /\ cli = "start"
    /\ IF LivePid(HomeOf[Cli]) # NoFile
       THEN told' = "running" /\ cli' = "over" /\ UNCHANGED place
       ELSE cli' = "poll" /\ Step(Cli, "new", "check") /\ UNCHANGED told
    /\ UNCHANGED <<cliPid, CliRest>>

\* The socket answers, or the child has exited.
Poll ==
    /\ cli = "poll" /\ cli' = "over"
    /\ \/ SocketServed /\ told' = "running"
       \/ ~SocketServed /\ ~Alive(Cli) /\ told' = "failed"
    /\ UNCHANGED <<place, cliPid, CliRest>>

CliStep == CliStop \/ Wait \/ CliStart \/ Poll

ProbeStep == SupStep /\ UNCHANGED <<place, files, cliVars, past>>

Next == \/ CliStep \/ ProbeStep
        \/ \E p \in Procs : Spawn(p) \/ DaemonStep(p) \/ Kill(p)

Spec == Init /\ [][Next]_vars

DaemonFairness == /\ \A p \in Procs : WF_vars(DaemonStep(p))
                  /\ WF_vars(ProbeStep) /\ WF_vars(CliStep)

FairSpec == Spec /\ DaemonFairness

-----------------------------------------------------------------------------
(* Properties.                                                             *)

\* Of one home, one process at a time has claimed the pid file, until it takes
\* it away to end, and no daemon closes a session of a live one -- unless a
\* start has removed the pid file of a live process: it does not look again at
\* what it read as stale or empty.
Claimed(p) == /\ Alive(p)
              /\ place[p] \notin {"check", "unlink", "look", "claim", "unbind"}
OneDaemonPerHome ==
    ~unlinkedLive =>
        /\ \A p, q \in Procs : Claimed(p) /\ Claimed(q) /\ HomeOf[p] = HomeOf[q]
                                 => p = q
        /\ ~robbed

\* Unless somebody is killed or told to stop, starts do not refuse each other
\* until none is left: when all are over, one serves, whatever stale files
\* were there and whichever home it has.
SomeStartSucceeds ==
    (\E p \in Procs : place[p] # "new")
        /\ (\A p \in Procs : place[p] \in {"new", "exited", "serving"})
        /\ cliPid = NoFile
    => \E p \in Procs : Serves(p)

\* When `restart` says that a daemon runs, one serves where clients look for
\* it, or is about to, unless one is killed or others are started meanwhile:
\* the daemon it stopped does not take the new one's files away.
RestartIsTrue ==
    /\ told = "running" /\ kills = 0
    /\ Cardinality({p \in Procs \ {Cli} : place[p] # "new"}) <= 1
    => \E p \in Procs : /\ Alive(p)
                        /\ place[p] \notin {"stopping", "finalize", "unclaim", "unbind"}
                        /\ Serves(p) => socket = p

\* Starts and stops, in any order, leave one daemon where one is wanted: never
\* two of a home, not none, and none that a restart only says it is.
StartsAreSound == OneDaemonPerHome /\ SomeStartSucceeds /\ RestartIsTrue

\* A stop comes to its end, whatever the probe was doing: a process stops at
\* most once, so again and again none is on its way out.
Stopping == {"stopping", "finalize", "unclaim", "unbind"}
StopEnds == []<>(\A p \in Procs : place[p] \notin Stopping)
=============================================================================
