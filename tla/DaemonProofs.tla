----------------------------- MODULE DaemonProofs -----------------------------
(***************************************************************************)
(* Proofs about the start and the stop of the daemon, about the probe that *)
(* its supervisor runs, about what the recorder keeps and the watcher      *)
(* saves, and about what a client of the event feed gets.                  *)
(***************************************************************************)
EXTENDS Daemon, Subscriber, FiniteSetTheorems, SequenceTheorems,
        WellFoundedInduction, TLAPS

Early == {"new", "check", "unlink", "look", "claim"}
Starting == {"write", "recover", "bind", "unlinkSocket", "listen"}
Places == Early \cup Starting \cup {"serving"} \cup Stopping \cup {"exited", "killed"}
Tasks == {"off", "top", "running", "pausing", "ended"}

DaemonTypeOK ==
    /\ place \in [Procs -> Places]
    /\ pidFile \in [Homes -> Procs \cup {Ghost, NoFile}]
    /\ written \in [Homes -> BOOLEAN]
    /\ socket \in Procs \cup {Ghost, NoFile}
    /\ session \in [Procs -> {"none", "open", "recovered", "ended"}]
    /\ cli \in {"idle", "wait", "start", "poll", "over"}
    /\ cliPid \in Procs \cup {NoFile}
    /\ told \in {"nothing", "running", "failed"}
    /\ kills \in Nat
    /\ unlinkedLive \in BOOLEAN /\ robbed \in BOOLEAN

\* No step leaves the places and files there are.
LEMMA DaemonTyped ==
  ASSUME DaemonTypeOK, [Next]_vars
  PROVE  DaemonTypeOK'
<1> USE DaemonAssumption DEF DaemonTypeOK
<1>1. CASE UNCHANGED vars
  BY <1>1 DEF vars, files, cliVars, past
<1>2. CASE CliStep
  <2> USE DEF CliRest, files, past
  <2>1. CASE CliStop
    BY <2>1 DEF CliStop, Terminated, LivePid, Alive, Places, Stopping, Early, Starting
  <2>2. CASE Wait
    BY <2>2 DEF Wait
  <2>3. CASE CliStart
    BY <2>3 DEF CliStart, Step, Places, Stopping, Early, Starting
  <2>4. CASE Poll
    BY <2>4 DEF Poll
  <2> QED
    BY <1>2, <2>1, <2>2, <2>3, <2>4 DEF CliStep
<1>3. CASE ProbeStep
  BY <1>3 DEF ProbeStep, files, cliVars, past
<1>4. ASSUME NEW p \in Procs, Spawn(p) \/ DaemonStep(p) \/ Kill(p)
      PROVE  DaemonTypeOK'
  <2> USE DEF Step, Rest, files, cliVars, past, Places, Early, Starting, Stopping
  <2>1. CASE Spawn(p) \/ CheckPid(p) \/ LookAtSocket(p) \/ CheckBind(p)
    BY <2>1 DEF Spawn, CheckPid, LookAtSocket, CheckBind
  <2>2. CASE UnlinkPid(p) \/ Unclaim(p)
    BY <2>2 DEF UnlinkPid, Unclaim, Alive, Others
  <2>6. CASE ClaimPid(p)
    BY <2>6 DEF ClaimPid, Creates
  <2>7. CASE WritePid(p)
    BY <2>7 DEF WritePid
  <2>3. CASE Recover(p) \/ Finalize(p)
    BY <2>3, ZenonT(40) DEF Recover, Finalize
  <2>4. CASE UnlinkSocket(p) \/ Listen(p) \/ Unbind(p)
    BY <2>4 DEF UnlinkSocket, Listen, Unbind
  <2>5. CASE StopProbes(p) \/ Kill(p)
    BY <2>5 DEF StopProbes, Kill
  <2> QED
    BY <1>4, <2>1, <2>2, <2>3, <2>4, <2>5, <2>6, <2>7 DEF DaemonStep
<1> QED
  BY <1>1, <1>2, <1>3, <1>4 DEF Next

-----------------------------------------------------------------------------
(* Whose the pid file is.                                                  *)

\* A process that has claimed the pid file finds it its own until it ends.
FileIsOfClaimant ==
    ~unlinkedLive => \A p \in Procs : Claimed(p) => pidFile[HomeOf[p]] = p

\* A session is open from its process's start to its end.
SessionsOfClaimants ==
    \A p \in Procs : session[p] = "open" =>
        place[p] \in {"bind", "unlinkSocket", "listen", "serving", "stopping", "finalize",
                     "exited", "killed"}

NotRobbed == ~unlinkedLive => ~robbed

ClaimInv == FileIsOfClaimant /\ SessionsOfClaimants /\ NotRobbed

\* A process claims only a home nobody has claimed, and only a claimant takes a claim away.
LEMMA ClaimsKept ==
  ASSUME DaemonTypeOK, ClaimInv, [Next]_vars
  PROVE  ClaimInv'
<1> USE DaemonAssumption DEF ClaimInv, FileIsOfClaimant, SessionsOfClaimants, NotRobbed, DaemonTypeOK,
           Claimed, Alive, Over, Places, Early, Starting, Stopping
<1>1. CASE UNCHANGED vars
  BY <1>1 DEF vars, files, cliVars, past
<1>2. CASE CliStep
  <2> USE DEF CliRest, files, past
  <2>1. CASE CliStop
    BY <2>1 DEF CliStop, Terminated, LivePid
  <2>2. CASE Wait
    BY <2>2 DEF Wait
  <2>3. CASE CliStart
    BY <2>3 DEF CliStart, Step, LivePid
  <2>4. CASE Poll
    BY <2>4 DEF Poll
  <2> QED
    BY <1>2, <2>1, <2>2, <2>3, <2>4 DEF CliStep
<1>3. CASE ProbeStep
  BY <1>3 DEF ProbeStep, files, cliVars, past
<1>4. ASSUME NEW p \in Procs, Spawn(p) \/ DaemonStep(p) \/ Kill(p)
      PROVE  ClaimInv'
  <2> USE DEF Step, Rest, files, cliVars, past
  <2>1. CASE Spawn(p)
    BY <2>1 DEF Spawn
  <2>2. CASE CheckPid(p)
    BY <2>2 DEF CheckPid, LivePid
  <2>3. CASE UnlinkPid(p)
    BY <2>3 DEF UnlinkPid
  <2>4. CASE LookAtSocket(p)
    BY <2>4 DEF LookAtSocket, SocketServed
  <2>5. CASE ClaimPid(p)
    BY <2>5 DEF ClaimPid, Creates
  <2>6. CASE WritePid(p)
    BY <2>6 DEF WritePid
  <2>7. CASE Recover(p)
    BY <2>7 DEF Recover
  <2>8. CASE CheckBind(p)
    BY <2>8 DEF CheckBind, BindRefused, SocketServed
  <2>9. CASE UnlinkSocket(p)
    BY <2>9 DEF UnlinkSocket
  <2>10. CASE Listen(p)
    BY <2>10 DEF Listen
  <2>11. CASE StopProbes(p)
    BY <2>11 DEF StopProbes
  <2>12. CASE Finalize(p)
    BY <2>12 DEF Finalize
  <2>13. CASE Unclaim(p)
    BY <2>13 DEF Unclaim, Others
  <2>14. CASE Unbind(p)
    BY <2>14 DEF Unbind
  <2>15. CASE Kill(p)
    BY <2>15 DEF Kill
  <2> QED
    BY <1>4, <2>1, <2>2, <2>3, <2>4, <2>5, <2>6, <2>7,
       <2>8, <2>9, <2>10, <2>11, <2>12, <2>13, <2>14, <2>15 DEF DaemonStep
<1> QED
  BY <1>1, <1>2, <1>3, <1>4 DEF Next


-----------------------------------------------------------------------------
(* Who is told to stop.                                                    *)

\* Only `restart` stops a process here, one, and waits for its end.
ToldInv ==
    /\ \A p \in Procs : place[p] \in Stopping => cli = "wait" /\ p = cliPid
    /\ cli = "wait" => cliPid \in Procs /\ place[cliPid] # "new"
    /\ cli \notin {"idle", "wait"} /\ cliPid # NoFile => place[cliPid] \in {"exited", "killed"}
    /\ cli = "idle" => cliPid = NoFile
    /\ cli \in {"idle", "wait", "start"} => place[Cli] = "new"
    /\ told = "running" => cli = "over"

-----------------------------------------------------------------------------
(* What may stand in the files.                                            *)

\* A process has its name in the files only after its claim.
EarlyHasNone ==
    \A p \in Procs : place[p] \in Early => socket # p /\ \A h \in Homes : pidFile[h] # p

\* A live process whose socket file it is serves, or has served.
SocketOfServer ==
    \A p \in Procs : socket = p /\ Alive(p) => place[p] \in Stopping \cup {"serving"}

\* What the past has left is unlinked before a claim, and before a bind.
GhostsAreGone ==
    \A p \in Procs : /\ place[p] \in {"look", "claim"} => pidFile[HomeOf[p]] # Ghost
                     /\ place[p] = "listen" => socket # Ghost

FilesInv == EarlyHasNone /\ SocketOfServer /\ GhostsAreGone

\* No process comes back, and none writes another's name.
LEMMA FilesKept ==
  ASSUME DaemonTypeOK, FilesInv, [Next]_vars
  PROVE  FilesInv'
<1> USE DaemonAssumption DEF FilesInv, EarlyHasNone, SocketOfServer, GhostsAreGone, DaemonTypeOK,
           Alive, Over, Places, Early, Starting, Stopping
<1>1. CASE UNCHANGED vars
  BY <1>1 DEF vars, files, cliVars, past
<1>2. CASE CliStep
  <2> USE DEF CliRest, files, past
  <2>1. CASE CliStop
    BY <2>1 DEF CliStop, Terminated, LivePid
  <2>2. CASE Wait
    BY <2>2 DEF Wait
  <2>3. CASE CliStart
    BY <2>3 DEF CliStart, Step, LivePid
  <2>4. CASE Poll
    BY <2>4 DEF Poll
  <2> QED
    BY <1>2, <2>1, <2>2, <2>3, <2>4 DEF CliStep
<1>3. CASE ProbeStep
  BY <1>3 DEF ProbeStep, files, cliVars, past
<1>4. ASSUME NEW p \in Procs, Spawn(p) \/ DaemonStep(p) \/ Kill(p)
      PROVE  FilesInv'
  <2> USE DEF Step, Rest, files, cliVars, past
  <2>1. CASE Spawn(p)
    BY <2>1 DEF Spawn
  <2>2. CASE CheckPid(p)
    BY <2>2 DEF CheckPid, LivePid
  <2>3. CASE UnlinkPid(p)
    BY <2>3 DEF UnlinkPid
  <2>4. CASE LookAtSocket(p)
    BY <2>4 DEF LookAtSocket, SocketServed
  <2>5. CASE ClaimPid(p)
    BY <2>5 DEF ClaimPid, Creates
  <2>6. CASE WritePid(p)
    BY <2>6 DEF WritePid
  <2>7. CASE Recover(p)
    BY <2>7 DEF Recover
  <2>8. CASE CheckBind(p)
    BY <2>8 DEF CheckBind, BindRefused, SocketServed
  <2>9. CASE UnlinkSocket(p)
    BY <2>9 DEF UnlinkSocket
  <2>10. CASE Listen(p)
    BY <2>10 DEF Listen
  <2>11. CASE StopProbes(p)
    BY <2>11 DEF StopProbes
  <2>12. CASE Finalize(p)
    BY <2>12 DEF Finalize
  <2>13. CASE Unclaim(p)
    BY <2>13 DEF Unclaim, Others
  <2>14. CASE Unbind(p)
    BY <2>14 DEF Unbind
  <2>15. CASE Kill(p)
    BY <2>15 DEF Kill
  <2> QED
    BY <1>4, <2>1, <2>2, <2>3, <2>4, <2>5, <2>6, <2>7,
       <2>8, <2>9, <2>10, <2>11, <2>12, <2>13, <2>14, <2>15 DEF DaemonStep
<1> QED
  BY <1>1, <1>2, <1>3, <1>4 DEF Next

\* Nobody else is told to stop.
LEMMA ToldKept ==
  ASSUME DaemonTypeOK, FilesInv, ToldInv, [Next]_vars
  PROVE  ToldInv'
<1> USE DaemonAssumption DEF ToldInv, FilesInv, EarlyHasNone, DaemonTypeOK, Alive, Over, Places, Early, Starting, Stopping
<1>1. CASE UNCHANGED vars
  BY <1>1 DEF vars, files, cliVars, past
<1>2. CASE CliStep
  <2> USE DEF CliRest, files, past
  <2>1. CASE CliStop
    BY <2>1 DEF CliStop, Terminated, LivePid
  <2>2. CASE Wait
    BY <2>2 DEF Wait
  <2>3. CASE CliStart
    BY <2>3 DEF CliStart, Step, LivePid
  <2>4. CASE Poll
    BY <2>4 DEF Poll
  <2> QED
    BY <1>2, <2>1, <2>2, <2>3, <2>4 DEF CliStep
<1>3. CASE ProbeStep
  BY <1>3 DEF ProbeStep, files, cliVars, past
<1>4. ASSUME NEW p \in Procs, Spawn(p) \/ DaemonStep(p) \/ Kill(p)
      PROVE  ToldInv'
  <2> USE DEF Step, Rest, files, cliVars, past
  <2>1. CASE Spawn(p)
    BY <2>1 DEF Spawn
  <2>2. CASE CheckPid(p)
    BY <2>2 DEF CheckPid, LivePid
  <2>3. CASE UnlinkPid(p)
    BY <2>3 DEF UnlinkPid
  <2>4. CASE LookAtSocket(p)
    BY <2>4 DEF LookAtSocket, SocketServed
  <2>5. CASE ClaimPid(p)
    BY <2>5 DEF ClaimPid, Creates
  <2>6. CASE WritePid(p)
    BY <2>6 DEF WritePid
  <2>7. CASE Recover(p)
    BY <2>7 DEF Recover
  <2>8. CASE CheckBind(p)
    BY <2>8 DEF CheckBind, BindRefused, SocketServed
  <2>9. CASE UnlinkSocket(p)
    BY <2>9 DEF UnlinkSocket
  <2>10. CASE Listen(p)
    BY <2>10 DEF Listen
  <2>11. CASE StopProbes(p)
    BY <2>11 DEF StopProbes
  <2>12. CASE Finalize(p)
    BY <2>12 DEF Finalize
  <2>13. CASE Unclaim(p)
    BY <2>13 DEF Unclaim, Others
  <2>14. CASE Unbind(p)
    BY <2>14 DEF Unbind
  <2>15. CASE Kill(p)
    BY <2>15 DEF Kill
  <2> QED
    BY <1>4, <2>1, <2>2, <2>3, <2>4, <2>5, <2>6, <2>7,
       <2>8, <2>9, <2>10, <2>11, <2>12, <2>13, <2>14, <2>15 DEF DaemonStep
<1> QED
  BY <1>1, <1>2, <1>3, <1>4 DEF Next

-----------------------------------------------------------------------------
(* Starts that refuse each other.                                          *)

\* Nobody was killed, nor told to stop.
Calm == cliPid = NoFile /\ \A p \in Procs : place[p] # "killed"

\* Then a process ends only for another one: who has its name in a file serves,
\* or is on the way to, or has left the field to one that serves.
CalmInv ==
    Calm =>
      /\ socket \in Procs => Serves(socket)
      /\ \A h \in Homes :
           pidFile[h] \in Procs => Alive(pidFile[h]) \/ \E r \in Procs : Serves(r)
      /\ (\E p \in Procs : place[p] # "new")
           => \E p \in Procs : place[p] \notin {"new", "exited"}

\* Who refuses to start has seen another one that goes on.
LEMMA CalmKept ==
  ASSUME DaemonTypeOK, FilesInv, ToldInv, CalmInv, [Next]_vars
  PROVE  CalmInv'
<1> USE DaemonAssumption DEF CalmInv, Calm, Serves, ToldInv, FilesInv, EarlyHasNone, SocketOfServer, GhostsAreGone,
           DaemonTypeOK, Alive, Over, Places, Early, Starting, Stopping
<1>1. CASE UNCHANGED vars
  BY <1>1 DEF vars, files, cliVars, past
<1>2. CASE CliStep
  <2> USE DEF CliRest, files, past
  <2>1. CASE CliStop
    BY <2>1 DEF CliStop, Terminated, LivePid
  <2>2. CASE Wait
    BY <2>2 DEF Wait
  <2>3. CASE CliStart
    BY <2>3 DEF CliStart, Step, LivePid
  <2>4. CASE Poll
    BY <2>4 DEF Poll
  <2> QED
    BY <1>2, <2>1, <2>2, <2>3, <2>4 DEF CliStep
<1>3. CASE ProbeStep
  BY <1>3 DEF ProbeStep, files, cliVars, past
<1>4. ASSUME NEW p \in Procs, Spawn(p) \/ DaemonStep(p) \/ Kill(p)
      PROVE  CalmInv'
  <2> USE DEF Step, Rest, files, cliVars, past
  <2>1. CASE Spawn(p)
    BY <2>1 DEF Spawn
  <2>2. CASE CheckPid(p)
    BY <2>2 DEF CheckPid, LivePid
  <2>3. CASE UnlinkPid(p)
    BY <2>3 DEF UnlinkPid
  <2>4. CASE LookAtSocket(p)
    BY <2>4 DEF LookAtSocket, SocketServed
  <2>5. CASE ClaimPid(p)
    BY <2>5 DEF ClaimPid, Creates
  <2>6. CASE WritePid(p)
    BY <2>6 DEF WritePid
  <2>7. CASE Recover(p)
    BY <2>7 DEF Recover
  <2>8. CASE CheckBind(p)
    BY <2>8 DEF CheckBind, BindRefused, SocketServed
  <2>9. CASE UnlinkSocket(p)
    BY <2>9 DEF UnlinkSocket
  <2>10. CASE Listen(p)
    BY <2>10 DEF Listen
  <2>11. CASE StopProbes(p)
    BY <2>11 DEF StopProbes
  <2>12. CASE Finalize(p)
    BY <2>12 DEF Finalize
  <2>13. CASE Unclaim(p)
    BY <2>13 DEF Unclaim, Others
  <2>14. CASE Unbind(p)
    BY <2>14 DEF Unbind
  <2>15. CASE Kill(p)
    BY <2>15 DEF Kill
  <2> QED
    BY <1>4, <2>1, <2>2, <2>3, <2>4, <2>5, <2>6, <2>7,
       <2>8, <2>9, <2>10, <2>11, <2>12, <2>13, <2>14, <2>15 DEF DaemonStep
<1> QED
  BY <1>1, <1>2, <1>3, <1>4 DEF Next

-----------------------------------------------------------------------------
(* What `restart` says.                                                    *)

Started(p) == place[p] # "new"

\* Beside the process that restart spawns, one other at most was started.
Few == \A p, q \in Procs \ {Cli} : Started(p) /\ Started(q) => p = q

\* A process that is alone keeps its socket.
Alone(o) == \A p \in Procs : p # o => place[p] = "new"
ServerAlone == \A o \in Procs : place[o] = "serving" /\ Alone(o) => socket = o

\* One alone has claimed the pid file, and nothing will stop it.
WillServe(o) ==
    /\ o # Cli /\ Alone(o)
    /\ place[o] \in Starting \cup {"serving"}
    /\ socket \in Procs => socket = o /\ place[o] = "serving"
    /\ place[o] = "listen" => socket = NoFile
    /\ place[o] = "serving" => socket = o

\* One replaces the socket of another, whose turn it was to serve.
TakesOver(o, r) ==
    /\ place[o] = "listen" /\ socket = NoFile /\ place[r] = "serving"
    /\ \A q \in Procs \ {o, r} : place[q] = "new"

RestartInv ==
    told = "running" /\ kills = 0 /\ Few =>
        \/ SocketServed
        \/ \E o \in Procs : WillServe(o)
        \/ \E o, r \in Procs : TakesOver(o, r)

\* A socket is unlinked by another process only, or at the end.
LEMMA ServerAloneKept ==
  ASSUME DaemonTypeOK, ServerAlone, [Next]_vars
  PROVE  ServerAlone'
<1> USE DaemonAssumption DEF ServerAlone, Alone, DaemonTypeOK, Alive, Over, Places, Early, Starting, Stopping
<1>1. CASE UNCHANGED vars
  BY <1>1 DEF vars, files, cliVars, past
<1>2. CASE CliStep
  <2> USE DEF CliRest, files, past
  <2>1. CASE CliStop
    BY <2>1 DEF CliStop, Terminated, LivePid
  <2>2. CASE Wait
    BY <2>2 DEF Wait
  <2>3. CASE CliStart
    BY <2>3 DEF CliStart, Step, LivePid
  <2>4. CASE Poll
    BY <2>4 DEF Poll
  <2> QED
    BY <1>2, <2>1, <2>2, <2>3, <2>4 DEF CliStep
<1>3. CASE ProbeStep
  BY <1>3 DEF ProbeStep, files, cliVars, past
<1>4. ASSUME NEW p \in Procs, Spawn(p) \/ DaemonStep(p) \/ Kill(p)
      PROVE  ServerAlone'
  <2> USE DEF Step, Rest, files, cliVars, past
  <2>1. CASE Spawn(p)
    BY <2>1 DEF Spawn
  <2>2. CASE CheckPid(p)
    BY <2>2 DEF CheckPid, LivePid
  <2>3. CASE UnlinkPid(p)
    BY <2>3 DEF UnlinkPid
  <2>4. CASE LookAtSocket(p)
    BY <2>4 DEF LookAtSocket, SocketServed
  <2>5. CASE ClaimPid(p)
    BY <2>5 DEF ClaimPid, Creates
  <2>6. CASE WritePid(p)
    BY <2>6 DEF WritePid
  <2>7. CASE Recover(p)
    BY <2>7 DEF Recover
  <2>8. CASE CheckBind(p)
    BY <2>8 DEF CheckBind, BindRefused, SocketServed
  <2>9. CASE UnlinkSocket(p)
    BY <2>9 DEF UnlinkSocket
  <2>10. CASE Listen(p)
    BY <2>10 DEF Listen
  <2>11. CASE StopProbes(p)
    BY <2>11 DEF StopProbes
  <2>12. CASE Finalize(p)
    BY <2>12 DEF Finalize
  <2>13. CASE Unclaim(p)
    BY <2>13 DEF Unclaim, Others
  <2>14. CASE Unbind(p)
    BY <2>14 DEF Unbind
  <2>15. CASE Kill(p)
    BY <2>15 DEF Kill
  <2> QED
    BY <1>4, <2>1, <2>2, <2>3, <2>4, <2>5, <2>6, <2>7,
       <2>8, <2>9, <2>10, <2>11, <2>12, <2>13, <2>14, <2>15 DEF DaemonStep
<1> QED
  BY <1>1, <1>2, <1>3, <1>4 DEF Next

\* Nobody takes away the socket that restart has seen served, or will see.
LEMMA RestartKept ==
  ASSUME DaemonTypeOK, FilesInv, ToldInv, ServerAlone, RestartInv, [Next]_vars
  PROVE  RestartInv'
<1> USE DaemonAssumption DEF RestartInv, Few, Started, ServerAlone, WillServe, TakesOver, Alone, SocketServed, Serves,
           ToldInv, FilesInv, EarlyHasNone, SocketOfServer, GhostsAreGone, DaemonTypeOK, Alive, Over, Places, Early, Starting, Stopping
<1>1. CASE UNCHANGED vars
  BY <1>1 DEF vars, files, cliVars, past
<1>2. CASE CliStep
  <2> USE DEF CliRest, files, past
  <2>1. CASE CliStop
    BY <2>1 DEF CliStop, Terminated, LivePid
  <2>2. CASE Wait
    BY <2>2 DEF Wait
  <2>3. CASE CliStart
    BY <2>3 DEF CliStart, Step, LivePid
  <2>4. CASE Poll
    BY <2>4 DEF Poll
  <2> QED
    BY <1>2, <2>1, <2>2, <2>3, <2>4 DEF CliStep
<1>3. CASE ProbeStep
  BY <1>3 DEF ProbeStep, files, cliVars, past
<1>4. ASSUME NEW p \in Procs, Spawn(p) \/ DaemonStep(p) \/ Kill(p)
      PROVE  RestartInv'
  <2> USE DEF Step, Rest, files, cliVars, past
  <2>1. CASE Spawn(p)
    BY <2>1 DEF Spawn
  <2>2. CASE CheckPid(p)
    BY <2>2 DEF CheckPid, LivePid
  <2>3. CASE UnlinkPid(p)
    BY <2>3 DEF UnlinkPid
  <2>4. CASE LookAtSocket(p)
    BY <2>4 DEF LookAtSocket, SocketServed
  <2>5. CASE ClaimPid(p)
    BY <2>5 DEF ClaimPid, Creates
  <2>6. CASE WritePid(p)
    BY <2>6 DEF WritePid
  <2>7. CASE Recover(p)
    BY <2>7 DEF Recover
  <2>8. CASE CheckBind(p)
    BY <2>8 DEF CheckBind, BindRefused, SocketServed
  <2>9. CASE UnlinkSocket(p)
    BY <2>9 DEF UnlinkSocket
  <2>10. CASE Listen(p)
    BY <2>10 DEF Listen
  <2>11. CASE StopProbes(p)
    BY <2>11 DEF StopProbes
  <2>12. CASE Finalize(p)
    BY <2>12 DEF Finalize
  <2>13. CASE Unclaim(p)
    BY <2>13 DEF Unclaim, Others
  <2>14. CASE Unbind(p)
    BY <2>14 DEF Unbind
  <2>15. CASE Kill(p)
    BY <2>15 DEF Kill
  <2> QED
    BY <1>4, <2>1, <2>2, <2>3, <2>4, <2>5, <2>6, <2>7,
       <2>8, <2>9, <2>10, <2>11, <2>12, <2>13, <2>14, <2>15 DEF DaemonStep
<1> QED
  BY <1>1, <1>2, <1>3, <1>4 DEF Next

-----------------------------------------------------------------------------
(* The supervised probe.                                                   *)

SupTypeOK ==
    /\ task \in Tasks /\ attempt \in Nat /\ pause \in Nat /\ cancelled \in BOOLEAN
    /\ health \in {"none", "ok", "degraded", "failed"} /\ said \in {"none", "ok", "degraded", "failed"}
    /\ runs \in Seq(Lasting \X Results)

AllFailed == \A i \in 1 .. Len(runs) : runs[i][2] = "transient"

\* Every run but the last one failed, as no run follows another result.
OnlyLastEnds ==
    /\ \A i \in 1 .. Len(runs) - 1 : runs[i][2] = "transient"
    /\ ~AllFailed => task = "ended"

\* The count is that of the failures in a row: the runs of the row that are not
\* its first were short, and its first one was healthy or the first of all.
CountIsOfRow ==
    AllFailed =>
      /\ attempt <= Len(runs) /\ (Len(runs) > 0 => attempt > 0)
      /\ \A j \in Len(runs) - attempt + 2 .. Len(runs) : runs[j][1] = "short"
      /\ attempt < Len(runs) => runs[Len(runs) - attempt + 1][1] = "healthy"

GivenUp == /\ Len(runs) > 0
           /\ runs[Len(runs)][2] = "final" \/ (AllFailed /\ attempt >= MaxRestarts)

\* The probe is given up at the limit, and that is said; the pause grows with the
\* count.
GivenUpAtLimit ==
    /\ health = IF GivenUp THEN "failed" ELSE said
    /\ GivenUp => task = "ended"
    /\ task \in {"top", "running"} => pause = IF attempt < MaxPause THEN attempt ELSE MaxPause
    /\ task = "pausing" =>
         /\ attempt > 0
         /\ pause = IF attempt - 1 < MaxPause THEN attempt - 1 ELSE MaxPause

SupInv == SupTypeOK /\ OnlyLastEnds /\ CountIsOfRow /\ GivenUpAtLimit

\* The probe begins when its process serves.
Fresh == /\ task = "off" /\ attempt = 0 /\ pause = 0
         /\ health = "none" /\ said = "none" /\ runs = <<>>
ProbeStartsOnce == place[Probed] \in Early \cup Starting => Fresh

\* The end of a run is counted, or ends the supervision.
LEMMA RunEndsCounted ==
  ASSUME SupInv, NEW lasted \in Lasting, NEW result \in Results, RunEnds(lasted, result)
  PROVE  SupInv'
<1> USE SupervisorAssumption DEF SupInv, SupTypeOK
<1> DEFINE n == Len(runs)
<1>1. /\ runs' = Append(runs, <<lasted, result>>) /\ runs' \in Seq(Lasting \X Results)
      /\ n \in Nat /\ Len(runs') = n + 1
      /\ \A i \in 1 .. n : runs'[i] = runs[i]
      /\ runs'[n + 1][1] = lasted /\ runs'[n + 1][2] = result
      /\ task = "running"
  BY DEF RunEnds
<1>2. AllFailed /\ ~GivenUp
  BY DEF RunEnds, OnlyLastEnds, GivenUpAtLimit
<1>3. SupTypeOK'
  BY <1>1 DEF RunEnds, Tasks, Counted, Since
<1>4. AllFailed' <=> result = "transient"
  BY <1>1, <1>2 DEF AllFailed
<1>5. OnlyLastEnds'
  BY <1>1, <1>2, <1>4 DEF OnlyLastEnds, AllFailed, RunEnds, Results
<1>6. CASE result = "transient"
  <2>1. /\ attempt' = Counted(lasted)
        /\ attempt' = IF lasted = "healthy" THEN 1 ELSE attempt + 1
    BY <1>6 DEF RunEnds, Counted, Since
  <2>2. CountIsOfRow'
    <3>1. CASE lasted = "healthy"
      BY <1>1, <2>1, <3>1 DEF CountIsOfRow
    <3>2. CASE lasted # "healthy"
      <4>1. attempt' = attempt + 1 /\ lasted = "short"
        BY <2>1, <3>2 DEF Lasting
      <4>2. /\ attempt \in Nat /\ attempt <= n /\ (n > 0 => attempt > 0)
            /\ \A j \in n - attempt + 2 .. n : runs[j][1] = "short"
            /\ attempt < n => runs[n - attempt + 1][1] = "healthy"
        BY <1>2 DEF CountIsOfRow
      <4> HIDE DEF n
      <4>3. ASSUME NEW j \in n - attempt + 2 .. n + 1 PROVE runs'[j][1] = "short"
        <5>1. CASE j = n + 1
          BY <1>1, <4>1, <5>1
        <5>2. CASE j # n + 1
          <6>1. j \in n - attempt + 2 .. n /\ j \in 1 .. n
            BY ONLY <1>1, <4>2, <5>2, j \in n - attempt + 2 .. n + 1
          <6> QED
            BY <1>1, <4>2, <6>1
        <5> QED
          BY <5>1, <5>2
      <4>4. attempt + 1 < n + 1 => runs'[n - attempt + 1][1] = "healthy"
        BY <1>1, <4>2
      <4>5. /\ n + 1 - (attempt + 1) + 2 = n - attempt + 2
            /\ n + 1 - (attempt + 1) + 1 = n - attempt + 1
        BY <1>1, <4>2
      <4> QED
        BY <1>1, <4>1, <4>2, <4>3, <4>4, <4>5 DEF CountIsOfRow
    <3> QED
      BY <3>1, <3>2
  <2>3. GivenUp' <=> attempt' >= MaxRestarts
    BY <1>1, <1>4, <1>6, <2>1 DEF GivenUp
  <2>4. health = said /\ pause = IF attempt < MaxPause THEN attempt ELSE MaxPause
    BY <1>1, <1>2 DEF GivenUpAtLimit
  <2>5. GivenUpAtLimit'
    <3>1. /\ pause' = (IF lasted = "healthy" THEN 0 ELSE pause) /\ said' = said
          /\ \/ attempt' >= MaxRestarts /\ task' = "ended" /\ health' = "failed"
             \/ attempt' < MaxRestarts /\ task' = "pausing" /\ health' = health
      BY <1>6 DEF RunEnds, Since
    <3> QED
      BY <2>1, <2>3, <2>4, <3>1 DEF GivenUpAtLimit
  <2> QED
    BY <1>3, <1>5, <2>2, <2>5
<1>7. CASE result # "transient"
  <2>1. CountIsOfRow' /\ (GivenUp' <=> result = "final")
    BY <1>1, <1>4, <1>7 DEF CountIsOfRow, GivenUp
  <2>2. GivenUpAtLimit'
    BY <1>1, <1>2, <1>7, <2>1 DEF GivenUpAtLimit, RunEnds, Results
  <2> QED
    BY <1>3, <1>5, <2>1, <2>2
<1> QED
  BY <1>6, <1>7

\* A step of the supervisor keeps the count right.
LEMMA SupStepKeeps ==
  ASSUME SupInv, SupStep
  PROVE  SupInv'
<1> USE SupervisorAssumption
        DEF SupInv, SupTypeOK, OnlyLastEnds, AllFailed, CountIsOfRow, GivenUpAtLimit, GivenUp,
            Tasks
<1>1. CASE RunProbe
  BY <1>1 DEF RunProbe
<1>2. CASE RunCancelled
  BY <1>2 DEF RunCancelled
<1>3. CASE PauseEnds
  BY <1>3 DEF PauseEnds
<1> QED
  BY <1>1, <1>2, <1>3, RunEndsCounted DEF SupStep

\* What is not a step of the supervisor starts it, cancels it or ends it.
LEMMA SupervisionKept ==
  ASSUME DaemonTypeOK, ProbeStartsOnce, SupInv, [Next]_vars
  PROVE  SupInv'
<1> USE SupervisorAssumption
<1>1. CASE UNCHANGED vars \/ CliStep
  <2>1. UNCHANGED supervision
    BY <1>1 DEF vars, CliStep, CliStop, Wait, CliStart, Poll, CliRest
  <2> QED
    BY <2>1 DEF supervision, SupInv, SupTypeOK, OnlyLastEnds, AllFailed, CountIsOfRow,
                GivenUpAtLimit, GivenUp, Tasks
<1>2. CASE ProbeStep
  BY <1>2, SupStepKeeps DEF ProbeStep
<1>3. ASSUME NEW p \in Procs, Spawn(p) \/ DaemonStep(p) \/ Kill(p)
      PROVE  SupInv'
  <2>1. \/ /\ UNCHANGED <<task, attempt, pause, health, said, runs>>
           /\ cancelled' \in {cancelled, TRUE}
        \/ /\ task' \in {"off", "top"} /\ attempt' = 0 /\ pause' = 0 /\ cancelled' \in BOOLEAN
           /\ health' = "none" /\ said' = "none" /\ runs' = <<>>
    <3>1. CASE Spawn(p) \/ CheckPid(p) \/ UnlinkPid(p) \/ LookAtSocket(p) \/ ClaimPid(p)
               \/ WritePid(p) \/ Recover(p) \/ CheckBind(p) \/ UnlinkSocket(p) \/ Finalize(p)
               \/ Unclaim(p)
      BY <3>1 DEF Spawn, CheckPid, UnlinkPid, LookAtSocket, ClaimPid, WritePid, Recover, CheckBind,
                  UnlinkSocket, Finalize, Unclaim, Rest, supervision
    <3>2. CASE Listen(p)
      BY <3>2 DEF Listen, Step, StartProbe, supervision, ProbeStartsOnce, Fresh, Starting,
                  SupInv, SupTypeOK
    <3>3. CASE StopProbes(p)
      BY <3>3 DEF StopProbes, CancelProbe, supervision
    <3>4. CASE Kill(p) \/ Unbind(p)
      BY <3>4 DEF Kill, Unbind, ForgetProbe, supervision
    <3> QED
      BY <1>3, <3>1, <3>2, <3>3, <3>4 DEF DaemonStep
  <2>2. CASE UNCHANGED <<task, attempt, pause, health, said, runs>>
    <3>1. /\ task' = task /\ attempt' = attempt /\ pause' = pause /\ health' = health
          /\ said' = said /\ runs' = runs /\ cancelled' \in BOOLEAN
      BY <2>1, <2>2 DEF SupInv, SupTypeOK
    <3>2. SupTypeOK' /\ OnlyLastEnds' /\ CountIsOfRow'
      BY <3>1 DEF SupInv, SupTypeOK, OnlyLastEnds, AllFailed, CountIsOfRow
    <3>3. GivenUpAtLimit'
      BY <3>1 DEF SupInv, GivenUpAtLimit, GivenUp, AllFailed
    <3> QED
      BY <3>2, <3>3 DEF SupInv
  <2>3. CASE ~UNCHANGED <<task, attempt, pause, health, said, runs>>
    <3>1. /\ attempt' = 0 /\ pause' = 0 /\ health' = "none" /\ said' = "none"
          /\ task' \in {"off", "top"} /\ cancelled' \in BOOLEAN /\ runs' = <<>>
      BY <2>1, <2>3
    <3>2. Len(runs') = 0 /\ runs' \in Seq(Lasting \X Results)
      BY <3>1
    <3>3. SupTypeOK'
      BY <3>2, <3>1 DEF SupTypeOK, Tasks
    <3>4. AllFailed' /\ ~GivenUp'
      BY <3>2 DEF AllFailed, GivenUp
    <3>5. OnlyLastEnds' /\ CountIsOfRow'
      BY <3>2, <3>1, <3>4 DEF OnlyLastEnds, CountIsOfRow
    <3>6. GivenUpAtLimit'
      BY <3>1, <3>4 DEF GivenUpAtLimit
    <3> QED
      BY <3>3, <3>5, <3>6 DEF SupInv
  <2> QED
    BY <2>1, <2>2, <2>3
<1> QED
  BY <1>1, <1>2, <1>3 DEF Next

\* No process comes to serve twice.
LEMMA ProbeStartsOnceKept ==
  ASSUME DaemonTypeOK, ProbeStartsOnce, [Next]_vars
  PROVE  ProbeStartsOnce'
<1> USE DaemonAssumption DEF ProbeStartsOnce, Fresh, DaemonTypeOK, supervision, ForgetProbe, Alive, Over, Places, Early, Starting, Stopping
<1>1. CASE UNCHANGED vars
  BY <1>1 DEF vars, files, cliVars, past
<1>2. CASE CliStep
  <2> USE DEF CliRest, files, past
  <2>1. CASE CliStop
    BY <2>1 DEF CliStop, Terminated, LivePid
  <2>2. CASE Wait
    BY <2>2 DEF Wait
  <2>3. CASE CliStart
    BY <2>3 DEF CliStart, Step, LivePid
  <2>4. CASE Poll
    BY <2>4 DEF Poll
  <2> QED
    BY <1>2, <2>1, <2>2, <2>3, <2>4 DEF CliStep
<1>3. CASE ProbeStep
  BY <1>3 DEF ProbeStep, files, cliVars, past, SupStep, RunProbe, RunCancelled, PauseEnds, RunEnds
<1>4. ASSUME NEW p \in Procs, Spawn(p) \/ DaemonStep(p) \/ Kill(p)
      PROVE  ProbeStartsOnce'
  <2> USE DEF Step, Rest, files, cliVars, past
  <2>1. CASE Spawn(p)
    BY <2>1 DEF Spawn
  <2>2. CASE CheckPid(p)
    BY <2>2 DEF CheckPid, LivePid
  <2>3. CASE UnlinkPid(p)
    BY <2>3 DEF UnlinkPid
  <2>4. CASE LookAtSocket(p)
    BY <2>4 DEF LookAtSocket, SocketServed
  <2>5. CASE ClaimPid(p)
    BY <2>5 DEF ClaimPid, Creates
  <2>6. CASE WritePid(p)
    BY <2>6 DEF WritePid
  <2>7. CASE Recover(p)
    BY <2>7 DEF Recover
  <2>8. CASE CheckBind(p)
    BY <2>8 DEF CheckBind, BindRefused, SocketServed
  <2>9. CASE UnlinkSocket(p)
    BY <2>9 DEF UnlinkSocket
  <2>10. CASE Listen(p)
    BY <2>10 DEF Listen, StartProbe
  <2>11. CASE StopProbes(p)
    BY <2>11 DEF StopProbes, CancelProbe
  <2>12. CASE Finalize(p)
    BY <2>12 DEF Finalize
  <2>13. CASE Unclaim(p)
    BY <2>13 DEF Unclaim, Others
  <2>14. CASE Unbind(p)
    BY <2>14 DEF Unbind
  <2>15. CASE Kill(p)
    BY <2>15 DEF Kill
  <2> QED
    BY <1>4, <2>1, <2>2, <2>3, <2>4, <2>5, <2>6, <2>7,
       <2>8, <2>9, <2>10, <2>11, <2>12, <2>13, <2>14, <2>15 DEF DaemonStep
<1> QED
  BY <1>1, <1>2, <1>3, <1>4 DEF Next

-----------------------------------------------------------------------------
(* The theorems.                                                           *)

StartedOnes == {p \in Procs : place[p] # "new"}

\* A step moves one process at most.
LEMMA OneMoves ==
  ASSUME DaemonTypeOK, [Next]_vars
  PROVE  \E p : \A q \in Procs : q # p => place'[q] = place[q]
<1> USE DEF DaemonTypeOK
<1>1. CASE UNCHANGED vars
  BY <1>1 DEF vars
<1>2. CASE CliStep
  BY <1>2 DEF CliStep, CliStop, Terminated, Wait, CliStart, Step, Poll
<1>3. CASE ProbeStep
  BY <1>3 DEF ProbeStep
<1>4. ASSUME NEW p \in Procs, Spawn(p) \/ DaemonStep(p) \/ Kill(p)
      PROVE  \A q \in Procs : q # p => place'[q] = place[q]
  BY <1>4 DEF Spawn, DaemonStep, CheckPid, UnlinkPid, LookAtSocket, ClaimPid, WritePid, Recover,
              CheckBind, UnlinkSocket, Listen, StopProbes, Finalize, Unclaim, Unbind, Kill, Step
<1> QED
  BY <1>1, <1>2, <1>3, <1>4 DEF Next

\* So finitely many processes were ever started.
LEMMA StartedStayFinite ==
  ASSUME DaemonTypeOK, IsFiniteSet(StartedOnes), [Next]_vars
  PROVE  IsFiniteSet(StartedOnes')
<1>1. PICK p : \A q \in Procs : q # p => place'[q] = place[q]
  BY OneMoves
<1>2. StartedOnes' \subseteq StartedOnes \cup {p}
  BY <1>1 DEF StartedOnes
<1>3. IsFiniteSet(StartedOnes \cup {p})
  BY FS_AddElement
<1> QED
  BY <1>2, <1>3, FS_Subset

\* A set of one element at most, counted and said without counting.
LEMMA AtMostOne ==
  ASSUME NEW S, IsFiniteSet(S), Cardinality(S) <= 1
  PROVE  \A x, y \in S : x = y
<1> SUFFICES ASSUME NEW x \in S, NEW y \in S, x # y PROVE FALSE
  OBVIOUS
<1>1. IsFiniteSet(S \ {x}) /\ Cardinality(S \ {x}) = Cardinality(S) - 1
  BY FS_RemoveElement
<1>2. IsFiniteSet((S \ {x}) \ {y}) /\ Cardinality((S \ {x}) \ {y}) = Cardinality(S) - 2
  <2>1. y \in S \ {x}
    OBVIOUS
  <2>2. Cardinality((S \ {x}) \ {y}) = Cardinality(S \ {x}) - 1
    BY <1>1, <2>1, FS_RemoveElement
  <2>3. IsFiniteSet((S \ {x}) \ {y})
    BY <1>1, <2>1, FS_RemoveElement
  <2>4. Cardinality(S) \in Nat
    BY FS_CardinalityType
  <2> QED
    BY <1>1, <2>2, <2>3, <2>4
<1>3. Cardinality((S \ {x}) \ {y}) \in Nat /\ Cardinality(S) \in Nat
  BY <1>2, FS_CardinalityType
<1> QED
  BY <1>2, <1>3

DaemonInv ==
    /\ DaemonTypeOK /\ ClaimInv /\ FilesInv /\ ToldInv
    /\ CalmInv /\ ServerAlone /\ RestartInv
    /\ ProbeStartsOnce /\ SupInv
    /\ IsFiniteSet(StartedOnes)

\* Before anything has started there is nothing to claim and nobody was told.
LEMMA DaemonInvInit == Init => DaemonInv
<1> SUFFICES ASSUME Init PROVE DaemonInv
  OBVIOUS
<1> USE DaemonAssumption, SupervisorAssumption DEF Init, SupInit
<1>1. DaemonTypeOK
  BY DEF DaemonTypeOK, Places, Early
<1>2. ClaimInv
  BY DEF ClaimInv, FileIsOfClaimant, SessionsOfClaimants, NotRobbed, Claimed, Alive, Over
<1>3. FilesInv
  BY DEF FilesInv, EarlyHasNone, SocketOfServer, GhostsAreGone, Alive, Over
<1>4. ToldInv
  BY DEF ToldInv, Stopping
<1>5. CalmInv /\ ServerAlone /\ RestartInv
  BY DEF CalmInv, ServerAlone, RestartInv
<1>6. ProbeStartsOnce
  BY DEF ProbeStartsOnce, Fresh
<1>7. SupInv
  <2>1. Len(runs) = 0 /\ runs \in Seq(Lasting \X Results)
    OBVIOUS
  <2>2. AllFailed /\ ~GivenUp
    BY <2>1 DEF AllFailed, GivenUp
  <2>3. SupTypeOK
    BY <2>1 DEF SupTypeOK, Tasks
  <2>5. OnlyLastEnds
    BY <2>1, <2>2 DEF OnlyLastEnds
  <2>4. CountIsOfRow /\ GivenUpAtLimit
    BY <2>1, <2>2 DEF CountIsOfRow, GivenUpAtLimit
  <2> QED
    BY <2>3, <2>4, <2>5 DEF SupInv
<1>8. StartedOnes = {}
  BY DEF StartedOnes
<1> QED
  BY <1>1, <1>2, <1>3, <1>4, <1>5, <1>6, <1>7, <1>8, FS_EmptySet DEF DaemonInv

\* Every step keeps the parts of the invariant, each by the lemma of its name.
LEMMA DaemonInvStep == DaemonInv /\ [Next]_vars => DaemonInv'
BY DaemonTyped, ClaimsKept, FilesKept, ToldKept, CalmKept, ServerAloneKept, RestartKept,
   ProbeStartsOnceKept, SupervisionKept, StartedStayFinite DEF DaemonInv

\* Of one home one process at a time holds the claim: the pid file names it.
LEMMA ClaimsExclude == DaemonInv => OneDaemonPerHome
BY DEF DaemonInv, ClaimInv, FileIsOfClaimant, NotRobbed, OneDaemonPerHome

\* When all are over and nobody was killed or told to stop, the one that has
\* not exited serves.
LEMMA StartsSucceed == DaemonInv => SomeStartSucceeds
BY DEF DaemonInv, DaemonTypeOK, CalmInv, Calm, SomeStartSucceeds, Serves

\* What restart says remains true.
LEMMA RestartSaysTrue == DaemonInv => RestartIsTrue
<1> SUFFICES ASSUME DaemonInv, told = "running", kills = 0,
                    Cardinality({p \in Procs \ {Cli} : place[p] # "new"}) <= 1
             PROVE  \E p \in Procs :
                       /\ Alive(p)
                       /\ place[p] \notin {"stopping", "finalize", "unclaim", "unbind"}
                       /\ Serves(p) => socket = p
  BY DEF RestartIsTrue
<1>1. Few
  <2> DEFINE S == {p \in Procs \ {Cli} : place[p] # "new"}
  <2>1. S \subseteq StartedOnes
    BY DEF StartedOnes
  <2>2. IsFiniteSet(S)
    BY <2>1, FS_Subset DEF DaemonInv
  <2>3. \A x, y \in S : x = y
    BY <2>2, AtMostOne
  <2> QED
    BY <2>3 DEF Few, Started
<1>2. \/ SocketServed
      \/ \E o \in Procs : WillServe(o)
      \/ \E o, r \in Procs : TakesOver(o, r)
  BY <1>1 DEF DaemonInv, RestartInv
<1>3. CASE SocketServed
  BY <1>3 DEF SocketServed, Serves, Alive, Over, Stopping
<1>4. CASE \E o \in Procs : WillServe(o)
  BY <1>4 DEF WillServe, Serves, Alive, Over, Stopping, Starting
<1>5. CASE \E o, r \in Procs : TakesOver(o, r)
  BY <1>5 DEF TakesOver, Serves, Alive, Over, Stopping
<1> QED
  BY <1>2, <1>3, <1>4, <1>5

\* For any processes and homes: one daemon per home, unless a start removes
\* the pid file of a live process; starts that refuse each other leave one
\* that serves; and what `restart` says is true (main.rs, recovery.rs,
\* server.rs, daemon.rs).
THEOREM StartsAreSoundAlways == Spec => []StartsAreSound
<1>1. DaemonInv => StartsAreSound
  BY ClaimsExclude, StartsSucceed, RestartSaysTrue DEF StartsAreSound
<1> QED
  BY <1>1, DaemonInvInit, DaemonInvStep, PTL DEF Spec

\* The runs of the row are the last ones, as many as were counted.
LEMMA RowIsCounted ==
  ASSUME SupInv, NEW streak,
         streak = {i \in 1 .. Len(runs) :
                     /\ \A j \in i .. Len(runs) : runs[j][2] = "transient"
                     /\ \A j \in i + 1 .. Len(runs) : runs[j][1] = "short"}
  PROVE  Cardinality(streak) = IF AllFailed THEN attempt ELSE 0
<1> DEFINE n == Len(runs)
<1>0. n \in Nat /\ attempt \in Nat /\ \A i \in 1 .. n : runs[i][1] \in Lasting
  BY DEF SupInv, SupTypeOK
<1>1. CASE AllFailed
  <2>1. /\ attempt <= n /\ (n > 0 => attempt > 0)
        /\ \A j \in n - attempt + 2 .. n : runs[j][1] = "short"
        /\ attempt < n => runs[n - attempt + 1][1] = "healthy"
    BY <1>1 DEF SupInv, CountIsOfRow
  <2>2. \A j \in 1 .. n : runs[j][2] = "transient"
    BY <1>1 DEF AllFailed
  <2> HIDE DEF n
  <2>3. streak = {i \in 1 .. n : /\ \A j \in i .. n : runs[j][2] = "transient"
                                 /\ \A j \in i + 1 .. n : runs[j][1] = "short"}
    BY DEF n
  <2>4. streak = n - attempt + 1 .. n
    <3>1. ASSUME NEW i \in n - attempt + 1 .. n PROVE i \in streak
      <4>1. i \in 1 .. n
        BY <1>0, <2>1
      <4>2. \A j \in i .. n : j \in 1 .. n
        BY <1>0, <4>1
      <4>3. \A j \in i + 1 .. n : j \in n - attempt + 2 .. n
        BY <1>0, <2>1
      <4> QED
        BY <2>1, <2>2, <2>3, <4>1, <4>2, <4>3
    <3>2. ASSUME NEW i \in streak PROVE i \in n - attempt + 1 .. n
      <4>1. i \in 1 .. n /\ \A j \in i + 1 .. n : runs[j][1] = "short"
        BY <2>3
      <4>2. ASSUME i <= n - attempt PROVE FALSE
        <5>1. n - attempt + 1 \in i + 1 .. n /\ attempt < n
          BY ONLY <1>0, <2>1, <4>1, <4>2
        <5> QED
          BY <2>1, <4>1, <5>1
      <4> QED
        BY <1>0, <2>1, <4>1, <4>2
    <3> QED
      BY <3>1, <3>2
  <2>5. Cardinality(n - attempt + 1 .. n) = attempt
    BY <1>0, <2>1, FS_Interval
  <2> QED
    BY <1>1, <2>4, <2>5
<1>2. CASE ~AllFailed
  <2>1. n > 0 /\ runs[n][2] # "transient"
    BY <1>0, <1>2 DEF SupInv, OnlyLastEnds, AllFailed
  <2>2. streak = {}
    BY <1>0, <2>1
  <2> QED
    BY <1>2, <2>2, FS_EmptySet
<1> QED
  BY <1>1, <1>2

\* For any limits and whatever probes say of themselves: a probe is given up
\* when it failed for good or as often in a row as it may, not before, and no
\* failure before a healthy run counts; the last event says that it failed
\* then, and else what it said of itself; the pauses double
\* (supervisor.rs:run_with_restart).
THEOREM GivenUpForCauseAlways == Spec => []GivenUpForCause
<1>1. DaemonInv => GivenUpForCause
  <2> SUFFICES ASSUME SupInv PROVE GivenUpForCause
    BY DEF DaemonInv
  <2> USE SupervisorAssumption
  <2> DEFINE streak == {i \in 1 .. Len(runs) :
                          /\ \A j \in i .. Len(runs) : runs[j][2] = "transient"
                          /\ \A j \in i + 1 .. Len(runs) : runs[j][1] = "short"}
             giveUp == Len(runs) > 0 /\ (\/ runs[Len(runs)][2] = "final"
                                        \/ Cardinality(streak) >= MaxRestarts)
  <2>1. Cardinality(streak) = IF AllFailed THEN attempt ELSE 0
    BY RowIsCounted
  <2> HIDE DEF streak
  <2>2. giveUp <=> GivenUp
    BY <2>1 DEF GivenUp
  <2>3. task = "pausing" => AllFailed /\ Len(runs) > 0
    BY DEF SupInv, SupTypeOK, OnlyLastEnds, CountIsOfRow, GivenUpAtLimit
  <2>4. /\ health = IF giveUp THEN "failed" ELSE said
        /\ giveUp => task = "ended"
        /\ task = "pausing" => /\ ~giveUp /\ Len(runs) > 0
                               /\ pause = IF Cardinality(streak) - 1 < MaxPause
                                          THEN Cardinality(streak) - 1 ELSE MaxPause
    BY <2>1, <2>2, <2>3 DEF SupInv, GivenUpAtLimit
  <2> QED
    BY <2>4 DEF GivenUpForCause, streak
<1> QED
  BY <1>1, DaemonInvInit, DaemonInvStep, PTL DEF Spec

-----------------------------------------------------------------------------
(* The recorder, the gate and the panic hook.                              *)

Arrivals == [event : Nat, now : Nat]
Appends == [at : {"out", "idle", "push", "send"}, event : Nat, now : Nat]

FeedTypeOK ==
    /\ clock \in Nat /\ life \in {"up", "down"}
    /\ kind \in Seq(Keys \cup {NoKey})
    /\ publisher \in [Threads -> Appends]
    /\ recorder \in Seq(Arrivals) /\ pushed \in Seq(Arrivals)
    /\ feed \in Seq(Nat)
    /\ watcher \in [at : {"recv", "snapshot", "report"}, pos : Nat, event : Nat]
    /\ lastAdmitted \in [Keys -> Nat \cup {Never}]

\* What is pushed, sent or waited for has happened; what is sent was pushed.
Happened(e) == e \in DOMAIN kind
WasPushed(e) == \E i \in DOMAIN pushed : pushed[i].event = e
PushedFirst ==
    /\ \A t \in Threads :
         /\ publisher[t].at \in {"push", "send"} => Happened(publisher[t].event)
         /\ publisher[t].at = "send" => WasPushed(publisher[t].event)
    /\ \A i \in DOMAIN feed : Happened(feed[i]) /\ WasPushed(feed[i])
    /\ watcher.at = "snapshot" => WasPushed(watcher.event)

\* The recorder is the end of what was pushed, and what it has let go is out
\* of its reach.
LetGo(m) ==
    /\ recorder = SubSeq(pushed, m + 1, Len(pushed))
    /\ \A i \in 1 .. m : OutOfReach(i, Len(pushed))
RecorderInv == \E m \in 0 .. Len(pushed) : LetGo(m)

\* The last admission of a reason is the latest of those the gate decided.
AdmittedOf(k) == {d \in decisions : d.fires /\ d.key = k}
GateInv ==
    /\ \A d \in decisions : /\ d.event \in Nat /\ d.event < watcher.pos
                            /\ d.at \in Nat /\ d.at <= clock
                            /\ d.key \in Keys
    /\ \A k \in Keys :
         IF lastAdmitted[k] = Never THEN AdmittedOf(k) = {}
         ELSE /\ \E a \in AdmittedOf(k) : a.at = lastAdmitted[k]
              /\ \A a \in AdmittedOf(k) : a.at <= lastAdmitted[k]

-----------------------------------------------------------------------------
\* A moment of the run of an append.
LEMMA ArriveTyped ==
    ASSUME FeedTypeOK, NEW t \in Threads, NEW k \in Keys \cup {NoKey}, Arrive(t, k)
    PROVE  /\ kind' \in Seq(Keys \cup {NoKey})
           /\ publisher' \in [Threads -> Appends]
<1>1. kind' = Append(kind, k) /\ Len(kind) + 1 \in Nat
  BY DEF Arrive, FeedTypeOK
<1>2. [at |-> "push", event |-> Len(kind) + 1, now |-> clock] \in Appends
  BY <1>1 DEF FeedTypeOK, Appends
<1>3. publisher' = [publisher EXCEPT ![t] =
                      [at |-> "push", event |-> Len(kind) + 1, now |-> clock]]
  BY DEF Arrive
<1> QED
  BY <1>1, <1>2, <1>3 DEF FeedTypeOK

\* A set of naturals has a first.
LEMMA FirstOf ==
    ASSUME NEW S \in SUBSET Nat, S # {}
    PROVE  \E q \in S : \A r \in S : q <= r
<1>1. PICK q \in S : \A r \in S : <<r, q>> \notin OpToRel(<, Nat)
  BY WFMin, NatLessThanWellFounded, Zenon
<1>2. \A r \in S : ~(r < q)
  BY <1>1, Zenon DEF OpToRel
<1> QED
  BY <1>2

\* What the recorder keeps is the end of what it was given, with the newest;
\* what it lets go is too much, or too old by the newest.
LEMMA EvictedIsSuffix ==
    ASSUME NEW q \in Seq(Arrivals), Len(q) > 0, NEW now \in Nat,
           q[Len(q)].now = now
    PROVE  \E c \in 1 .. Len(q) :
              /\ Evicted(q, now) = SubSeq(q, c, Len(q))
              /\ \A i \in 1 .. c - 1 : \/ Len(q) - i >= MaxRecorded
                                       \/ now - q[i].now > Window
<1> DEFINE n == Len(q)
           over == IF n > MaxRecorded THEN n - MaxRecorded ELSE 0
           kept == {i \in DOMAIN q : i > over /\ now - q[i].now <= Window}
           c == CHOOSE i \in kept : \A j \in kept : i <= j
<1>1. n \in Nat \ {0} /\ MaxRecorded \in Nat \ {0} /\ Window \in Nat
      /\ DOMAIN q = 1 .. n /\ over \in Nat /\ over < n
  BY PostMortemAssumption
<1>2. \A i \in 1 .. n : q[i].now \in Nat
  <2>1. \A i \in 1 .. n : q[i] \in Arrivals
    BY <1>1
  <2> QED
    BY <2>1 DEF Arrivals
<1>3. n \in kept
  BY <1>1
<1>4. \A i \in 1 .. n : i \in kept <=> i > over /\ now - q[i].now <= Window
  BY <1>1
<1>5. kept \subseteq 1 .. n
  BY <1>1
<1>6. Evicted(q, now) = SubSeq(q, c, n)
  BY DEF Evicted
<1>7. (n > MaxRecorded /\ over = n - MaxRecorded) \/ over = 0
  OBVIOUS
<1> HIDE DEF n, kept, over
<1>8. c \in kept /\ \A j \in kept : c <= j
  <2>1. kept \in SUBSET Nat /\ kept # {}
    BY <1>3, <1>5
  <2>2. \E i \in kept : \A j \in kept : i <= j
    BY <2>1, FirstOf
  <2> QED
    BY <2>2
<1> HIDE DEF c
<1>9. c \in 1 .. n
  BY <1>5, <1>8
<1>10. ASSUME NEW i \in 1 .. c - 1
       PROVE  n - i >= MaxRecorded \/ now - q[i].now > Window
  <2>1. i \in 1 .. n /\ i < c
    BY <1>1, <1>9
  <2>2. i \notin kept
    <3> SUFFICES ASSUME i \in kept PROVE FALSE
      OBVIOUS
    <3>1. c <= i
      BY <1>8
    <3> QED
      BY <1>1, <1>9, <2>1, <3>1
  <2>3. CASE ~(i > over)
    <3>1. over # 0
      BY <2>1, <2>3
    <3> QED
      BY <1>1, <1>7, <2>1, <2>3, <3>1
  <2>4. CASE ~(now - q[i].now <= Window)
    BY <1>1, <1>2, <2>1, <2>4
  <2> QED
    BY <1>4, <2>1, <2>2, <2>3, <2>4
<1> QED
  BY <1>6, <1>9, <1>10 DEF n

\* Every step keeps the types.
LEMMA FeedTyped ==
    ASSUME FeedTypeOK, PushedFirst, [PMNext]_pmVars
    PROVE  FeedTypeOK'
<1> USE DEF FeedTypeOK
<1>0. Quiet \in Appends /\ Idle \in Appends
  BY DEF Quiet, Idle, Appends
<1>a. Watcher \in Threads /\ Publishers \subseteq Threads
  BY DEF Threads
<1>b. \A t \in Threads : publisher[t] \in Appends
  OBVIOUS
<1>1. CASE Tick
  BY <1>1 DEF Tick, feedVars, watchVars, history
<1>2. CASE Restart
  <2>1. /\ life' = "up" /\ kind' = <<>> /\ recorder' = <<>> /\ feed' = <<>>
        /\ watcher' = Listening /\ lastAdmitted' = [k \in Keys |-> Never]
        /\ pushed' = <<>> /\ clock' = clock
        /\ publisher' = [t \in Threads |-> IF publisher[t] = Idle THEN Idle ELSE Quiet]
    BY <1>2 DEF Restart
  <2>2. publisher' \in [Threads -> Appends]
    BY <1>0, <2>1
  <2> QED
    BY <2>1, <2>2 DEF Listening
<1>3. ASSUME NEW t \in Publishers, Publish(t) PROVE FeedTypeOK'
  <2>1. PICK k \in Keys \cup {NoKey} : Arrive(t, k)
    BY <1>3 DEF Publish
  <2>2. /\ kind' \in Seq(Keys \cup {NoKey}) /\ publisher' \in [Threads -> Appends]
    BY <1>a, <2>1, ArriveTyped
  <2> QED
    BY <1>3, <2>2 DEF Publish, watchVars, history
<1>4. ASSUME NEW t \in Threads, Push(t) PROVE FeedTypeOK'
  <2> DEFINE a == [event |-> publisher[t].event, now |-> publisher[t].now]
             q == Append(recorder, a)
  <2>1. /\ recorder' = Evicted(q, a.now) /\ pushed' = Append(pushed, a)
        /\ publisher' = [publisher EXCEPT ![t].at = "send"]
        /\ UNCHANGED <<clock, life, kind, feed, watcher, lastAdmitted>>
    BY <1>4 DEF Push, Goto, watchVars
  <2>2. a \in Arrivals /\ a.now \in Nat
    BY <1>b DEF Appends, Arrivals
  <2>3. publisher' \in [Threads -> Appends]
    BY <1>b, <2>1 DEF Appends
  <2> DEFINE now == a.now
  <2>4. q \in Seq(Arrivals) /\ Len(q) > 0 /\ q[Len(q)] = a
    <3> HIDE DEF a
    <3> QED
      BY <2>2
  <2> HIDE DEF a, q
  <2>5. PICK c \in 1 .. Len(q) : Evicted(q, now) = SubSeq(q, c, Len(q))
    <3>1. q[Len(q)].now = now /\ now \in Nat
      BY <2>2, <2>4
    <3> HIDE DEF now
    <3> QED
      BY <2>4, <3>1, EvictedIsSuffix
  <2>6. recorder' \in Seq(Arrivals)
    BY <2>1, <2>4, <2>5, SubSeqProperties
  <2> QED
    BY <2>1, <2>2, <2>3, <2>6
<1>5. ASSUME NEW t \in Threads, Send(t) PROVE FeedTypeOK'
  <2>1. /\ feed' = Append(feed, publisher[t].event)
        /\ publisher' = [publisher EXCEPT ![t] = Quiet]
        /\ UNCHANGED <<clock, life, kind, recorder, watcher, lastAdmitted, pushed>>
    BY <1>5 DEF Send, watchVars, history
  <2>2. publisher[t].event \in Nat
    BY <1>b DEF Appends
  <2> QED
    BY <1>0, <2>1, <2>2
<1>6. ASSUME NEW t \in Threads, Panic(t) PROVE FeedTypeOK'
  BY <1>6 DEF Panic, watchVars, history, Abort
<1>7. CASE SaveBlackBox \/ FlushAndAbort
  BY <1>7 DEF SaveBlackBox, FlushAndAbort, feedVars, watchVars, history, Abort
<1>8. CASE WatcherLags
  <2>1. Oldest \in Nat
    <3>1. Len(feed) - watcher.pos > Capacity /\ Capacity \in Nat /\ watcher.pos \in Nat
      BY <1>8, PostMortemAssumption DEF WatcherLags, Lagged
    <3>2. Len(feed) \in Nat
      OBVIOUS
    <3> QED
      BY <3>1, <3>2 DEF Oldest
  <2> QED
    BY <1>8, <2>1 DEF WatcherLags, feedVars, history
<1>9. CASE WatcherRecv
  <2> DEFINE event == feed[watcher.pos + 1]
             key == kind[event]
  <2>1. watcher.pos \in Nat /\ watcher.pos < Len(feed)
    BY <1>9 DEF WatcherRecv
  <2>2. watcher.pos + 1 \in DOMAIN feed /\ event \in Nat
    BY <2>1
  <2>3. key \in Keys \cup {NoKey}
    BY <2>2 DEF PushedFirst, Happened
  <2> HIDE DEF event, key
  <2>4. \E fires \in BOOLEAN :
          watcher' = [at |-> IF fires THEN "snapshot" ELSE "recv",
                      pos |-> watcher.pos + 1,
                      event |-> IF fires THEN event ELSE 0]
    BY <1>9 DEF WatcherRecv, event
  <2>5. lastAdmitted' = IF key = NoKey THEN lastAdmitted ELSE Recorded(key, clock)
    BY <1>9 DEF WatcherRecv, event, key
  <2>6. watcher' \in [at : {"recv", "snapshot", "report"}, pos : Nat, event : Nat]
    BY <2>1, <2>2, <2>4
  <2>7. lastAdmitted' \in [Keys -> Nat \cup {Never}]
    BY <2>3, <2>5 DEF Recorded
  <2>8. UNCHANGED <<clock, life, kind, publisher, recorder, feed, pushed>>
    BY <1>9 DEF WatcherRecv, feedVars
  <2> QED
    BY <2>6, <2>7, <2>8
<1>10. CASE FlushPostMortem
  <2>1. \/ watcher' = [watcher EXCEPT !.at = "report", !.event = 0]
        \/ watcher' = [watcher EXCEPT !.at = "recv", !.event = 0]
    BY <1>10 DEF FlushPostMortem
  <2>2. watcher' \in [at : {"recv", "snapshot", "report"}, pos : Nat, event : Nat]
    <3>1. watcher' = [at |-> watcher'.at, pos |-> watcher.pos, event |-> 0]
          /\ watcher'.at \in {"report", "recv"} /\ watcher.pos \in Nat
      BY <2>1
    <3> QED
      BY <3>1
  <2>3. UNCHANGED <<clock, life, kind, publisher, recorder, feed, lastAdmitted, pushed>>
    BY <1>10 DEF FlushPostMortem, feedVars
  <2> QED
    BY <2>2, <2>3
<1>11. CASE ReportFlush
  <2>1. kind' \in Seq(Keys \cup {NoKey}) /\ publisher' \in [Threads -> Appends]
    <3>1. CASE Arrive(Watcher, NoKey)
      BY <1>a, <3>1, ArriveTyped
    <3>2. CASE UNCHANGED <<kind, publisher>>
      BY <3>2
    <3> QED
      BY <1>11, <3>1, <3>2 DEF ReportFlush
  <2> QED
    BY <1>11, <2>1 DEF ReportFlush, history
<1>12. CASE UNCHANGED pmVars
  BY <1>12 DEF pmVars, feedVars, watchVars, history
<1> QED
  BY <1>1, <1>2, <1>3, <1>4, <1>5, <1>6, <1>7, <1>8, <1>9, <1>10, <1>11, <1>12
     DEF PMNext, WatcherStep, HookStep, Appending

\* What is pushed stays pushed, and stays out of reach.
LEMMA PushedGrows ==
    ASSUME FeedTypeOK, NEW a \in Arrivals, pushed' = Append(pushed, a)
    PROVE  /\ Len(pushed') = Len(pushed) + 1 /\ pushed'[Len(pushed) + 1] = a
           /\ \A i \in 1 .. Len(pushed) : pushed'[i] = pushed[i]
           /\ \A e : WasPushed(e) => WasPushed(e)'
           /\ WasPushed(a.event)'
           /\ \A n \in 0 .. Len(pushed), i \in 1 .. Len(pushed) :
                OutOfReach(i, n)' <=> OutOfReach(i, n)
           /\ \A n \in 0 .. Len(pushed) :
                SubSeq(pushed', 1, n) = SubSeq(pushed, 1, n)
<1>1. pushed \in Seq(Arrivals) /\ Len(pushed) \in Nat
  BY DEF FeedTypeOK
<1>2. /\ Len(pushed') = Len(pushed) + 1 /\ pushed'[Len(pushed) + 1] = a
      /\ \A i \in 1 .. Len(pushed) : pushed'[i] = pushed[i]
      /\ pushed' \in Seq(Arrivals)
      /\ DOMAIN pushed = 1 .. Len(pushed)
      /\ DOMAIN (pushed') = 1 .. Len(pushed) + 1
  BY <1>1
<1>3. \A e : WasPushed(e) => WasPushed(e)'
  BY <1>1, <1>2 DEF WasPushed
<1>4. WasPushed(a.event)'
  BY <1>1, <1>2 DEF WasPushed
<1>5. ASSUME NEW n \in 0 .. Len(pushed), NEW i \in 1 .. Len(pushed)
      PROVE  OutOfReach(i, n)' <=> OutOfReach(i, n)
  <2>1. \A j \in i + 1 .. n : j \in 1 .. Len(pushed)
    BY <1>1
  <2>2. pushed'[i] = pushed[i] /\ \A j \in i + 1 .. n : pushed'[j] = pushed[j]
    BY <1>2, <2>1
  <2> QED
    BY <2>2 DEF OutOfReach
<1>6. ASSUME NEW n \in 0 .. Len(pushed)
      PROVE  SubSeq(pushed', 1, n) = SubSeq(pushed, 1, n)
  BY <1>1, <1>2
<1> QED
  BY <1>2, <1>3, <1>4, <1>5, <1>6

\* What is sent, read and saved was pushed before.
LEMMA PushedFirstStep ==
    ASSUME FeedTypeOK, FeedTypeOK', PushedFirst, [PMNext]_pmVars
    PROVE  PushedFirst'
<1> DEFINE Right(p) == /\ p.at \in {"push", "send"} => Happened(p.event)
                       /\ p.at = "send" => WasPushed(p.event)
           KindGrows == \A e : Happened(e) => Happened(e)'
           PushGrows == \A e : WasPushed(e) => WasPushed(e)'
<1>0. kind \in Seq(Keys \cup {NoKey}) /\ Len(kind) \in Nat
      /\ publisher \in [Threads -> Appends] /\ feed \in Seq(Nat)
      /\ Watcher \in Threads /\ Publishers \subseteq Threads
  BY DEF FeedTypeOK, Threads
<1>1. /\ \A t \in Threads : Right(publisher[t])
      /\ \A i \in DOMAIN feed : Happened(feed[i]) /\ WasPushed(feed[i])
      /\ watcher.at = "snapshot" => WasPushed(watcher.event)
  BY DEF PushedFirst
<1>2. kind' = kind => KindGrows
  BY DEF Happened
<1>3. pushed' = pushed => PushGrows
  BY DEF WasPushed
<1>4. ASSUME NEW t \in Threads, NEW k \in Keys \cup {NoKey}, Arrive(t, k),
             UNCHANGED <<feed, pushed>>,
             watcher' = watcher \/ watcher'.at = "recv"
      PROVE  PushedFirst'
  <2>1. /\ kind' = Append(kind, k)
        /\ publisher' = [publisher EXCEPT ![t] =
                           [at |-> "push", event |-> Len(kind) + 1, now |-> clock]]
    BY <1>4 DEF Arrive
  <2>2. KindGrows /\ Len(kind) + 1 \in DOMAIN (kind')
    BY <1>0, <2>1 DEF Happened
  <2>3. PushGrows
    BY <1>3, <1>4
  <2>4. ASSUME NEW u \in Threads
        PROVE  Right(publisher[u])'
    <3>1. CASE u = t
      <4>1. publisher'[u].at = "push" /\ publisher'[u].event = Len(kind) + 1
        BY <1>0, <2>1, <3>1
      <4> QED
        BY <2>2, <4>1 DEF Happened
    <3>2. CASE u # t
      <4>1. publisher'[u] = publisher[u]
        BY <1>0, <2>1, <3>2
      <4> QED
        BY <1>1, <2>2, <2>3, <4>1
    <3> QED
      BY <3>1, <3>2
  <2> QED
    BY <1>1, <1>4, <2>2, <2>3, <2>4 DEF PushedFirst
<1>5. ASSUME UNCHANGED <<kind, publisher, feed, pushed>>,
             watcher'.at = "snapshot" => \/ watcher' = watcher
                                         \/ \E i \in DOMAIN feed : watcher'.event = feed[i]
      PROVE  PushedFirst'
  <2>1. KindGrows /\ PushGrows
    BY <1>2, <1>3, <1>5
  <2> QED
    BY <1>1, <1>5, <2>1 DEF PushedFirst
<1>6. CASE Tick \/ UNCHANGED pmVars
  BY <1>5, <1>6 DEF Tick, pmVars, feedVars, watchVars, history
<1>7. CASE Restart
  <2>1. /\ feed' = <<>> /\ watcher'.at = "recv"
        /\ publisher' = [t \in Threads |-> IF publisher[t] = Idle THEN Idle ELSE Quiet]
    BY <1>7 DEF Restart, Listening
  <2>2. \A t \in Threads : publisher'[t].at \in {"out", "idle"}
    BY <2>1 DEF Quiet, Idle
  <2> QED
    BY <2>1, <2>2 DEF PushedFirst
<1>8. ASSUME NEW t \in Publishers, Publish(t) PROVE PushedFirst'
  <2>1. PICK k \in Keys \cup {NoKey} : Arrive(t, k)
    BY <1>8 DEF Publish
  <2>2. UNCHANGED <<feed, pushed>> /\ watcher' = watcher
    BY <1>8 DEF Publish, watchVars, history
  <2> QED
    BY <1>0, <1>4, <2>1, <2>2
<1>9. ASSUME NEW t \in Threads, Push(t) PROVE PushedFirst'
  <2> DEFINE a == [event |-> publisher[t].event, now |-> publisher[t].now]
  <2>1. /\ pushed' = Append(pushed, a)
        /\ publisher' = [publisher EXCEPT ![t].at = "send"]
        /\ publisher[t].at = "push"
        /\ UNCHANGED <<kind, feed, watcher>>
    BY <1>9 DEF Push, Goto, watchVars
  <2>2. a \in Arrivals
    <3>1. publisher[t] \in Appends
      BY <1>0
    <3> QED
      BY <3>1 DEF Appends, Arrivals
  <2>3. a.event = publisher[t].event
    OBVIOUS
  <2> HIDE DEF a
  <2>4. KindGrows /\ PushGrows /\ WasPushed(publisher[t].event)'
    BY <1>2, <2>1, <2>2, <2>3, PushedGrows
  <2>5. ASSUME NEW u \in Threads
        PROVE  Right(publisher[u])'
    <3>1. CASE u = t
      <4>1. publisher'[t].event = publisher[t].event /\ publisher'[t].at = "send"
        BY <1>0, <2>1
      <4>2. Happened(publisher[t].event)
        BY <1>1, <2>1
      <4> QED
        BY <2>4, <3>1, <4>1, <4>2
    <3>2. CASE u # t
      <4>1. publisher'[u] = publisher[u]
        BY <1>0, <2>1, <3>2
      <4> QED
        BY <1>1, <2>4, <4>1
    <3> QED
      BY <3>1, <3>2
  <2> QED
    BY <1>1, <2>1, <2>4, <2>5 DEF PushedFirst
<1>10. ASSUME NEW t \in Threads, Send(t) PROVE PushedFirst'
  <2> DEFINE e == publisher[t].event
  <2>1. /\ feed' = Append(feed, e) /\ publisher' = [publisher EXCEPT ![t] = Quiet]
        /\ publisher[t].at = "send"
        /\ UNCHANGED <<kind, pushed, watcher>>
    BY <1>10 DEF Send, watchVars, history
  <2>2. KindGrows /\ PushGrows
    BY <1>2, <1>3, <2>1
  <2>3. Happened(e) /\ WasPushed(e) /\ e \in Nat
    <3>1. publisher[t] \in Appends
      BY <1>0
    <3> QED
      BY <1>1, <2>1, <3>1 DEF Appends
  <2> HIDE DEF e
  <2>4. \A i \in DOMAIN (feed') : feed'[i] = e \/ (i \in DOMAIN feed /\ feed'[i] = feed[i])
    BY <1>0, <2>1, <2>3
  <2>5. ASSUME NEW u \in Threads
        PROVE  Right(publisher[u])'
    <3>1. CASE u = t
      <4>1. publisher'[t].at = "out"
        BY <1>0, <2>1 DEF Quiet
      <4> QED
        BY <3>1, <4>1
    <3>2. CASE u # t
      <4>1. publisher'[u] = publisher[u]
        BY <1>0, <2>1, <3>2
      <4> QED
        BY <1>1, <2>2, <4>1
    <3> QED
      BY <3>1, <3>2
  <2> QED
    BY <1>1, <2>1, <2>2, <2>3, <2>4, <2>5 DEF PushedFirst
<1>11. CASE \E t \in Threads : Panic(t)
  BY <1>5, <1>11 DEF Panic, watchVars, history
<1>12. CASE SaveBlackBox \/ FlushAndAbort
  BY <1>5, <1>12 DEF SaveBlackBox, FlushAndAbort, feedVars, watchVars, history
<1>13. CASE WatcherLags
  <2>1. watcher' = [watcher EXCEPT !.pos = Oldest] /\ watcher.at = "recv"
        /\ UNCHANGED <<kind, publisher, feed, pushed>>
    BY <1>13 DEF WatcherLags, WatcherAt, feedVars, history
  <2>2. watcher'.at = "recv"
    BY <2>1 DEF FeedTypeOK
  <2> QED
    BY <1>5, <2>1, <2>2
<1>14. CASE WatcherRecv
  <2> DEFINE e == feed[watcher.pos + 1]
  <2>1. watcher.pos + 1 \in DOMAIN feed
    BY <1>0, <1>14 DEF WatcherRecv, FeedTypeOK
  <2>2. UNCHANGED <<kind, publisher, feed, pushed>>
        /\ (watcher'.at = "snapshot" => watcher'.event = e)
    BY <1>14 DEF WatcherRecv, feedVars
  <2> QED
    BY <1>5, <2>1, <2>2
<1>15. CASE FlushPostMortem
  <2>1. UNCHANGED <<kind, publisher, feed, pushed>>
        /\ \/ watcher' = [watcher EXCEPT !.at = "report", !.event = 0]
           \/ watcher' = [watcher EXCEPT !.at = "recv", !.event = 0]
    BY <1>15 DEF FlushPostMortem, feedVars
  <2>2. watcher'.at # "snapshot"
    BY <2>1 DEF FeedTypeOK
  <2> QED
    BY <1>5, <2>1, <2>2
<1>16. CASE ReportFlush
  <2>1. UNCHANGED <<feed, pushed>> /\ watcher' = [watcher EXCEPT !.at = "recv"]
    BY <1>16 DEF ReportFlush, history
  <2>2. watcher'.at = "recv"
    BY <2>1 DEF FeedTypeOK
  <2>3. Arrive(Watcher, NoKey) \/ UNCHANGED <<kind, publisher>>
    BY <1>16 DEF ReportFlush
  <2> QED
    BY <1>0, <1>4, <1>5, <2>1, <2>2, <2>3
<1> QED
  BY <1>6, <1>7, <1>8, <1>9, <1>10, <1>11, <1>12, <1>13, <1>14, <1>15, <1>16
     DEF PMNext, WatcherStep, HookStep, Appending

\* The recorder by its places in what was pushed.
LEMMA RecorderAt ==
    ASSUME FeedTypeOK, NEW m \in 0 .. Len(pushed), LetGo(m)
    PROVE  /\ Len(recorder) = Len(pushed) - m
           /\ \A i \in 1 .. Len(pushed) - m : recorder[i] = pushed[m + i]
<1> DEFINE n == Len(pushed)
<1>1. n \in Nat /\ recorder = SubSeq(pushed, m + 1, n)
      /\ \A i \in m + 1 .. n : pushed[i] \in Arrivals
  BY DEF FeedTypeOK, LetGo
<1> HIDE DEF n
<1>2. m + 1 \in Int /\ n \in Int
  BY <1>1 DEF n
<1>3. /\ Len(recorder) = IF m + 1 <= n THEN n - (m + 1) + 1 ELSE 0
      /\ \A i \in 1 .. n - (m + 1) + 1 : recorder[i] = pushed[(m + 1) + i - 1]
  BY <1>1, <1>2, SubSeqProperties
<1>4. /\ n - (m + 1) + 1 = n - m /\ (~(m + 1 <= n) => n - m = 0)
      /\ \A i \in 1 .. n - m : (m + 1) + i - 1 = m + i
  BY <1>1 DEF n
<1> QED
  BY <1>3, <1>4 DEF n

\* What the recorder holds after a push.
LEMMA RecorderPushed ==
    ASSUME FeedTypeOK, RecorderInv, NEW t \in Threads, Push(t)
    PROVE  RecorderInv'
<1> DEFINE a == [event |-> publisher[t].event, now |-> publisher[t].now]
           q == Append(recorder, a)
<1>0. PICK n \in Nat : n = Len(pushed)
  BY DEF FeedTypeOK
<1>1. /\ recorder' = Evicted(q, a.now) /\ pushed' = Append(pushed, a)
  BY DEF Push
<1>2. a \in Arrivals /\ a.now \in Nat
  <2>1. publisher[t] \in Appends
    BY DEF FeedTypeOK
  <2> QED
    BY <2>1 DEF Appends, Arrivals
<1>3. recorder \in Seq(Arrivals) /\ pushed \in Seq(Arrivals)
      /\ n \in Nat /\ n = Len(pushed)
  BY <1>0 DEF FeedTypeOK
<1> DEFINE now == a.now
<1>4. recorder' = Evicted(q, now)
  BY <1>1
<1>5. q \in Seq(Arrivals) /\ Len(q) = Len(recorder) + 1 /\ q[Len(q)].now = now
  <2> HIDE DEF a
  <2> QED
    BY <1>2, <1>3
<1> HIDE DEF a, q
<1>6. PICK c \in 1 .. Len(q) :
        /\ Evicted(q, now) = SubSeq(q, c, Len(q))
        /\ \A i \in 1 .. c - 1 : \/ Len(q) - i >= MaxRecorded
                                 \/ now - q[i].now > Window
  <2>1. Len(q) > 0 /\ now \in Nat
    BY <1>2, <1>3, <1>5
  <2> HIDE DEF now
  <2> QED
    BY <1>5, <2>1, EvictedIsSuffix
<1>7. PICK m \in 0 .. n : LetGo(m)
  BY <1>3 DEF RecorderInv
<1>8. /\ Len(pushed') = n + 1 /\ pushed'[n + 1] = a
      /\ \A i \in 1 .. n : pushed'[i] = pushed[i]
      /\ pushed' \in Seq(Arrivals)
  BY <1>1, <1>2, <1>3
<1>9. /\ Len(recorder) = n - m
      /\ \A i \in 1 .. n - m : recorder[i] = pushed[m + i]
  BY <1>3, <1>7, RecorderAt
<1>10. \A i \in 1 .. n - m + 1 : q[i] = pushed'[m + i]
  <2> TAKE i \in 1 .. n - m + 1
  <2>1. CASE i = n - m + 1
    <3>1. q[i] = a
      <4>1. i = Len(recorder) + 1
        BY <1>9, <2>1
      <4> QED
        BY <1>2, <1>3, <4>1 DEF q
    <3>2. m + i = n + 1
      BY <1>3, <2>1
    <3> QED
      BY <1>8, <3>1, <3>2
  <2>2. CASE i # n - m + 1
    <3>1. i \in 1 .. n - m /\ m + i \in 1 .. n
      BY <1>3, <2>2
    <3>2. q[i] = recorder[i]
      BY <1>2, <1>3, <1>9, <3>1 DEF q
    <3> QED
      BY <1>8, <1>9, <3>1, <3>2
  <2> QED
    BY <2>1, <2>2
<1>11. Len(q) = n - m + 1
  BY <1>5, <1>9
<1> DEFINE k == m + c - 1
<1>12. k \in 0 .. n + 1
  BY <1>3, <1>11
<1>13. recorder' = SubSeq(pushed', k + 1, Len(pushed'))
  <2>1. SubSeq(q, c, Len(q)) = SubSeq(pushed', k + 1, n + 1)
    <3>1. \A i \in 1 .. n + 1 - k : c + i - 1 \in 1 .. Len(q)
      BY <1>3, <1>11
    <3>2. \A i \in 1 .. n + 1 - k : q[c + i - 1] = pushed'[(k + 1) + i - 1]
      <4> TAKE i \in 1 .. n + 1 - k
      <4>1. q[c + i - 1] = pushed'[m + (c + i - 1)]
        BY <1>10, <1>11, <3>1
      <4>2. m + (c + i - 1) = (k + 1) + i - 1
        BY <1>3
      <4> QED
        BY <4>1, <4>2
    <3>3. SubSeq(q, c, Len(q)) = [i \in 1 .. n + 1 - k |-> q[c + i - 1]]
      <4>1. Len(q) - c + 1 = n + 1 - k
        BY <1>3, <1>11
      <4> HIDE DEF k
      <4> QED
        BY <1>5, <4>1
    <3>4. SubSeq(pushed', k + 1, n + 1)
            = [i \in 1 .. n + 1 - k |-> pushed'[(k + 1) + i - 1]]
      <4>1. (n + 1) - (k + 1) + 1 = n + 1 - k
        BY <1>3, <1>12
      <4> HIDE DEF k
      <4> QED
        BY <1>3, <1>8, <1>12, <4>1
    <3> HIDE DEF k
    <3> QED
      BY <3>2, <3>3, <3>4
  <2> QED
    BY <1>4, <1>6, <1>8, <2>1
<1>14. ASSUME NEW i \in 1 .. k
       PROVE  OutOfReach(i, n + 1)'
  <2>0. i \in Nat /\ MaxRecorded \in Nat /\ Window \in Nat
    BY <1>12, PostMortemAssumption
  <2>1. CASE i <= m
    <3>1. i \in 1 .. m /\ i \in 1 .. n
      BY <1>3, <2>0, <2>1
    <3>2. OutOfReach(i, n)
      BY <1>3, <1>7, <3>1 DEF LetGo
    <3>3. CASE n - i >= MaxRecorded
      <4>1. n + 1 - i >= MaxRecorded
        BY <1>3, <2>0, <3>3
      <4> QED
        BY <4>1 DEF OutOfReach
    <3>4. CASE \E j \in i + 1 .. n : pushed[j].now - pushed[i].now > Window
      <4>1. PICK j \in i + 1 .. n : pushed[j].now - pushed[i].now > Window
        BY <3>4
      <4>2. j \in 1 .. n /\ j \in i + 1 .. n + 1
        BY <1>3, <2>0
      <4>3. pushed'[j] = pushed[j] /\ pushed'[i] = pushed[i]
        BY <1>8, <3>1, <4>2
      <4> QED
        BY <4>1, <4>2, <4>3 DEF OutOfReach
    <3> QED
      BY <3>2, <3>3, <3>4 DEF OutOfReach
  <2>2. CASE ~(i <= m)
    <3> DEFINE h == i - m
    <3>1. h \in 1 .. c - 1 /\ h \in 1 .. n - m + 1 /\ m + h = i /\ i \in 1 .. n
      BY <1>3, <1>11, <1>12, <2>0, <2>2
    <3> HIDE DEF h
    <3>2. q[h] = pushed'[i]
      BY <1>10, <3>1
    <3>3. CASE Len(q) - h >= MaxRecorded
      <4>1. n + 1 - i >= MaxRecorded
        BY <1>3, <1>11, <2>0, <3>1, <3>3
      <4> QED
        BY <4>1 DEF OutOfReach
    <3>4. CASE now - q[h].now > Window
      <4>1. pushed'[n + 1].now = now /\ n + 1 \in i + 1 .. n + 1
        BY <1>3, <1>8, <3>1
      <4>2. pushed'[n + 1].now - pushed'[i].now > Window
        BY <3>2, <3>4, <4>1
      <4> QED
        BY <4>1, <4>2 DEF OutOfReach
    <3> QED
      BY <1>6, <3>1, <3>3, <3>4
  <2> QED
    BY <2>1, <2>2
<1> HIDE DEF k
<1>15. LetGo(k)'
  BY <1>8, <1>13, <1>14 DEF LetGo
<1> QED
  BY <1>8, <1>12, <1>15 DEF RecorderInv

\* The events of a sequence of arrivals.
LEMMA ArrivalEvents ==
    ASSUME NEW q \in Seq(Arrivals)
    PROVE  /\ EventsIn(q) \in Seq(Nat) /\ Len(EventsIn(q)) = Len(q)
           /\ \A i \in 1 .. Len(q) : EventsIn(q)[i] = q[i].event
<1> DEFINE n == Len(q)
<1>1. n \in Nat /\ DOMAIN q = 1 .. n /\ \A i \in 1 .. n : q[i] \in Arrivals
  OBVIOUS
<1> HIDE DEF n
<1>2. \A i \in 1 .. n : q[i].event \in Nat
  BY <1>1 DEF Arrivals
<1>3. EventsIn(q) = [i \in 1 .. n |-> q[i].event]
  BY <1>1 DEF EventsIn
<1>4. /\ EventsIn(q) \in Seq(Nat) /\ Len(EventsIn(q)) = n
      /\ \A i \in 1 .. n : EventsIn(q)[i] = q[i].event
  BY <1>1, <1>2, <1>3
<1> QED
  BY <1>4 DEF n

\* A sequence backwards.
LEMMA Backwards ==
    ASSUME NEW s \in Seq(Nat)
    PROVE  /\ Reverse(s) \in Seq(Nat) /\ Len(Reverse(s)) = Len(s)
           /\ \A i \in 1 .. Len(s) : Reverse(s)[i] = s[Len(s) - i + 1]
<1> DEFINE n == Len(s)
<1>1. n \in Nat /\ \A i \in 1 .. n : s[i] \in Nat
  OBVIOUS
<1>2. Reverse(s) = [i \in 1 .. n |-> s[n - i + 1]]
  BY DEF Reverse
<1> HIDE DEF n
<1>3. \A i \in 1 .. n : n - i + 1 \in 1 .. n
  BY <1>1
<1>4. \A i \in 1 .. n : s[n - i + 1] \in Nat
  BY <1>1, <1>3
<1>5. /\ Reverse(s) \in Seq(Nat) /\ Len(Reverse(s)) = n
      /\ \A i \in 1 .. n : Reverse(s)[i] = s[n - i + 1]
  BY <1>1, <1>2, <1>4
<1> QED
  BY <1>5 DEF n

\* What a sequence ends with is a suffix of it.
LEMMA EndIsSuffix ==
    ASSUME NEW s \in Seq(Nat), NEW t \in Seq(Nat), NEW m \in 0 .. Len(t),
           Len(s) = Len(t) - m, \A i \in 1 .. Len(s) : s[i] = t[m + i]
    PROVE  IsSuffix(s, t)
<1> DEFINE n == Len(t)
           p == Len(s)
           rs == Reverse(s)
           rt == Reverse(t)
<1>1. n \in Nat /\ p \in Nat /\ p = n - m /\ p <= n
  OBVIOUS
<1>2. /\ rs \in Seq(Nat) /\ Len(rs) = p /\ \A i \in 1 .. p : rs[i] = s[p - i + 1]
  BY Backwards
<1>3. /\ rt \in Seq(Nat) /\ Len(rt) = n /\ \A i \in 1 .. n : rt[i] = t[n - i + 1]
  BY Backwards
<1>4. \A i \in 1 .. p : s[i] = t[m + i]
  OBVIOUS
<1> HIDE DEF n, p, rs, rt
<1>5. \A i \in 1 .. p : rs[i] = rt[i]
  <2> TAKE i \in 1 .. p
  <2>1. p - i + 1 \in 1 .. p /\ m + (p - i + 1) = n - i + 1 /\ i \in 1 .. n
    BY <1>1
  <2>2. s[p - i + 1] = t[m + (p - i + 1)]
    BY <1>4, <2>1
  <2> QED
    BY <1>2, <1>3, <2>1, <2>2
<1>6. Len(rs) <= Len(rt) /\ SubSeq(rs, 1, Len(rs)) = SubSeq(rt, 1, Len(rs))
  <2>1. SubSeq(rs, 1, p) = [i \in 1 .. p |-> rs[i]]
    BY <1>1, <1>2
  <2>2. SubSeq(rt, 1, p) = [i \in 1 .. p |-> rt[i]]
    BY <1>1, <1>3
  <2>3. SubSeq(rs, 1, p) = SubSeq(rt, 1, p)
    BY <1>5, <2>1, <2>2
  <2> QED
    BY <1>1, <1>2, <1>3, <2>3
<1> QED
  BY <1>6 DEF IsSuffix, IsPrefix, rs, rt

\* What the recorder holds is a suffix of what was pushed.
LEMMA RecorderIsSuffix ==
    ASSUME NEW P \in Seq(Arrivals), NEW m \in 0 .. Len(P)
    PROVE  IsSuffix(EventsIn(SubSeq(P, m + 1, Len(P))), EventsIn(SubSeq(P, 1, Len(P))))
<1> DEFINE n == Len(P)
           Q == SubSeq(P, m + 1, n)
           W == SubSeq(P, 1, n)
<1>1. /\ n \in Nat /\ m \in 0 .. n
      /\ Q \in Seq(Arrivals) /\ Len(Q) = n - m
      /\ \A i \in 1 .. n - m : Q[i] = P[m + i]
      /\ W \in Seq(Arrivals) /\ Len(W) = n /\ \A i \in 1 .. n : W[i] = P[i]
  OBVIOUS
<1> HIDE DEF n, Q, W
<1> DEFINE s == EventsIn(Q)
           t == EventsIn(W)
<1>2. s \in Seq(Nat) /\ Len(s) = n - m /\ \A i \in 1 .. n - m : s[i] = Q[i].event
  <2>1. s \in Seq(Nat) /\ Len(s) = Len(Q) /\ \A i \in 1 .. Len(Q) : s[i] = Q[i].event
    BY <1>1, ArrivalEvents
  <2> QED
    BY <1>1, <2>1
<1>3. t \in Seq(Nat) /\ Len(t) = n /\ \A i \in 1 .. n : t[i] = W[i].event
  <2>1. t \in Seq(Nat) /\ Len(t) = Len(W) /\ \A i \in 1 .. Len(W) : t[i] = W[i].event
    BY <1>1, ArrivalEvents
  <2> QED
    BY <1>1, <2>1
<1> HIDE DEF s, t
<1>4. \A i \in 1 .. n - m : m + i \in 1 .. n
  BY <1>1
<1>5. \A i \in 1 .. Len(s) : s[i] = t[m + i]
  <2> TAKE i \in 1 .. Len(s)
  <2>1. i \in 1 .. n - m /\ m + i \in 1 .. n
    BY <1>2, <1>4
  <2>2. s[i] = P[m + i].event
    BY <1>1, <1>2, <2>1
  <2>3. t[m + i] = P[m + i].event
    BY <1>1, <1>3, <2>1
  <2> QED
    BY <2>2, <2>3
<1>6. IsSuffix(s, t)
  BY <1>1, <1>2, <1>3, <1>5, EndIsSuffix
<1> QED
  BY <1>6 DEF s, t, Q, W, n

\* Nothing is a suffix of anything.
LEMMA NothingIsSuffix ==
    ASSUME NEW P \in Seq(Arrivals)
    PROVE  IsSuffix(<<>>, EventsIn(P))
<1> DEFINE t == EventsIn(P)
<1>1. t \in Seq(Nat)
  BY ArrivalEvents
<1> HIDE DEF t
<1>2. /\ <<>> \in Seq(Nat) /\ Len(t) \in 0 .. Len(t) /\ Len(<<>>) = Len(t) - Len(t)
      /\ \A i \in 1 .. Len(<<>>) : <<>>[i] = t[Len(t) + i]
  BY <1>1
<1>3. IsSuffix(<<>>, t)
  BY <1>1, <1>2, EndIsSuffix
<1> QED
  BY <1>3 DEF t

\* What a dump has to be.
SavedRight(d) ==
    /\ d.trigger # 0 => \E i \in 1 .. d.pushes : pushed[i].event = d.trigger
    /\ \/ \A i \in 1 .. d.pushes : ~OutOfReach(i, d.pushes) =>
             pushed[i].event \in ToSet(d.saved)
       \/ d.trigger = 0 /\ d.saved = <<>>
    /\ IsSuffix(d.saved, EventsIn(SubSeq(pushed, 1, d.pushes)))

DumpsInv == \A d \in dumps : d.pushes \in 0 .. Len(pushed) /\ SavedRight(d)

\* A dump of the recorder is right, of an event that was pushed ...
LEMMA RecorderSaved ==
    ASSUME FeedTypeOK, RecorderInv, NEW trigger, NEW key,
           trigger # 0 => WasPushed(trigger)
    PROVE  LET d == Dump(trigger, key, EventsIn(recorder))
           IN  d.pushes \in 0 .. Len(pushed) /\ SavedRight(d)
<1> DEFINE d == Dump(trigger, key, EventsIn(recorder))
           n == Len(pushed)
<1>1. /\ d.trigger = trigger /\ d.saved = EventsIn(recorder) /\ d.pushes = n
      /\ pushed \in Seq(Arrivals) /\ n \in Nat /\ DOMAIN pushed = 1 .. n
  BY DEF Dump, FeedTypeOK
<1>2. PICK m \in 0 .. n : LetGo(m)
  BY DEF RecorderInv
<1>3. recorder = SubSeq(pushed, m + 1, n) /\ \A i \in 1 .. m : OutOfReach(i, n)
  BY <1>2 DEF LetGo
<1> HIDE DEF d
<1>4. d.trigger # 0 => \E i \in 1 .. d.pushes : pushed[i].event = d.trigger
  BY <1>1 DEF WasPushed
<1>5. ASSUME NEW i \in 1 .. n, ~OutOfReach(i, n)
      PROVE  pushed[i].event \in ToSet(d.saved)
  <2>1. ~(i \in 1 .. m)
    BY <1>3, <1>5
  <2>2. i - m \in 1 .. n - m /\ m + (i - m) = i
    BY <1>1, <2>1
  <2>3. Len(recorder) = n - m /\ recorder[i - m] = pushed[i]
    BY <1>1, <1>2, <2>2, RecorderAt
  <2>4. i - m \in DOMAIN recorder
    BY <1>1, <2>2, <2>3 DEF FeedTypeOK
  <2>5. d.saved = [j \in DOMAIN recorder |-> recorder[j].event]
    BY <1>1 DEF EventsIn
  <2>6. i - m \in DOMAIN d.saved /\ d.saved[i - m] = pushed[i].event
    BY <2>3, <2>4, <2>5
  <2> QED
    BY <2>6 DEF ToSet
<1>6. IsSuffix(d.saved, EventsIn(SubSeq(pushed, 1, n)))
  BY <1>1, <1>3, RecorderIsSuffix
<1>7. SavedRight(d)
  BY <1>1, <1>4, <1>5, <1>6 DEF SavedRight
<1> QED
  BY <1>1, <1>7 DEF d

\* ... and so is an empty box.
LEMMA EmptyBoxSaved ==
    ASSUME FeedTypeOK
    PROVE  LET d == Dump(0, NoKey, <<>>)
           IN  d.pushes \in 0 .. Len(pushed) /\ SavedRight(d)
<1> DEFINE d == Dump(0, NoKey, <<>>)
<1>1. /\ d.trigger = 0 /\ d.saved = <<>> /\ d.pushes = Len(pushed)
      /\ pushed \in Seq(Arrivals) /\ Len(pushed) \in Nat
  BY DEF Dump, FeedTypeOK
<1> HIDE DEF d
<1>2. SubSeq(pushed, 1, Len(pushed)) \in Seq(Arrivals)
  BY <1>1
<1>3. IsSuffix(<<>>, EventsIn(SubSeq(pushed, 1, Len(pushed))))
  BY <1>2, NothingIsSuffix
<1>4. SavedRight(d)
  BY <1>1, <1>3 DEF SavedRight
<1> QED
  BY <1>1, <1>4 DEF d

\* A later push does not change what a dump should have saved.
LEMMA DumpsKept ==
    ASSUME FeedTypeOK, DumpsInv, dumps' = dumps,
           pushed' = pushed \/ \E a \in Arrivals : pushed' = Append(pushed, a)
    PROVE  DumpsInv'
<1>1. CASE pushed' = pushed
  BY <1>1 DEF DumpsInv, SavedRight, OutOfReach
<1>2. CASE \E a \in Arrivals : pushed' = Append(pushed, a)
  <2>1. PICK a \in Arrivals : pushed' = Append(pushed, a)
    BY <1>2
  <2>2. /\ Len(pushed') = Len(pushed) + 1
        /\ \A i \in 1 .. Len(pushed) : pushed'[i] = pushed[i]
        /\ \A n \in 0 .. Len(pushed), i \in 1 .. Len(pushed) :
             OutOfReach(i, n)' <=> OutOfReach(i, n)
        /\ \A n \in 0 .. Len(pushed) : SubSeq(pushed', 1, n) = SubSeq(pushed, 1, n)
    BY <2>1, PushedGrows
  <2>3. Len(pushed) \in Nat
    BY DEF FeedTypeOK
  <2>4. ASSUME NEW d \in dumps
        PROVE  d.pushes \in 0 .. Len(pushed') /\ SavedRight(d)'
    <3>1. d.pushes \in 0 .. Len(pushed) /\ SavedRight(d)
      BY DEF DumpsInv
    <3> DEFINE p == d.pushes
    <3>2. \A i \in 1 .. p : i \in 1 .. Len(pushed)
      BY <2>3, <3>1
    <3>3. \A i \in 1 .. p : /\ pushed'[i] = pushed[i]
                            /\ OutOfReach(i, p)' <=> OutOfReach(i, p)
      BY <2>2, <3>1, <3>2
    <3>4. SubSeq(pushed', 1, p) = SubSeq(pushed, 1, p)
      BY <2>2, <3>1
    <3>5. SavedRight(d)'
      <4>1. d.trigger # 0 => \E i \in 1 .. d.pushes : pushed'[i].event = d.trigger
        BY <3>1, <3>3 DEF SavedRight
      <4>2. \/ \A i \in 1 .. d.pushes : ~OutOfReach(i, d.pushes)' =>
                  pushed'[i].event \in ToSet(d.saved)
            \/ d.trigger = 0 /\ d.saved = <<>>
        BY <3>1, <3>3 DEF SavedRight
      <4>3. IsSuffix(d.saved, EventsIn(SubSeq(pushed', 1, d.pushes)))
        BY <3>1, <3>4 DEF SavedRight
      <4> QED
        BY <4>1, <4>2, <4>3 DEF SavedRight, EventsIn, IsSuffix, IsPrefix, Reverse
    <3> QED
      BY <2>2, <2>3, <3>1, <3>5
  <2> QED
    BY <1>2, <2>4 DEF DumpsInv
<1> QED
  BY <1>1, <1>2

\* The post-mortems stay right.
LEMMA DumpsStep ==
    ASSUME FeedTypeOK, PushedFirst, RecorderInv, DumpsInv, [PMNext]_pmVars
    PROVE  DumpsInv' /\ RecorderInv'
<1>1. ASSUME UNCHANGED <<recorder, pushed>>
      PROVE  RecorderInv'
  BY <1>1 DEF RecorderInv, LetGo, OutOfReach
<1>2. ASSUME UNCHANGED <<recorder, pushed, dumps>>
      PROVE  DumpsInv' /\ RecorderInv'
  BY <1>1, <1>2, DumpsKept
<1>3. ASSUME NEW d, d.pushes \in 0 .. Len(pushed) /\ SavedRight(d),
             dumps' \in {dumps, dumps \cup {d}}, UNCHANGED <<recorder, pushed>>
      PROVE  DumpsInv' /\ RecorderInv'
  <2>1. \A x : SavedRight(x) => SavedRight(x)'
    BY <1>3 DEF SavedRight, OutOfReach
  <2>2. \A x \in dumps' : x \in dumps \/ x = d
    BY <1>3
  <2> QED
    BY <1>1, <1>3, <2>1, <2>2 DEF DumpsInv
<1>4. ASSUME NEW t \in Threads, Push(t)
      PROVE  DumpsInv' /\ RecorderInv'
  <2>1. publisher[t] \in Appends
    BY DEF FeedTypeOK
  <2>2. \E a \in Arrivals : pushed' = Append(pushed, a)
    BY <1>4, <2>1 DEF Push, Appends, Arrivals
  <2>3. dumps' = dumps
    BY <1>4 DEF Push
  <2> QED
    BY <1>4, <2>2, <2>3, DumpsKept, RecorderPushed
<1>5. CASE Restart
  <2>1. recorder' = <<>> /\ pushed' = <<>> /\ dumps' = {}
    BY <1>5 DEF Restart
  <2>2. LetGo(0)'
    BY <2>1 DEF LetGo
  <2> QED
    BY <2>1, <2>2 DEF DumpsInv, RecorderInv
<1>6. CASE FlushPostMortem
  <2> DEFINE d == Dump(watcher.event, kind[watcher.event], EventsIn(recorder))
  <2>1. /\ dumps' \in {dumps, dumps \cup {d}} /\ watcher.at = "snapshot"
        /\ UNCHANGED <<recorder, pushed>>
    BY <1>6 DEF FlushPostMortem, WatcherAt, feedVars
  <2>2. WasPushed(watcher.event)
    BY <2>1 DEF PushedFirst
  <2>3. d.pushes \in 0 .. Len(pushed) /\ SavedRight(d)
    BY <2>2, RecorderSaved
  <2> HIDE DEF d
  <2> QED
    BY <1>3, <2>1, <2>3
<1>7. CASE SaveBlackBox
  <2>1. PICK events \in Taken : dumps' \in {dumps, dumps \cup {Dump(0, NoKey, events)}}
    BY <1>7 DEF SaveBlackBox
  <2>2. UNCHANGED <<recorder, pushed>>
    BY <1>7 DEF SaveBlackBox, feedVars
  <2>3. events = EventsIn(recorder) \/ events = <<>>
    BY DEF Taken
  <2> DEFINE d == Dump(0, NoKey, events)
  <2>4. d.pushes \in 0 .. Len(pushed) /\ SavedRight(d)
    BY <2>3, RecorderSaved, EmptyBoxSaved
  <2>5. dumps' \in {dumps, dumps \cup {d}}
    BY <2>1
  <2> HIDE DEF d
  <2> QED
    BY <1>3, <2>2, <2>4, <2>5
<1>8. CASE ~(Restart \/ FlushPostMortem \/ SaveBlackBox \/ \E t \in Threads : Push(t))
  <2>1. UNCHANGED <<recorder, pushed, dumps>>
    BY <1>8 DEF PMNext, Tick, WatcherStep, HookStep, Appending, Publish, Send, WatcherLags,
                WatcherRecv, ReportFlush, FlushAndAbort, Panic, pmVars, feedVars, history
  <2> QED
    BY <1>2, <2>1
<1> QED
  BY <1>4, <1>5, <1>6, <1>7, <1>8

\* What the gate has decided is exact ...
Exact(d, S) == d.fires <=> ~\E a \in {x \in S : x.fires} :
                               /\ a.event < d.event /\ a.key = d.key /\ a.at <= d.at
                               /\ d.at - a.at < MinInterval
RateInv == GateInv /\ \A d \in decisions : Exact(d, decisions)

\* ... and stays so.
LEMMA GateStep ==
    ASSUME FeedTypeOK, PushedFirst, RateInv, [PMNext]_pmVars
    PROVE  RateInv'
<1>0. /\ clock \in Nat /\ watcher.pos \in Nat /\ MinInterval \in Nat \ {0}
      /\ lastAdmitted \in [Keys -> Nat \cup {Never}] /\ NoKey \notin Keys
      /\ Never \notin Nat /\ feed \in Seq(Nat) /\ Len(feed) \in Nat
  BY PostMortemAssumption DEF FeedTypeOK, Never
<1>1. /\ \A d \in decisions : /\ d.event \in Nat /\ d.event < watcher.pos
                              /\ d.at \in Nat /\ d.at <= clock /\ d.key \in Keys
      /\ \A k \in Keys :
           IF lastAdmitted[k] = Never THEN AdmittedOf(k) = {}
           ELSE /\ \E a \in AdmittedOf(k) : a.at = lastAdmitted[k]
                /\ \A a \in AdmittedOf(k) : a.at <= lastAdmitted[k]
      /\ \A d \in decisions : Exact(d, decisions)
  BY DEF RateInv, GateInv
<1>2. ASSUME UNCHANGED <<decisions, lastAdmitted>>,
             watcher'.pos \in Nat, watcher'.pos >= watcher.pos,
             clock' \in Nat, clock' >= clock
      PROVE  RateInv'
  <2>1. \A d \in decisions : d.event < watcher'.pos /\ d.at <= clock'
    BY <1>0, <1>1, <1>2
  <2>2. \A k \in Keys : AdmittedOf(k)' = AdmittedOf(k)
    BY <1>2 DEF AdmittedOf
  <2>3. GateInv'
    BY <1>1, <1>2, <2>1, <2>2 DEF GateInv
  <2>4. \A d \in decisions' : Exact(d, decisions)'
    BY <1>1, <1>2 DEF Exact
  <2> QED
    BY <2>3, <2>4 DEF RateInv
<1>3. CASE WatcherRecv
  <2> DEFINE e == feed[watcher.pos + 1]
             k == kind[e]
             fires == k # NoKey /\ Admits(k, clock)
             d == [event |-> watcher.pos, key |-> k, at |-> clock, fires |-> fires]
  <2>1. /\ watcher'.pos = watcher.pos + 1 /\ clock' = clock
        /\ lastAdmitted' = IF k = NoKey THEN lastAdmitted ELSE Recorded(k, clock)
        /\ decisions' = IF k = NoKey THEN decisions ELSE decisions \cup {d}
        /\ watcher.pos < Len(feed)
    BY <1>3 DEF WatcherRecv
  <2>2. k \in Keys \cup {NoKey}
    <3>1. watcher.pos + 1 \in DOMAIN feed
      BY <1>0, <2>1
    <3>2. e \in DOMAIN kind /\ kind \in Seq(Keys \cup {NoKey})
      BY <3>1 DEF PushedFirst, Happened, FeedTypeOK
    <3> HIDE DEF e
    <3> QED
      BY <3>2
  <2> HIDE DEF e, k
  <2>3. CASE k = NoKey
    BY <1>0, <1>2, <2>1, <2>3
  <2>4. CASE k # NoKey
    <3>1. k \in Keys /\ (fires <=> Admits(k, clock)) /\ fires \in BOOLEAN
      BY <2>2, <2>4
    <3>2. /\ d.event = watcher.pos /\ d.key = k /\ d.at = clock /\ d.fires = fires
      OBVIOUS
    <3> HIDE DEF d, fires
    <3>3. decisions' = decisions \cup {d}
      BY <2>1, <2>4
    <3>4. lastAdmitted' = IF Admits(k, clock) THEN [lastAdmitted EXCEPT ![k] = clock]
                          ELSE lastAdmitted
      BY <2>1, <2>4 DEF Recorded
    <3>5. Admits(k, clock) <=> \/ lastAdmitted[k] = Never
                               \/ clock - lastAdmitted[k] >= MinInterval
      BY DEF Admits
    \* The decision of now ...
    <3>6. Exact(d, decisions')
      <4> DEFINE Near(a) == /\ a.event < d.event /\ a.key = d.key /\ a.at <= d.at
                            /\ d.at - a.at < MinInterval
      <4>1. CASE lastAdmitted[k] = Never
        <5>1. \A a \in decisions : a.fires => ~Near(a)
          BY <1>1, <3>1, <3>2, <4>1 DEF AdmittedOf
        <5>2. ~Near(d)
          BY <1>0, <3>2
        <5> QED
          BY <3>1, <3>2, <3>3, <3>5, <4>1, <5>1, <5>2 DEF Exact
      <4>2. CASE lastAdmitted[k] # Never
        <5> DEFINE l == lastAdmitted[k]
        <5>1. l \in Nat
          BY <1>0, <3>1, <4>2
        <5>2. PICK b \in AdmittedOf(k) : b.at = l
          BY <1>1, <3>1, <4>2
        <5>3. \A a \in AdmittedOf(k) : a.at <= l
          BY <1>1, <3>1, <4>2
        <5> HIDE DEF l
        <5>4. /\ b \in decisions /\ b.fires /\ b.key = k /\ b.event \in Nat
              /\ b.event < watcher.pos /\ b.at <= clock
          BY <1>1, <5>2 DEF AdmittedOf
        <5>5. CASE clock - l >= MinInterval
          <6>1. fires
            BY <3>1, <3>5, <5>5 DEF l
          <6>2. \A a \in decisions : a.fires => ~Near(a)
            <7> TAKE a \in decisions
            <7> SUFFICES ASSUME a.fires, Near(a) PROVE FALSE
              OBVIOUS
            <7>1. a \in AdmittedOf(k)
              BY <3>2 DEF AdmittedOf
            <7>2. a.at <= l /\ a.at \in Nat /\ clock - a.at < MinInterval
              BY <1>1, <3>2, <5>3, <7>1
            <7> QED
              BY <1>0, <5>1, <5>5, <7>2
          <6>3. ~Near(d)
            BY <1>0, <3>2
          <6> QED
            BY <3>2, <3>3, <6>1, <6>2, <6>3 DEF Exact
        <5>6. CASE ~(clock - l >= MinInterval)
          <6>1. ~fires
            BY <3>1, <3>5, <4>2, <5>6 DEF l
          <6>2. Near(b)
            BY <1>0, <3>2, <5>1, <5>2, <5>4, <5>6
          <6>3. b \in decisions'
            BY <3>3, <5>4
          <6> QED
            BY <3>2, <5>4, <6>1, <6>2, <6>3 DEF Exact
        <5> QED
          BY <5>5, <5>6
      <4> QED
        BY <4>1, <4>2
    \* ... and those before it.
    <3>7. ASSUME NEW x \in decisions
          PROVE  Exact(x, decisions')
      <4>1. Exact(x, decisions) /\ x.event \in Nat /\ x.event < watcher.pos
        BY <1>1
      <4>2. ~(d.event < x.event)
        BY <1>0, <3>2, <4>1
      <4> QED
        BY <3>3, <4>1, <4>2 DEF Exact
    <3>8. \A x \in decisions' : Exact(x, decisions)'
      BY <3>3, <3>6, <3>7 DEF Exact
    <3>9. \A x \in decisions' : /\ x.event \in Nat /\ x.event < watcher'.pos
                                /\ x.at \in Nat /\ x.at <= clock' /\ x.key \in Keys
      <4>1. \A x \in decisions : x.event < watcher.pos + 1
        BY <1>0, <1>1
      <4> QED
        BY <1>0, <1>1, <2>1, <3>1, <3>2, <3>3, <4>1
    <3>10. ASSUME NEW h \in Keys
           PROVE  IF lastAdmitted'[h] = Never THEN AdmittedOf(h)' = {}
                  ELSE /\ \E a \in AdmittedOf(h)' : a.at = lastAdmitted'[h]
                       /\ \A a \in AdmittedOf(h)' : a.at <= lastAdmitted'[h]
      <4>1. CASE h = k /\ Admits(k, clock)
        <5>1. lastAdmitted'[h] = clock /\ clock # Never
          BY <1>0, <3>4, <4>1
        <5>2. d \in AdmittedOf(h)'
          BY <3>1, <3>2, <3>3, <4>1 DEF AdmittedOf
        <5>3. \A a \in AdmittedOf(h)' : a.at <= clock
          BY <2>1, <3>9 DEF AdmittedOf
        <5> QED
          BY <3>2, <5>1, <5>2, <5>3
      <4>2. CASE ~(h = k /\ Admits(k, clock))
        <5>1. lastAdmitted'[h] = lastAdmitted[h]
          BY <1>0, <3>4, <4>2
        <5>2. AdmittedOf(h)' = AdmittedOf(h)
          BY <3>1, <3>2, <3>3, <4>2 DEF AdmittedOf
        <5> QED
          BY <1>1, <5>1, <5>2
      <4> QED
        BY <4>1, <4>2
    <3>11. GateInv'
      BY <3>9, <3>10 DEF GateInv
    <3> QED
      BY <3>8, <3>11 DEF RateInv
  <2> QED
    BY <2>3, <2>4
<1>4. CASE Restart
  <2>1. decisions' = {} /\ lastAdmitted' = [k \in Keys |-> Never]
    BY <1>4 DEF Restart
  <2>2. \A k \in Keys : AdmittedOf(k)' = {} /\ lastAdmitted'[k] = Never
    BY <2>1 DEF AdmittedOf
  <2> QED
    BY <2>1, <2>2 DEF RateInv, GateInv
<1>5. CASE Tick
  BY <1>0, <1>2, <1>5 DEF Tick, watchVars, history
<1>6. CASE WatcherLags
  <2>1. /\ watcher' = [watcher EXCEPT !.pos = Oldest] /\ Lagged(watcher.pos)
        /\ UNCHANGED <<clock, decisions, lastAdmitted>>
    BY <1>6 DEF WatcherLags, history
  <2>2. watcher'.pos = Oldest
    BY <2>1 DEF FeedTypeOK
  <2>3. Oldest \in Nat /\ Oldest >= watcher.pos
    <3>1. Capacity \in Nat /\ Len(feed) - watcher.pos > Capacity
      BY <2>1, PostMortemAssumption DEF Lagged
    <3> QED
      BY <1>0, <3>1 DEF Oldest
  <2> QED
    BY <1>0, <1>2, <2>1, <2>2, <2>3
<1>7. CASE FlushPostMortem \/ ReportFlush
  <2>1. UNCHANGED <<clock, decisions, lastAdmitted>> /\ watcher'.pos = watcher.pos
    BY <1>7 DEF FlushPostMortem, ReportFlush, history, FeedTypeOK
  <2> QED
    BY <1>0, <1>2, <2>1
<1>8. CASE ~(WatcherRecv \/ Restart \/ Tick \/ WatcherLags \/ FlushPostMortem \/ ReportFlush)
  <2>1. UNCHANGED <<clock, decisions, lastAdmitted, watcher>>
    BY <1>8 DEF PMNext, WatcherStep, HookStep, Appending, Publish, Push, Send,
                SaveBlackBox, FlushAndAbort, Panic, pmVars, watchVars, history
  <2> QED
    BY <1>0, <1>2, <2>1
<1> QED
  BY <1>3, <1>4, <1>5, <1>6, <1>7, <1>8

\* All of it is inductive.
FeedInv == FeedTypeOK /\ PushedFirst /\ RecorderInv /\ DumpsInv /\ RateInv

\* It holds at first ...
LEMMA FeedInvInit ==
    ASSUME PMInit
    PROVE  FeedInv
<1>1. /\ clock \in 0 .. MaxTime /\ life = "up" /\ kind = <<>>
      /\ publisher \in [Threads -> {Quiet, Idle}]
      /\ recorder = <<>> /\ feed = <<>> /\ watcher = Listening
      /\ lastAdmitted = [k \in Keys |-> Never]
      /\ pushed = <<>> /\ dumps = {} /\ decisions = {}
  BY DEF PMInit
<1>2. Quiet \in Appends /\ Idle \in Appends
  BY DEF Quiet, Idle, Appends
<1>3. \A t \in Threads : publisher[t].at \in {"out", "idle"}
  BY <1>1 DEF Quiet, Idle
<1>4. FeedTypeOK
  <2>1. clock \in Nat
    BY <1>1, PostMortemAssumption
  <2>2. publisher \in [Threads -> Appends]
    BY <1>1, <1>2
  <2> QED
    BY <1>1, <2>1, <2>2 DEF FeedTypeOK, Listening
<1>5. PushedFirst
  BY <1>1, <1>3 DEF PushedFirst, Listening
<1>6. LetGo(0)
  BY <1>1 DEF LetGo
<1>7. RecorderInv
  BY <1>1, <1>6 DEF RecorderInv
<1>8. DumpsInv
  BY <1>1 DEF DumpsInv
<1>9. \A k \in Keys : AdmittedOf(k) = {} /\ lastAdmitted[k] = Never
  BY <1>1 DEF AdmittedOf
<1>10. RateInv
  BY <1>1, <1>9 DEF RateInv, GateInv
<1> QED
  BY <1>4, <1>5, <1>7, <1>8, <1>10 DEF FeedInv

\* ... after every step ...
LEMMA FeedInvStep ==
    ASSUME FeedInv, [PMNext]_pmVars
    PROVE  FeedInv'
<1>1. FeedTypeOK /\ PushedFirst /\ RecorderInv /\ DumpsInv /\ RateInv
  BY DEF FeedInv
<1>2. FeedTypeOK'
  BY <1>1, FeedTyped
<1>3. PushedFirst'
  BY <1>1, <1>2, PushedFirstStep
<1>4. DumpsInv' /\ RecorderInv'
  BY <1>1, DumpsStep
<1>5. RateInv'
  BY <1>1, GateStep
<1> QED
  BY <1>2, <1>3, <1>4, <1>5 DEF FeedInv

\* ... and says what the post-mortems promise.
LEMMA FeedInvRight ==
    ASSUME FeedInv
    PROVE  PostMortemsAreRight
<1>1. SavedWithTrigger
  <2> SUFFICES ASSUME NEW d \in dumps
               PROVE  LET due == {i \in 1 .. d.pushes : ~OutOfReach(i, d.pushes)}
                      IN  /\ d.trigger # 0 => \E i \in 1 .. d.pushes :
                                                  pushed[i].event = d.trigger
                          /\ \/ \A i \in due : pushed[i].event \in ToSet(d.saved)
                             \/ d.trigger = 0 /\ d.saved = <<>>
                          /\ IsSuffix(d.saved, EventsIn(SubSeq(pushed, 1, d.pushes)))
    BY DEF SavedWithTrigger
  <2>1. SavedRight(d)
    BY DEF FeedInv, DumpsInv
  <2> QED
    BY <2>1 DEF SavedRight
<1>2. RateLimitIsExact
  <2>1. \A d \in decisions : Exact(d, decisions)
    BY DEF FeedInv, RateInv
  <2> QED
    BY <2>1 DEF RateLimitIsExact, Exact
<1> QED
  BY <1>1, <1>2 DEF PostMortemsAreRight

\* A post-mortem holds the event that caused it and all that the recorder is
\* to keep, in order, and one reason leads to one dump per interval: for any
\* threads, reasons, sizes and instants, with panics, restarts and lag.
THEOREM PostMortems == FeedSpec => []PostMortemsAreRight
<1>1. FeedInit => FeedInv
  BY FeedInvInit DEF FeedInit
<1>2. FeedInv /\ [FeedNext]_allVars => FeedInv'
  <2>1. [FeedNext]_allVars => [PMNext]_pmVars
    BY DEF FeedNext, allVars
  <2> QED
    BY <2>1, FeedInvStep
<1>3. FeedInv => PostMortemsAreRight
  BY FeedInvRight
<1> QED
  BY <1>1, <1>2, <1>3, PTL DEF FeedSpec

-----------------------------------------------------------------------------
(* A client's feed.                                                        *)

Out == {"connecting", "sleeping", "gone"}
ConnTypeOK ==
    /\ client \in Out \cup {"acking", "streaming"} /\ midFrame \in BOOLEAN
    /\ handler \in [at : {"none", "ack", "subscribe", "recv", "write"},
                    pos : Nat, event : Nat]
    /\ pipe \in Seq(Nat) /\ received \in Seq(Nat)
    /\ since \in Nat /\ skipped \in SUBSET Nat

\* Where the events in the socket begin: after the acknowledgement.
FirstEvent == IF client = "acking" THEN 2 ELSE 1

\* What a connection has when it has not come to events yet.
ConnStages ==
    /\ client \in Out =>
         handler = NoHandler /\ pipe = <<>> /\ received = <<>> /\ skipped = {}
    /\ midFrame => client = "streaming"
    /\ handler.at = "ack" => client = "acking" /\ pipe = <<>>
    /\ handler.at \in {"ack", "subscribe"} =>
         received = <<>> /\ skipped = {} /\ Len(pipe) < FirstEvent
    /\ handler.at \in {"subscribe", "recv", "write"} /\ client = "acking" => pipe # <<>>
    /\ client = "acking" => received = <<>>

\* The events taken, then those in the socket, rise from the subscription on;
\* the handler has read up to its place, and the one in hand is the last.
ConnRising ==
    /\ \A i, j \in 1 .. Len(received) : i < j => received[i] < received[j]
    /\ ~midFrame =>
         /\ \A i, j \in FirstEvent .. Len(pipe) : i < j => pipe[i] < pipe[j]
         /\ \A i \in 1 .. Len(received), j \in FirstEvent .. Len(pipe) :
              received[i] < pipe[j]
         /\ handler.at = "write" => handler.event = handler.pos

Seen(x) == \/ \E i \in 1 .. Len(received) : received[i] = x
           \/ \E j \in FirstEvent .. Len(pipe) : pipe[j] = x
InHand(x) == handler.at = "write" /\ x = handler.event

\* Nothing but a lag takes an event away.
ConnComplete ==
    ~midFrame /\ handler.at \in {"recv", "write"} =>
      /\ since <= handler.pos
      /\ \A x \in Nat : Seen(x) \/ InHand(x) \/ x \in skipped <=> since < x /\ x <= handler.pos
      /\ \A x \in Nat : ~((Seen(x) \/ InHand(x)) /\ x \in skipped)
      /\ \A x \in Nat : ~(Seen(x) /\ InHand(x))

ConnInv == ConnTypeOK /\ ConnStages /\ ConnRising /\ ConnComplete

\* A connection that is over is as before the first.
LEMMA ConnReset ==
    ASSUME client' \in Out, midFrame' = FALSE, Disconnected
    PROVE  ConnInv'
<1>1. /\ handler' = NoHandler /\ pipe' = <<>> /\ since' = 0
      /\ received' = <<>> /\ skipped' = {}
  BY DEF Disconnected
<1>2. /\ handler'.at = "none" /\ FirstEvent' = 1
      /\ handler' \in [at : {"none", "ack", "subscribe", "recv", "write"},
                       pos : Nat, event : Nat]
  BY <1>1 DEF NoHandler, FirstEvent, Out
<1>3. ConnTypeOK'
  <2>1. client' \in Out \cup {"acking", "streaming"} /\ since' \in Nat
        /\ midFrame' \in BOOLEAN /\ skipped' \in SUBSET Nat
    BY <1>1
  <2>2. pipe' \in Seq(Nat) /\ received' \in Seq(Nat)
    BY <1>1
  <2> QED
    BY <1>2, <2>1, <2>2 DEF ConnTypeOK
<1>4. ConnStages'
  BY <1>1, <1>2 DEF ConnStages
<1>5. ConnRising'
  BY <1>1, <1>2 DEF ConnRising
<1>6. ConnComplete'
  BY <1>2 DEF ConnComplete
<1> QED
  BY <1>3, <1>4, <1>5, <1>6 DEF ConnInv

\* Nor is there anything before it.
LEMMA ConnInit ==
    ASSUME SubInit
    PROVE  ConnInv
<1>1. /\ handler = NoHandler /\ pipe = <<>> /\ since = 0 /\ midFrame = FALSE
      /\ received = <<>> /\ skipped = {} /\ client \in Out
  BY DEF SubInit, Out
<1>2. /\ handler.at = "none" /\ FirstEvent = 1
      /\ handler \in [at : {"none", "ack", "subscribe", "recv", "write"},
                       pos : Nat, event : Nat]
  BY <1>1 DEF NoHandler, FirstEvent, Out
<1>3. ConnTypeOK
  <2>1. client \in Out \cup {"acking", "streaming"} /\ since \in Nat
        /\ midFrame \in BOOLEAN /\ skipped \in SUBSET Nat
    BY <1>1
  <2>2. pipe \in Seq(Nat) /\ received \in Seq(Nat)
    BY <1>1
  <2> QED
    BY <1>2, <2>1, <2>2 DEF ConnTypeOK
<1>4. ConnStages
  BY <1>1, <1>2 DEF ConnStages
<1>5. ConnRising
  BY <1>1, <1>2 DEF ConnRising
<1>6. ConnComplete
  BY <1>2 DEF ConnComplete
<1> QED
  BY <1>3, <1>4, <1>5, <1>6 DEF ConnInv

\* The daemon's end.
LEMMA HandlerKeeps ==
    ASSUME ConnInv, Len(feed) \in Nat, HandlerStep
    PROVE  ConnInv'
<1> USE DEF ConnInv
<1>0. /\ pipe \in Seq(Nat) /\ received \in Seq(Nat) /\ Len(pipe) \in Nat
      /\ Len(received) \in Nat /\ handler.pos \in Nat /\ handler.event \in Nat
      /\ since \in Nat /\ skipped \in SUBSET Nat
      /\ client \in Out \cup {"acking", "streaming"} /\ midFrame \in BOOLEAN
      /\ handler \in [at : {"none", "ack", "subscribe", "recv", "write"},
                      pos : Nat, event : Nat]
  BY DEF ConnTypeOK
<1>1. CASE WriteAck
  <2>1. /\ handler.at = "ack" /\ handler' = [handler EXCEPT !.at = "subscribe"]
        /\ pipe' = Append(pipe, Ack) /\ client = "acking" /\ pipe = <<>>
        /\ received = <<>> /\ skipped = {}
        /\ UNCHANGED <<since, received, skipped, client, midFrame>>
    BY <1>1 DEF WriteAck, HandlerAt, HandlerGoes, clientVars, ConnStages
  <2>2. /\ handler'.at = "subscribe" /\ handler' \in [at : {"subscribe"}, pos : Nat, event : Nat]
        /\ pipe' = <<0>> /\ Len(pipe') = 1
    BY <1>0, <2>1 DEF Ack
  <2>3. FirstEvent' = 2
    BY <2>1 DEF FirstEvent
  <2> QED
    BY <1>0, <2>1, <2>2, <2>3 DEF ConnTypeOK, ConnStages, ConnRising, ConnComplete, Out
<1>2. CASE Subscribe
  <2>1. /\ handler.at = "subscribe" /\ since' = Len(feed)
        /\ handler' = [at |-> "recv", pos |-> Len(feed), event |-> 0]
        /\ received = <<>> /\ skipped = {} /\ Len(pipe) < FirstEvent
        /\ UNCHANGED <<pipe, received, skipped, client, midFrame>>
    BY <1>2 DEF Subscribe, HandlerAt, clientVars, ConnStages
  <2>2. FirstEvent' = FirstEvent /\ FirstEvent \in Nat
    BY <2>1 DEF FirstEvent
  <2>3. ConnTypeOK'
    BY <1>0, <2>1 DEF ConnTypeOK
  <2>a. ConnStages'
    <3>1. /\ midFrame => client = "streaming"
          /\ client = "acking" => pipe # <<>>
          /\ client \notin Out
      BY <2>1 DEF ConnStages, NoHandler
    <3> QED
      BY <2>1, <3>1 DEF ConnStages
  <2>4. \A x : ~Seen(x)'
    BY <1>0, <2>1, <2>2 DEF Seen
  <2>5. ConnRising' /\ ConnComplete'
    BY <1>0, <2>1, <2>2, <2>4 DEF ConnRising, ConnComplete, InHand
  <2> QED
    BY <2>3, <2>a, <2>5
<1>3. CASE HandlerRecv
  <2> DEFINE p == handler.pos
  <2>1. /\ handler.at = "recv"
        /\ UNCHANGED <<pipe, since, received, client, midFrame>>
        /\ \/ /\ Lagged(p) /\ handler' = [handler EXCEPT !.pos = Oldest]
              /\ skipped' = skipped \cup (p + 1 .. Oldest)
           \/ /\ handler' = [at |-> "write", pos |-> p + 1, event |-> p + 1]
              /\ skipped' = skipped
    BY <1>3 DEF HandlerRecv, HandlerAt, clientVars
  <2>2. FirstEvent' = FirstEvent /\ \A x : Seen(x)' <=> Seen(x)
    BY <2>1 DEF FirstEvent, Seen
  <2>3. CASE Lagged(p) /\ handler' = [handler EXCEPT !.pos = Oldest]
             /\ skipped' = skipped \cup (p + 1 .. Oldest)
    <3>1. Oldest \in Nat /\ p < Oldest
      BY <1>0, <2>3, PostMortemAssumption DEF Lagged, Oldest
    <3>2. handler'.at = "recv" /\ handler'.pos = Oldest /\ handler'.event = handler.event
      BY <1>0, <2>1, <2>3
    <3>3. \A x \in Nat : x \in skipped' <=> x \in skipped \/ (p < x /\ x <= Oldest)
      BY <1>0, <2>3, <3>1
    <3>4. ConnTypeOK'
      BY <1>0, <2>1, <2>3, <3>1 DEF ConnTypeOK
    <3>5. ConnStages' /\ ConnRising'
      BY <2>1, <2>2, <3>2 DEF ConnStages, ConnRising, NoHandler
    <3>6. ConnComplete'
      <4> SUFFICES ASSUME ~midFrame PROVE ConnComplete'
        BY <2>1 DEF ConnComplete
      <4>1. /\ since <= p
            /\ \A x \in Nat : Seen(x) \/ x \in skipped <=> since < x /\ x <= p
            /\ \A x \in Nat : ~(Seen(x) /\ x \in skipped)
        BY <2>1 DEF ConnComplete, InHand
      <4>2. since <= Oldest
        BY <1>0, <3>1, <4>1
      <4>3. \A x \in Nat : Seen(x) \/ x \in skipped' <=> since < x /\ x <= Oldest
        BY <1>0, <3>1, <3>3, <4>1
      <4>4. \A x \in Nat : ~(Seen(x) /\ x \in skipped')
        BY <1>0, <3>1, <3>3, <4>1
      <4> QED
        BY <2>1, <2>2, <3>2, <4>2, <4>3, <4>4 DEF ConnComplete, InHand
    <3> QED
      BY <3>4, <3>5, <3>6
  <2>4. CASE handler' = [at |-> "write", pos |-> p + 1, event |-> p + 1]
             /\ skipped' = skipped
    <3>1. ConnTypeOK'
      BY <1>0, <2>1, <2>4 DEF ConnTypeOK
    <3>2. ConnStages' /\ ConnRising'
      BY <2>1, <2>2, <2>4 DEF ConnStages, ConnRising, NoHandler
    <3>3. ConnComplete'
      <4> SUFFICES ASSUME ~midFrame PROVE ConnComplete'
        BY <2>1 DEF ConnComplete
      <4>1. /\ since <= p
            /\ \A x \in Nat : Seen(x) \/ x \in skipped <=> since < x /\ x <= p
            /\ \A x \in Nat : ~(Seen(x) /\ x \in skipped)
        BY <2>1 DEF ConnComplete, InHand
      <4>2. \A x : InHand(x)' <=> x = p + 1
        BY <2>4 DEF InHand
      <4>3. since <= p + 1
        BY <1>0, <4>1
      <4>4. \A x \in Nat : Seen(x) \/ x = p + 1 \/ x \in skipped <=> since < x /\ x <= p + 1
        BY <1>0, <4>1
      <4>5. \A x \in Nat : /\ ~((Seen(x) \/ x = p + 1) /\ x \in skipped)
                           /\ ~(Seen(x) /\ x = p + 1)
        BY <1>0, <4>1
      <4> QED
        BY <2>1, <2>2, <2>4, <4>2, <4>3, <4>4, <4>5 DEF ConnComplete
    <3> QED
      BY <3>1, <3>2, <3>3
  <2> QED
    BY <2>1, <2>3, <2>4
<1>4. CASE HandlerWrite
  <2> DEFINE n == Len(pipe)
             e == handler.event
             p == handler.pos
             f == FirstEvent
  <2>1. /\ handler.at = "write" /\ handler' = [handler EXCEPT !.at = "recv"]
        /\ pipe' = Append(pipe, e)
        /\ UNCHANGED <<since, received, skipped, client, midFrame>>
    BY <1>4 DEF HandlerWrite, HandlerAt, HandlerGoes, clientVars
  <2>2. /\ Len(pipe') = n + 1 /\ pipe'[n + 1] = e
        /\ \A i \in 1 .. n : pipe'[i] = pipe[i]
        /\ pipe' \in Seq(Nat)
    BY <1>0, <2>1
  <2>3. handler'.at = "recv" /\ handler'.pos = p
        /\ handler' \in [at : {"recv"}, pos : Nat, event : Nat]
    BY <1>0, <2>1
  <2>4. FirstEvent' = f /\ f \in 1 .. n + 1 /\ client \notin Out
    <3>1. client = "acking" => n > 0
      BY <1>0, <2>1 DEF ConnStages
    <3>2. client \notin Out
      BY <2>1 DEF ConnStages, NoHandler
    <3> QED
      BY <1>0, <2>1, <3>1, <3>2 DEF FirstEvent
  <2> HIDE DEF n, e, p, f
  <2>5. ConnTypeOK'
    BY <1>0, <2>1, <2>2, <2>3 DEF ConnTypeOK
  <2>6. ConnStages'
    BY <1>0, <2>1, <2>2, <2>3, <2>4 DEF ConnStages, n
  <2>7. \A x : Seen(x)' <=> Seen(x) \/ x = e
    <3>1. \A j : j \in f .. n + 1 <=> j \in f .. n \/ j = n + 1
      BY <1>0, <2>4 DEF n
    <3>2. \A j \in f .. n : j \in 1 .. n /\ pipe'[j] = pipe[j]
      BY <2>2, <2>4
    <3>3. \A x : (\E j \in f .. n + 1 : pipe'[j] = x) <=>
                 (\E j \in f .. n : pipe[j] = x) \/ x = e
      BY <2>2, <3>1, <3>2
    <3> QED
      BY <2>1, <2>2, <2>4, <3>3 DEF Seen, n, f
  <2>8. CASE midFrame
    <3>1. midFrame' /\ received' = received
      BY <2>1, <2>8
    <3>2. ConnRising'
      BY <3>1 DEF ConnRising
    <3>3. ConnComplete'
      BY <3>1 DEF ConnComplete
    <3> QED
      BY <2>5, <2>6, <3>2, <3>3
  <2>9. CASE ~midFrame
    <3>1. /\ since <= p
          /\ \A x \in Nat : Seen(x) \/ x = e \/ x \in skipped <=> since < x /\ x <= p
          /\ \A x \in Nat : ~((Seen(x) \/ x = e) /\ x \in skipped)
          /\ \A x \in Nat : ~(Seen(x) /\ x = e)
          /\ e = p
      BY <2>1, <2>9 DEF ConnComplete, InHand, ConnRising, e, p
    <3>2. ConnComplete'
      BY <2>1, <2>3, <2>7, <3>1 DEF ConnComplete, InHand
    <3>3. \A x \in Nat : Seen(x) => x < e
      BY <1>0, <3>1 DEF e, p
    <3>4. \A i \in 1 .. Len(received) : received[i] \in Nat /\ Seen(received[i])
      BY <1>0 DEF Seen
    <3>5. \A j \in f .. n : j \in 1 .. n /\ pipe[j] \in Nat /\ Seen(pipe[j])
      BY <1>0, <2>4 DEF Seen, n, f
    <3>6. ConnRising'
      <4>1. /\ \A i, j \in 1 .. Len(received) : i < j => received[i] < received[j]
            /\ \A i, j \in f .. n : i < j => pipe[i] < pipe[j]
            /\ \A i \in 1 .. Len(received), j \in f .. n : received[i] < pipe[j]
        BY <2>9 DEF ConnRising, n, f
      <4>2. \A j \in f .. n + 1 : (j \in f .. n /\ pipe'[j] = pipe[j])
                                  \/ (j = n + 1 /\ pipe'[j] = e)
        <5>1. f \in Nat \ {0} /\ n \in Nat
          BY <1>0, <2>4 DEF n
        <5>2. \A j \in f .. n + 1 : (j \in f .. n /\ j \in 1 .. n) \/ j = n + 1
          BY <5>1
        <5> QED
          BY <2>2, <5>2
      <4>3. \A i, j \in f .. n + 1 : i < j => pipe'[i] < pipe'[j]
        <5> TAKE i, j \in f .. n + 1
        <5> HAVE i < j
        <5>1. i \in f .. n
          BY <1>0, <2>4 DEF n
        <5>2. pipe'[i] = pipe[i] /\ pipe[i] < e
          BY <1>0, <2>2, <2>4, <3>3, <3>5, <5>1 DEF n
        <5>3. CASE j \in f .. n
          <6>1. pipe'[j] = pipe[j]
            BY <1>0, <2>2, <2>4, <5>3 DEF n
          <6> QED
            BY <4>1, <5>1, <5>2, <5>3, <6>1
        <5>4. CASE j = n + 1
          BY <2>2, <5>2, <5>4
        <5> QED
          BY <4>2, <5>3, <5>4
      <4>4. \A i \in 1 .. Len(received), j \in f .. n + 1 : received[i] < pipe'[j]
        BY <3>3, <3>4, <4>1, <4>2
      <4> QED
        BY <2>1, <2>2, <2>3, <2>4, <4>1, <4>3, <4>4 DEF ConnRising
    <3> QED
      BY <2>5, <2>6, <3>2, <3>6
  <2> QED
    BY <2>5, <2>6, <2>8, <2>9
<1> QED
  BY <1>1, <1>2, <1>3, <1>4 DEF HandlerStep

\* The client's end.
LEMMA ClientKeeps ==
    ASSUME ConnInv, ClientStep \/ ReadTimesOut
    PROVE  ConnInv'
<1>0. /\ pipe \in Seq(Nat) /\ received \in Seq(Nat) /\ Len(pipe) \in Nat
      /\ Len(received) \in Nat /\ handler.pos \in Nat /\ handler.event \in Nat
      /\ since \in Nat /\ skipped \in SUBSET Nat
      /\ client \in Out \cup {"acking", "streaming"} /\ midFrame \in BOOLEAN
      /\ handler \in [at : {"none", "ack", "subscribe", "recv", "write"},
                      pos : Nat, event : Nat]
  BY DEF ConnInv, ConnTypeOK
<1>a. ConnTypeOK /\ ConnStages /\ ConnRising /\ ConnComplete
  BY DEF ConnInv
<1>b. pipe # <<>> => /\ Len(pipe) > 0 /\ Tail(pipe) \in Seq(Nat)
                     /\ Len(Tail(pipe)) = Len(pipe) - 1
                     /\ \A i \in 1 .. Len(pipe) - 1 : Tail(pipe)[i] = pipe[i + 1]
  BY <1>0
<1>1. CASE BackOff
  BY <1>1, ConnReset DEF BackOff, Out
<1>2. CASE Connect /\ ~BackOff
  <2>1. /\ client = "connecting" /\ client' = "acking"
        /\ handler' = [NoHandler EXCEPT !.at = "ack"]
        /\ UNCHANGED <<pipe, since, received, skipped, midFrame>>
    BY <1>2 DEF Connect
  <2>2. pipe = <<>> /\ received = <<>> /\ skipped = {} /\ ~midFrame
    BY <1>a, <2>1 DEF ConnStages, Out
  <2>3. /\ handler' \in [at : {"none", "ack", "subscribe", "recv", "write"},
                         pos : Nat, event : Nat]
        /\ handler'.at = "ack" /\ FirstEvent' = 2
    BY <2>1 DEF NoHandler, FirstEvent
  <2>4. ConnTypeOK'
    BY <1>0, <2>1, <2>3 DEF ConnTypeOK
  <2>5. ConnStages'
    <3>1. ~midFrame' /\ Len(pipe') = 0 /\ pipe' = <<>> /\ received' = <<>> /\ skipped' = {}
      BY <2>1, <2>2
    <3> QED
      BY <2>1, <2>3, <3>1 DEF ConnStages, Out
  <2>6. ConnRising' /\ ConnComplete'
    BY <2>1, <2>2, <2>3 DEF ConnRising, ConnComplete
  <2> QED
    BY <2>4, <2>5, <2>6 DEF ConnInv
<1>3. CASE ReadAck
  <2>1. /\ client = "acking" /\ client' = "streaming" /\ pipe # <<>> /\ pipe' = Tail(pipe)
        /\ UNCHANGED <<handler, since, received, skipped, midFrame>>
    BY <1>3 DEF ReadAck
  <2>2. FirstEvent = 2 /\ FirstEvent' = 1
    BY <2>1 DEF FirstEvent
  <2>3. ConnTypeOK'
    BY <1>0, <1>b, <2>1 DEF ConnTypeOK
  <2>4. ConnStages'
    BY <1>a, <1>b, <2>1, <2>2 DEF ConnStages, Out
  <2>5. \A x : Seen(x)' <=> Seen(x)
    <3>1. \A j \in 1 .. Len(pipe) - 1 : j + 1 \in 2 .. Len(pipe)
      BY <1>0
    <3>2. \A j \in 2 .. Len(pipe) : j - 1 \in 1 .. Len(pipe) - 1 /\ (j - 1) + 1 = j
      BY <1>0
    <3>3. \A x : (\E j \in 1 .. Len(pipe') : pipe'[j] = x) <=>
                 (\E j \in 2 .. Len(pipe) : pipe[j] = x)
      <4>1. Len(pipe') = Len(pipe) - 1
            /\ \A j \in 1 .. Len(pipe) - 1 : pipe'[j] = pipe[j + 1]
        BY <1>b, <2>1
      <4>2. \A j \in 2 .. Len(pipe) : pipe'[j - 1] = pipe[j]
        BY <3>2, <4>1
      <4> QED
        BY <3>1, <3>2, <4>1, <4>2
    <3> QED
      BY <2>1, <2>2, <3>3 DEF Seen
  <2>6. ConnRising'
    <3>1. Len(pipe') = Len(pipe) - 1 /\ received' = received /\ received = <<>>
          /\ \A j \in 1 .. Len(pipe) - 1 : pipe'[j] = pipe[j + 1]
      BY <1>a, <1>b, <2>1 DEF ConnStages
    <3>2. CASE midFrame
      BY <2>1, <3>1, <3>2 DEF ConnRising
    <3>3. CASE ~midFrame
      <4>1. /\ \A i, j \in 2 .. Len(pipe) : i < j => pipe[i] < pipe[j]
            /\ handler.at = "write" => handler.event = handler.pos
        BY <1>a, <2>2, <3>3 DEF ConnRising
      <4>2. \A i, j \in 1 .. Len(pipe) - 1 : i < j => pipe'[i] < pipe'[j]
        <5> TAKE i, j \in 1 .. Len(pipe) - 1
        <5> HAVE i < j
        <5>1. i + 1 \in 2 .. Len(pipe) /\ j + 1 \in 2 .. Len(pipe) /\ i + 1 < j + 1
          BY <1>0
        <5> QED
          BY <3>1, <4>1, <5>1
      <4>3. Len(received') = 0
        BY <3>1
      <4> QED
        BY <2>1, <2>2, <3>1, <4>1, <4>2, <4>3 DEF ConnRising
    <3> QED
      BY <3>2, <3>3
  <2>7. ConnComplete'
    BY <1>a, <2>1, <2>5 DEF ConnComplete, InHand
  <2> QED
    BY <2>3, <2>4, <2>6, <2>7 DEF ConnInv
<1>4. CASE ReadEvent
  <2> DEFINE n == Len(pipe)
             m == Len(received)
  <2>1. /\ client = "streaming" /\ pipe # <<>> /\ ~midFrame
        /\ received' = Append(received, Head(pipe)) /\ pipe' = Tail(pipe)
        /\ UNCHANGED <<handler, since, skipped, client, midFrame>>
    BY <1>4 DEF ReadEvent, clientVars
  <2>2. FirstEvent = 1 /\ FirstEvent' = 1
    BY <2>1 DEF FirstEvent
  <2>3. /\ received' \in Seq(Nat) /\ Len(received') = m + 1 /\ received'[m + 1] = pipe[1]
        /\ \A i \in 1 .. m : received'[i] = received[i]
        /\ pipe' \in Seq(Nat) /\ Len(pipe') = n - 1 /\ n \in Nat \ {0} /\ m \in Nat
        /\ \A j \in 1 .. n - 1 : pipe'[j] = pipe[j + 1]
    BY <1>0, <1>b, <2>1
  <2>4. ConnTypeOK'
    BY <1>0, <2>1, <2>3 DEF ConnTypeOK
  <2>5. ConnStages'
    <3>1. handler.at \notin {"ack", "subscribe"}
      BY <1>0, <1>a, <2>1, <2>2, <2>3 DEF ConnStages
    <3> QED
      BY <2>1, <3>1 DEF ConnStages, Out
  <2>6. \A x : Seen(x)' <=> Seen(x)
    <3>1. ASSUME NEW x, Seen(x) PROVE Seen(x)'
      <4>1. CASE \E i \in 1 .. m : received[i] = x
        <5>1. PICK i \in 1 .. m : received[i] = x
          BY <4>1
        <5>2. i \in 1 .. m + 1 /\ received'[i] = x
          BY <2>3, <5>1
        <5> QED
          BY <2>3, <5>2 DEF Seen
      <4>2. CASE \E j \in 1 .. n : pipe[j] = x
        <5>1. PICK j \in 1 .. n : pipe[j] = x
          BY <4>2
        <5>2. CASE j = 1
          <6>1. m + 1 \in 1 .. m + 1 /\ received'[m + 1] = x
            BY <2>3, <5>1, <5>2
          <6> QED
            BY <2>3, <6>1 DEF Seen
        <5>3. CASE j # 1
          <6>1. j - 1 \in 1 .. n - 1 /\ (j - 1) + 1 = j
            BY <2>3, <5>3
          <6>2. pipe'[j - 1] = x
            BY <2>3, <5>1, <6>1
          <6> QED
            BY <2>2, <2>3, <6>1, <6>2 DEF Seen
        <5> QED
          BY <5>2, <5>3
      <4> QED
        BY <2>2, <3>1, <4>1, <4>2 DEF Seen
    <3>2. ASSUME NEW x, Seen(x)' PROVE Seen(x)
      <4>1. CASE \E i \in 1 .. m + 1 : received'[i] = x
        <5>1. PICK i \in 1 .. m + 1 : received'[i] = x
          BY <4>1
        <5>2. CASE i = m + 1
          <6>1. 1 \in 1 .. n /\ pipe[1] = x
            BY <2>3, <5>1, <5>2
          <6> QED
            BY <2>2, <6>1 DEF Seen
        <5>3. CASE i # m + 1
          <6>1. i \in 1 .. m /\ received[i] = x
            BY <2>3, <5>1, <5>3
          <6> QED
            BY <6>1 DEF Seen
        <5> QED
          BY <5>2, <5>3
      <4>2. CASE \E j \in 1 .. n - 1 : pipe'[j] = x
        <5>1. PICK j \in 1 .. n - 1 : pipe'[j] = x
          BY <4>2
        <5>2. j + 1 \in 1 .. n /\ pipe[j + 1] = x
          BY <2>3, <5>1
        <5> QED
          BY <2>2, <5>2 DEF Seen
      <4> QED
        BY <2>2, <2>3, <3>2, <4>1, <4>2 DEF Seen
    <3> QED
      BY <3>1, <3>2
  <2>7. ConnRising'
    <3>1. /\ \A i, j \in 1 .. m : i < j => received[i] < received[j]
          /\ \A i, j \in 1 .. n : i < j => pipe[i] < pipe[j]
          /\ \A i \in 1 .. m, j \in 1 .. n : received[i] < pipe[j]
          /\ handler.at = "write" => handler.event = handler.pos
      BY <1>a, <2>1, <2>2 DEF ConnRising
    <3>2. 1 \in 1 .. n /\ \A j \in 1 .. n - 1 : j + 1 \in 1 .. n /\ j + 1 # 1
      BY <2>3
    <3>3. \A i \in 1 .. m + 1 : (i \in 1 .. m /\ received'[i] = received[i])
                                \/ (i = m + 1 /\ received'[i] = pipe[1])
      BY <2>3
    <3>4. \A i, j \in 1 .. m + 1 : i < j => received'[i] < received'[j]
      <4> TAKE i, j \in 1 .. m + 1
      <4> HAVE i < j
      <4>1. i \in 1 .. m
        BY <2>3
      <4>2. received'[i] = received[i]
        BY <2>3, <4>1
      <4>3. CASE j \in 1 .. m
        BY <2>3, <3>1, <4>1, <4>2, <4>3
      <4>4. CASE j = m + 1
        BY <2>3, <3>1, <3>2, <4>1, <4>2, <4>4
      <4> QED
        BY <3>3, <4>3, <4>4
    <3>5. \A i, j \in 1 .. n - 1 : i < j => pipe'[i] < pipe'[j]
      <4> TAKE i, j \in 1 .. n - 1
      <4> HAVE i < j
      <4>1. i + 1 \in 1 .. n /\ j + 1 \in 1 .. n /\ i + 1 < j + 1
        BY <2>3
      <4> QED
        BY <2>3, <3>1, <4>1
    <3>6. \A i \in 1 .. m + 1, j \in 1 .. n - 1 : received'[i] < pipe'[j]
      <4> TAKE i \in 1 .. m + 1, j \in 1 .. n - 1
      <4>1. pipe'[j] = pipe[j + 1] /\ j + 1 \in 1 .. n /\ 1 < j + 1
        BY <2>3
      <4>2. CASE i \in 1 .. m
        BY <2>3, <3>1, <4>1, <4>2
      <4>3. CASE i = m + 1
        BY <2>3, <3>1, <3>2, <4>1, <4>3
      <4> QED
        BY <3>3, <4>2, <4>3
    <3> QED
      BY <2>1, <2>2, <2>3, <3>1, <3>4, <3>5, <3>6 DEF ConnRising
  <2>8. ConnComplete'
    BY <1>a, <2>1, <2>6 DEF ConnComplete, InHand
  <2> QED
    BY <2>4, <2>5, <2>7, <2>8 DEF ConnInv
\* The middle of a frame, until the connection is over.
<1>4a. ASSUME midFrame', client = "streaming",
              UNCHANGED <<client, handler, received, skipped, since>>,
              pipe # <<>>, pipe' \in {pipe, Tail(pipe)}
       PROVE  ConnInv'
  <2>1. handler.at \notin {"ack", "subscribe"}
    BY <1>0, <1>a, <1>b, <1>4a DEF ConnStages, FirstEvent
  <2>2. ConnTypeOK'
    <3>1. pipe' \in Seq(Nat)
      BY <1>0, <1>b, <1>4a
    <3>2. midFrame' \in BOOLEAN
      BY <1>0, <1>4a
    <3> QED
      BY <1>0, <1>4a, <3>1, <3>2 DEF ConnTypeOK
  <2>3. ConnStages'
    BY <1>4a, <2>1 DEF ConnStages, Out
  <2>4. ConnRising'
    BY <1>a, <1>4a DEF ConnRising
  <2>5. ConnComplete'
    BY <1>4a DEF ConnComplete
  <2> QED
    BY <2>2, <2>3, <2>4, <2>5 DEF ConnInv
<1>5. CASE ReadTimesOut
  <2>1. midFrame' = TRUE /\ client = "streaming" /\ pipe # <<>> /\ pipe' = pipe
        /\ UNCHANGED <<client, handler, received, skipped, since>>
    BY <1>5 DEF ReadTimesOut, connection
  <2> QED
    BY <1>4a, <2>1
<1>6. CASE ReadMidFrame /\ ~BackOff
  <2>1. midFrame /\ midFrame' = midFrame /\ client = "streaming" /\ pipe # <<>>
        /\ pipe' = Tail(pipe) /\ UNCHANGED <<client, handler, received, skipped, since>>
    BY <1>6 DEF ReadMidFrame
  <2> QED
    BY <1>4a, <2>1
<1>7. CASE Awake
  <2>1. client = "sleeping" /\ client' = "connecting"
        /\ UNCHANGED <<handler, pipe, since, received, skipped, midFrame>>
    BY <1>7 DEF Awake, connection
  <2>2. FirstEvent' = FirstEvent /\ client \in Out /\ client' \in Out
    BY <2>1 DEF FirstEvent, Out
  <2>3. ConnTypeOK'
    BY <1>0, <2>1, <2>2 DEF ConnTypeOK
  <2>4. ConnStages'
    BY <1>a, <2>1, <2>2 DEF ConnStages
  <2>5. ConnRising' /\ ConnComplete'
    BY <1>a, <2>1, <2>2 DEF ConnRising, ConnComplete, Seen, InHand
  <2> QED
    BY <2>3, <2>4, <2>5 DEF ConnInv
<1> QED
  BY <1>1, <1>2, <1>3, <1>4, <1>5, <1>6, <1>7 DEF ClientStep, ReadEof

\* The daemon goes, or not.
LEMMA LossKeeps ==
    ASSUME ConnInv, ConnectionLost \/ UNCHANGED subVars
    PROVE  ConnInv'
<1>a. ConnTypeOK /\ ConnStages /\ ConnRising /\ ConnComplete
  BY DEF ConnInv
<1>1. CASE UNCHANGED subVars
  BY <1>a, <1>1 DEF subVars, connection, clientVars, ConnInv, ConnTypeOK, ConnStages,
                    ConnRising, ConnComplete, Seen, InHand, FirstEvent
<1>2. CASE handler' = NoHandler /\ UNCHANGED <<pipe, since, received, skipped, clientVars>>
  <2>1. /\ handler'.at = "none" /\ FirstEvent' = FirstEvent
        /\ UNCHANGED <<pipe, since, received, skipped, client, midFrame>>
        /\ handler' \in [at : {"none", "ack", "subscribe", "recv", "write"},
                         pos : Nat, event : Nat]
    BY <1>2 DEF NoHandler, FirstEvent, clientVars
  <2>2. ConnTypeOK'
    BY <1>a, <2>1 DEF ConnTypeOK
  <2>3. ConnStages'
    BY <1>a, <1>2, <2>1 DEF ConnStages
  <2>4. ConnRising'
    BY <1>a, <2>1 DEF ConnRising
  <2>5. ConnComplete'
    BY <2>1 DEF ConnComplete
  <2> QED
    BY <2>2, <2>3, <2>4, <2>5 DEF ConnInv
<1> QED
  BY <1>1, <1>2 DEF ConnectionLost

\* The events of a connection are all there.
LEMMA ConnContiguous ==
    ASSUME ConnInv
    PROVE  FeedIsContiguous
<1>0. /\ pipe \in Seq(Nat) /\ received \in Seq(Nat) /\ Len(pipe) \in Nat
      /\ Len(received) \in Nat /\ handler.pos \in Nat /\ handler.event \in Nat
      /\ since \in Nat /\ skipped \in SUBSET Nat
  BY DEF ConnInv, ConnTypeOK
<1>1. \A i \in 2 .. Len(received) : received[i - 1] < received[i]
  BY <1>0 DEF ConnInv, ConnRising
<1> DEFINE inHand == IF handler.at = "write" THEN {handler.event} ELSE {}
           events == ToSet(received) \cup (ToSet(pipe) \ {Ack}) \cup inHand
<1>2. ASSUME handler.at \in {"recv", "write"}, client = "streaming", ~midFrame
      PROVE  events \cup skipped = since + 1 .. handler.pos /\ events \cap skipped = {}
  <2>1. /\ \A x \in Nat : Seen(x) \/ InHand(x) \/ x \in skipped <=>
                            since < x /\ x <= handler.pos
        /\ \A x \in Nat : ~((Seen(x) \/ InHand(x)) /\ x \in skipped)
    BY <1>2 DEF ConnInv, ConnComplete
  <2>2. FirstEvent = 1
    BY <1>2 DEF FirstEvent
  <2>3. \A x : Seen(x) <=> x \in ToSet(received) \/ x \in ToSet(pipe)
    BY <1>0, <2>2 DEF Seen, ToSet
  <2>4. \A x : InHand(x) <=> x \in inHand
    BY DEF InHand
  <2>5. \A x : Seen(x) \/ InHand(x) => x \in Nat
    BY <1>0, <2>2 DEF Seen, InHand
  <2>6. ~Seen(Ack)
    <3>1. Seen(0) => since < 0
      BY <2>1
    <3> QED
      BY <1>0, <3>1 DEF Ack
  <2>7. \A x : x \in events <=> Seen(x) \/ InHand(x)
    BY <2>3, <2>4, <2>6
  <2> HIDE DEF events
  <2>8. \A x : x \in since + 1 .. handler.pos <=> x \in Nat /\ since < x /\ x <= handler.pos
    BY <1>0
  <2> QED
    BY <1>0, <2>1, <2>5, <2>7, <2>8
<1> QED
  BY <1>1, <1>2 DEF FeedIsContiguous

\* What a client takes from one connection is the bus from its subscription
\* on, in order, less what a lag has passed over.
THEOREM FeedContiguous == FeedSpec => []FeedIsContiguous
<1> DEFINE Inv == FeedInv /\ ConnInv
<1>1. FeedInit => Inv
  BY FeedInvInit, ConnInit DEF FeedInit
<1>2. Inv /\ [FeedNext]_allVars => Inv'
  <2> SUFFICES ASSUME FeedInv, ConnInv, [FeedNext]_allVars
               PROVE  FeedInv' /\ ConnInv'
    OBVIOUS
  <2>1. FeedInv'
    <3>1. [PMNext]_pmVars
      BY DEF FeedNext, allVars
    <3> QED
      BY <3>1, FeedInvStep
  <2>2. Len(feed) \in Nat
    BY DEF FeedInv, FeedTypeOK
  <2>3. HandlerStep \/ ClientStep \/ ReadTimesOut \/ ConnectionLost \/ UNCHANGED subVars
    BY DEF FeedNext, SubStep, allVars
  <2> QED
    BY <2>1, <2>2, <2>3, HandlerKeeps, ClientKeeps, LossKeeps
<1>3. Inv => FeedIsContiguous
  BY ConnContiguous
<1> QED
  BY <1>1, <1>2, <1>3, PTL DEF FeedSpec
=============================================================================
