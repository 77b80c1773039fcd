------------------------------- MODULE Recording -------------------------------
(***************************************************************************)
(* The recording protocol: `smeltr record', the child it holds at a gate,  *)
(* the daemon's handler of its connection, the probes, and the daemon      *)
(* stopping, dying and starting again (crates/smeltr-cli: record.rs;       *)
(* crates/smeltr-daemon: server.rs, probes.rs, main.rs, recovery.rs).      *)
(*                                                                         *)
(* A client stands for one `smeltr record' and names its child's pid.  The *)
(* handler's steps are those between two awaits.  What the router does     *)
(* within one step is SessionRouter's matter.                              *)
(***************************************************************************)
EXTENDS Integers, FiniteSets

CONSTANTS
    Clients,
    MaxStops        \* bound: times the daemon stops or dies

ASSUME RecordingAssumption == MaxStops \in Nat

VARIABLES
    client,         \* where record stands
    told,           \* what record told its user: complete, incomplete, ...
    hooked,         \* clients that inject the Metal hook
    gate,           \* the pipe to the child: open, go (byte written), eof
    child,          \* the child: gated, running, exited, or unrun
    ring,           \* the ring file
    request, reply, \* the message in flight to and from the daemon
    conn,           \* where the handler of the connection stands
    attached,       \* what the connection attached and has not detached
    session,        \* the session on disk, and how it ended
    registered, probes, hooks, \* clients known to the router, to the runtime
    daemon,         \* up, stopping, quiet, drained, down
    stops

clientVars == <<client, told, hooked, gate>>
wire == <<request, reply>>
attachments == <<session, registered, probes, hooks>>
daemonVars == <<daemon, stops>>
vars == <<clientVars, child, ring, wire, conn, attached, attachments,
          daemonVars>>

Init ==
    /\ client = [c \in Clients |-> "new"]
    /\ told = [c \in Clients |-> "nothing"]
    /\ hooked = {}
    /\ gate = [c \in Clients |-> "none"]
    /\ child = [c \in Clients |-> "none"]
    /\ ring = [c \in Clients |-> "none"]
    /\ request = [c \in Clients |-> "none"]
    /\ reply = [c \in Clients |-> "none"]
    /\ conn = [c \in Clients |-> "none"]
    /\ attached = [c \in Clients |-> {}]
    /\ session = [c \in Clients |-> "none"]
    /\ registered = {} /\ probes = {} /\ hooks = {}
    /\ daemon = "up" /\ stops = 0

Set(f, c, v) == [f EXCEPT ![c] = v]
Closed(c) == client[c] \in {"over", "killed"}   \* the client's end
Lost(c) == conn[c] = "lost"                     \* the daemon's end
ChildOver(c) == child[c] \in {"exited", "unrun"}

-----------------------------------------------------------------------------
(* record.                                                                 *)

\* The connection precedes the ring: a daemon that boots finds no ring of a
\* client it will serve.
Connect(c) ==
    /\ client[c] = "new" /\ daemon = "up"
    /\ client' = Set(client, c, "connected")
    /\ conn' = Set(conn, c, "read")
    /\ UNCHANGED <<told, hooked, gate, child, ring, wire, attached,
                   attachments, daemonVars>>

\* create_ring, unless the command cannot take the hook or --no-hook.
CreateRing(c) ==
    /\ client[c] = "connected"
    /\ client' = Set(client, c, "provisioned")
    /\ \/ ring' = Set(ring, c, "file") /\ hooked' = hooked \cup {c}
       \/ UNCHANGED <<ring, hooked>>
    /\ UNCHANGED <<told, gate, child, wire, conn, attached, attachments,
                   daemonVars>>

\* The child is spawned at its gate and AttachScopedProbes sent.
Spawn(c) ==
    /\ client[c] = "provisioned"
    /\ client' = Set(client, c, "attaching")
    /\ child' = Set(child, c, "gated") /\ gate' = Set(gate, c, "open")
    /\ request' = Set(request, c, "AttachScopedProbes")
    /\ UNCHANGED <<told, hooked, ring, reply, conn, attached, attachments,
                   daemonVars>>

AttachAnswered(c) ==
    /\ client[c] = "attaching" /\ reply[c] # "none"
    /\ reply' = Set(reply, c, "none")
    /\ \/ /\ reply[c] = "Ack" /\ c \in hooked
          /\ client' = Set(client, c, "hooking")
          /\ request' = Set(request, c, "AttachMetalHook")
          /\ UNCHANGED gate
       \/ /\ reply[c] = "Ack" /\ c \notin hooked
          /\ client' = Set(client, c, "ready")
          /\ UNCHANGED <<request, gate>>
       \/ /\ reply[c] = "Error"
          /\ client' = Set(client, c, "refusing")
          /\ gate' = Set(gate, c, "eof")
          /\ UNCHANGED request
    /\ UNCHANGED <<told, hooked, child, ring, conn, attached, attachments,
                   daemonVars>>

\* The daemon answers AttachMetalHook with nothing but Ack.
HookAnswered(c) ==
    /\ client[c] = "hooking" /\ reply[c] = "Ack"
    /\ reply' = Set(reply, c, "none")
    /\ client' = Set(client, c, "ready")
    /\ UNCHANGED <<told, hooked, gate, child, ring, request, conn, attached,
                   attachments, daemonVars>>

\* Refused: record waits for the child, removes the ring and fails.
Refused(c) ==
    /\ client[c] = "refusing" /\ ChildOver(c)
    /\ client' = Set(client, c, "over") /\ told' = Set(told, c, "refused")
    /\ ring' = IF c \in hooked THEN Set(ring, c, "removed") ELSE ring
    /\ UNCHANGED <<hooked, gate, child, wire, conn, attached, attachments,
                   daemonVars>>

\* `?' on a request the daemon does not answer: record fails at once, and the
\* gate closes with it.
AttachLost(c) ==
    /\ client[c] \in {"attaching", "hooking"} /\ Lost(c) /\ reply[c] = "none"
    /\ client' = Set(client, c, "over") /\ told' = Set(told, c, "failed")
    /\ gate' = Set(gate, c, "eof")
    /\ UNCHANGED <<hooked, child, ring, wire, conn, attached, attachments,
                   daemonVars>>

\* The go byte; a child that died at its gate makes the write fail.
Go(c) ==
    /\ client[c] = "ready"
    /\ \/ /\ ~ChildOver(c)
          /\ client' = Set(client, c, "waiting") /\ gate' = Set(gate, c, "go")
          /\ UNCHANGED told
       \/ /\ ChildOver(c)
          /\ client' = Set(client, c, "over") /\ gate' = Set(gate, c, "eof")
          /\ told' = Set(told, c, "failed")
    /\ UNCHANGED <<hooked, child, ring, wire, conn, attached, attachments,
                   daemonVars>>

\* The child is gone: detach the hook, if there is one, then the probes.
Waited(c) ==
    /\ client[c] = "waiting" /\ ChildOver(c)
    /\ told' = Set(told, c, "complete")
    /\ IF c \in hooked
       THEN /\ client' = Set(client, c, "unhooking")
            /\ request' = Set(request, c, "DetachMetalHook")
       ELSE /\ client' = Set(client, c, "detaching")
            /\ request' = Set(request, c, "DetachScopedProbes")
    /\ UNCHANGED <<hooked, gate, child, ring, reply, conn, attached,
                   attachments, daemonVars>>

\* Mutant: a request that fails counts as answered.
AnsweredAnyhow(c) ==
    /\ reply[c] = "Ack" \/ Lost(c)
    /\ reply' = Set(reply, c, "none")
    /\ UNCHANGED told

\* Either detach is answered, or the daemon is gone and the run incomplete.
Answered(c) ==
    \/ /\ reply[c] = "Ack" /\ reply' = Set(reply, c, "none")
       /\ UNCHANGED told
    \/ /\ Lost(c) /\ reply[c] = "none" /\ UNCHANGED reply
       /\ told' = Set(told, c, "incomplete")

Unhooked(c) ==
    /\ client[c] = "unhooking" /\ Answered(c)
    /\ client' = Set(client, c, "detaching")
    /\ request' = Set(request, c, "DetachScopedProbes")
    /\ UNCHANGED <<hooked, gate, child, ring, conn, attached, attachments,
                   daemonVars>>

Detached(c) ==
    /\ client[c] = "detaching" /\ Answered(c)
    /\ client' = Set(client, c, "cleaning")
    /\ UNCHANGED <<hooked, gate, child, ring, request, conn, attached,
                   attachments, daemonVars>>

RemoveRing(c) ==
    /\ client[c] = "cleaning" /\ client' = Set(client, c, "over")
    /\ ring' = IF c \in hooked THEN Set(ring, c, "removed") ELSE ring
    /\ UNCHANGED <<told, hooked, gate, child, wire, conn, attached,
                   attachments, daemonVars>>

\* SIGKILL, or a signal before the handlers of one are installed; a byte
\* already in the pipe stays there.
Kill(c) ==
    /\ client[c] # "new" /\ ~Closed(c)
    /\ client' = Set(client, c, "killed") /\ told' = Set(told, c, "nothing")
    /\ gate' = IF gate[c] = "open" THEN Set(gate, c, "eof") ELSE gate
    /\ reply' = Set(reply, c, "none")
    /\ UNCHANGED <<hooked, child, ring, request, conn, attached, attachments,
                   daemonVars>>

-----------------------------------------------------------------------------
(* The child.                                                              *)

ChildTo(c, state) ==
    /\ child' = Set(child, c, state)
    /\ UNCHANGED <<clientVars, ring, wire, conn, attached, attachments,
                   daemonVars>>

\* exec_gate.
GateOpens(c) == child[c] = "gated" /\ gate[c] = "go" /\ ChildTo(c, "running")
GateCloses(c) == child[c] = "gated" /\ gate[c] = "eof" /\ ChildTo(c, "unrun")
ChildDies(c) == child[c] = "gated" /\ ChildTo(c, "unrun")
ChildExits(c) == child[c] = "running" /\ ChildTo(c, "exited")

-----------------------------------------------------------------------------
(* The handler of a connection.                                            *)

\* What is attached is listed before the request is handled.
NowAttached(c) ==
    CASE request[c] = "AttachScopedProbes" -> attached[c] \cup {"scoped"}
      [] request[c] = "AttachMetalHook" -> attached[c] \cup {"hook"}
      [] request[c] = "DetachScopedProbes" -> attached[c] \ {"scoped"}
      [] request[c] = "DetachMetalHook" -> attached[c] \ {"hook"}

ReadRequest(c) ==
    /\ conn[c] = "read" /\ request[c] # "none"
    /\ conn' = Set(conn, c, request[c])
    /\ attached' = Set(attached, c, NowAttached(c))
    /\ request' = Set(request, c, "none")
    /\ UNCHANGED <<clientVars, child, ring, reply, attachments, daemonVars>>

\* The answer; a client that is gone ends the connection.
Answer(c, answer) ==
    IF Closed(c)
    THEN conn' = Set(conn, c, "ended") /\ UNCHANGED reply
    ELSE conn' = Set(conn, c, "read") /\ reply' = Set(reply, c, answer)

\* The router first, so that it knows the pid before a probe emits.
AttachScoped(c) ==
    /\ conn[c] = "AttachScopedProbes"
    /\ session' = Set(session, c, "open")
    /\ registered' = registered \cup {c}
    /\ conn' = Set(conn, c, "startProbes")
    /\ UNCHANGED <<clientVars, child, ring, wire, attached, probes, hooks,
                   daemonVars>>

\* The session could not be opened.
AttachRefused(c) ==
    /\ conn[c] = "AttachScopedProbes" /\ Answer(c, "Error")
    /\ UNCHANGED <<clientVars, child, ring, request, attached, attachments,
                   daemonVars>>

StartProbes(c) ==
    /\ conn[c] = "startProbes" /\ Answer(c, "Ack")
    /\ probes' = probes \cup {c}
    /\ UNCHANGED <<clientVars, child, ring, request, attached, session,
                   registered, hooks, daemonVars>>

AttachMetalHook(c) ==
    /\ conn[c] = "AttachMetalHook" /\ Answer(c, "Ack")
    /\ hooks' = hooks \cup {c}
    /\ UNCHANGED <<clientVars, child, ring, request, attached, session,
                   registered, probes, daemonVars>>

DetachMetalHook(c) ==
    /\ conn[c] = "DetachMetalHook" /\ Answer(c, "Ack")
    /\ hooks' = hooks \ {c}
    /\ UNCHANGED <<clientVars, child, ring, request, attached, session,
                   registered, probes, daemonVars>>

StopProbes(c) ==
    /\ conn[c] = "DetachScopedProbes"
    /\ probes' = probes \ {c}
    /\ conn' = Set(conn, c, "detach")
    /\ UNCHANGED <<clientVars, child, ring, wire, attached, session,
                   registered, hooks, daemonVars>>

\* detach_scoped of the router: nothing for a pid it does not know.
End(c, how) ==
    /\ session' = IF c \in registered THEN Set(session, c, how) ELSE session
    /\ registered' = registered \ {c}

\* Acknowledged whether the router knew the pid or not.
DetachScoped(c) ==
    /\ conn[c] = "detach" /\ Answer(c, "Ack")
    /\ End(c, "exitStatus")
    /\ UNCHANGED <<clientVars, child, ring, request, attached, probes, hooks,
                   daemonVars>>

\* End of file.
Disconnected(c) ==
    /\ conn[c] = "read" /\ request[c] = "none" /\ Closed(c)
    /\ conn' = Set(conn, c, "ended")
    /\ UNCHANGED <<clientVars, child, ring, wire, attached, attachments,
                   daemonVars>>

\* Mutant: detach at once.
AwaitChildNot(c) ==
    /\ conn[c] = "ended"
    /\ conn' = Set(conn, c, "autoUnhook")
    /\ UNCHANGED <<clientVars, child, ring, wire, attached, attachments,
                   daemonVars>>

\* What is left attached lasts as long as the process.
AwaitChild(c) ==
    /\ conn[c] = "ended"
    /\ attached[c] = {} \/ ChildOver(c)
    /\ conn' = Set(conn, c, "autoUnhook")
    /\ UNCHANGED <<clientVars, child, ring, wire, attached, attachments,
                   daemonVars>>

AutoUnhook(c) ==
    /\ conn[c] = "autoUnhook"
    /\ IF "hook" \in attached[c]
       THEN hooks' = hooks \ {c} /\ conn' = Set(conn, c, "autoRemoveRing")
       ELSE UNCHANGED hooks /\ conn' = Set(conn, c, "autoStopProbes")
    /\ UNCHANGED <<clientVars, child, ring, wire, attached, session,
                   registered, probes, daemonVars>>

AutoRemoveRing(c) ==
    /\ conn[c] = "autoRemoveRing"
    /\ ring' = Set(ring, c, "removed")
    /\ conn' = Set(conn, c, "autoStopProbes")
    /\ UNCHANGED <<clientVars, child, wire, attached, attachments, daemonVars>>

\* Mutant: the session stays registered.
AutoStopProbesOnly(c) ==
    /\ conn[c] = "autoStopProbes"
    /\ probes' = probes \ {c} /\ conn' = Set(conn, c, "closed")
    /\ UNCHANGED <<clientVars, child, ring, wire, attached, session,
                   registered, hooks, daemonVars>>

AutoStopProbes(c) ==
    /\ conn[c] = "autoStopProbes"
    /\ IF "scoped" \in attached[c]
       THEN probes' = probes \ {c} /\ conn' = Set(conn, c, "autoDetach")
       ELSE UNCHANGED probes /\ conn' = Set(conn, c, "closed")
    /\ UNCHANGED <<clientVars, child, ring, wire, attached, session,
                   registered, hooks, daemonVars>>

AutoDetach(c) ==
    /\ conn[c] = "autoDetach" /\ conn' = Set(conn, c, "closed")
    /\ End(c, "unknownStatus")
    /\ UNCHANGED <<clientVars, child, ring, wire, attached, probes, hooks,
                   daemonVars>>

-----------------------------------------------------------------------------
(* The daemon.  server_task.abort() ends the accept loop, not the handlers. *)

Stop ==
    /\ daemon = "up" /\ stops < MaxStops
    /\ daemon' = "stopping" /\ stops' = stops + 1
    /\ UNCHANGED <<clientVars, child, ring, wire, conn, attached, attachments>>

\* ProbeRuntime::shutdown.
ShutdownProbes ==
    /\ daemon = "stopping" /\ daemon' = "quiet"
    /\ probes' = {} /\ hooks' = {}
    /\ UNCHANGED <<clientVars, child, ring, wire, conn, attached, session,
                   registered, stops>>

FinalizeAll ==
    /\ daemon = "quiet" /\ daemon' = "drained"
    /\ session' = [c \in Clients |-> IF c \in registered THEN "shutdown"
                                     ELSE session[c]]
    /\ registered' = {}
    /\ UNCHANGED <<clientVars, child, ring, wire, conn, attached, probes,
                   hooks, stops>>

\* The process is gone, its connections with it.
Gone ==
    /\ daemon' = "down"
    /\ conn' = [c \in Clients |-> IF conn[c] \in {"none", "closed"}
                                  THEN conn[c] ELSE "lost"]
    /\ request' = [c \in Clients |-> "none"]
    /\ registered' = {} /\ probes' = {} /\ hooks' = {}
    /\ UNCHANGED <<clientVars, child, ring, reply, attached, session>>

Exit == daemon = "drained" /\ Gone /\ UNCHANGED stops
Crash == /\ daemon # "down" /\ stops < MaxStops
         /\ stops' = stops + 1 /\ Gone

\* Mutant: only the rings.
RecoveredNot(s) == s

\* recover_orphaned_sessions.
Recovered(s) == IF s = "open" THEN "recovered" ELSE s

\* The next daemon recovers the sessions left open and removes the rings
\* before it serves anyone.
Boot ==
    /\ daemon = "down" /\ daemon' = "up"
    /\ session' = [c \in Clients |-> Recovered(session[c])]
    /\ ring' = [c \in Clients |-> IF ring[c] = "file" THEN "removed"
                                  ELSE ring[c]]
    /\ UNCHANGED <<clientVars, child, wire, conn, attached, registered,
                   probes, hooks, stops>>

-----------------------------------------------------------------------------

Record(c) ==
    \/ CreateRing(c) \/ Spawn(c) \/ AttachAnswered(c) \/ HookAnswered(c)
    \/ Refused(c) \/ AttachLost(c) \/ Go(c) \/ Waited(c) \/ Unhooked(c)
    \/ Detached(c) \/ RemoveRing(c)

ExecGate(c) == GateOpens(c) \/ GateCloses(c)

Handle(c) ==
    \/ ReadRequest(c) \/ AttachScoped(c) \/ AttachRefused(c) \/ StartProbes(c)
    \/ AttachMetalHook(c) \/ DetachMetalHook(c) \/ StopProbes(c)
    \/ DetachScoped(c) \/ Disconnected(c) \/ AwaitChild(c) \/ AutoUnhook(c)
    \/ AutoRemoveRing(c) \/ AutoStopProbes(c) \/ AutoDetach(c)

Daemon == ShutdownProbes \/ FinalizeAll \/ Exit

Next ==
    \/ \E c \in Clients : \/ Connect(c) \/ Record(c) \/ Kill(c)
                          \/ ExecGate(c) \/ ChildDies(c) \/ ChildExits(c)
                          \/ Handle(c)
    \/ Stop \/ Daemon \/ Crash \/ Boot

Spec == Init /\ [][Next]_vars

\* As long as a process that is not killed can go on, some process does, and a
\* daemon that is gone is started again (launchd, KeepAlive).  The command may
\* run for ever.  No process here goes on for ever by itself: this is as good
\* as fairness to each.
Going == \/ \E c \in Clients : Record(c) \/ ExecGate(c) \/ Handle(c)
         \/ Daemon \/ Boot
Fairness == WF_vars(Going)

FairSpec == Spec /\ Fairness

-----------------------------------------------------------------------------
(* Properties.                                                             *)

\* The command runs only once the daemon has opened its session; record says
\* "refused" only of a command that never ran (record.rs: "The command starts
\* only once the daemon has accepted the session").
RunsOnlyWhenRecorded ==
    \A c \in Clients :
        /\ child[c] \in {"running", "exited"} => session[c] # "none"
        /\ told[c] = "refused" => child[c] = "unrun" /\ session[c] = "none"

\* As long as the daemon it attached to serves, a command that runs is known
\* to the router and observed by its probes and its hook, even when record
\* has been killed.
RunIsObserved ==
    \A c \in Clients :
        child[c] = "running" /\ daemon = "up" /\ ~Lost(c)
            => /\ c \in registered /\ session[c] = "open"
               /\ c \in probes /\ (c \in hooked => c \in hooks)

\* The command runs recorded, from its first instruction to its last.
RunIsRecorded == RunsOnlyWhenRecorded /\ RunIsObserved

\* When record reports no loss, the session has its command's exit status,
\* unless the daemon was shutting down.
CompleteMeansExitStatus ==
    \A c \in Clients :
        told[c] = "complete" /\ client[c] \in {"cleaning", "over"}
            => session[c] \in {"exitStatus", "shutdown"}

\* The ring of a hook being drained is not removed, whoever removes rings:
\* record, the handler of a client that is gone, a daemon that boots.
DrainedRingExists == \A c \in hooks : ring[c] = "file"

\* A handler that is through has left nothing of its connection behind.
NothingLeftBehind ==
    \A c \in Clients : conn[c] = "closed" =>
        /\ c \notin registered \cup probes \cup hooks
        /\ session[c] # "open"
        /\ "hook" \in attached[c] => ring[c] = "removed"

\* Rings and handlers are cleaned up, neither too early nor too late.
NothingLeftNorTakenEarly == DrainedRingExists /\ NothingLeftBehind

\* Once the command is over, record returns (or is killed) and the session of
\* the command ends, whoever was killed or stopped meanwhile.  Both are final,
\* so again and again no recording is pending.
Pending(c) == ChildOver(c) /\ (~Closed(c) \/ session[c] = "open")
RecordingEnds == []<>(\A c \in Clients : ~Pending(c))
=============================================================================
