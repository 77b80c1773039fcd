--------------------------- MODULE RecordingProofs ---------------------------
(***************************************************************************)
(* Proofs about the recording protocol for any number of clients and any   *)
(* number of stops, crashes and starts of the daemon.                      *)
(*                                                                         *)
(* Clients share nothing but the daemon, so the inductive invariant is     *)
(* about one client at a time and about the daemon; `conn' is the handler, *)
(* which goes on when record has been killed, so what it still has to do   *)
(* is read off the handler's place and off what it has attached.           *)
(***************************************************************************)
EXTENDS Recording, TLAPS

Requests == {"AttachScopedProbes", "AttachMetalHook", "DetachMetalHook",
             "DetachScopedProbes"}
Ends == {"exitStatus", "unknownStatus", "shutdown", "recovered"}

\* Places of record: before the child, waiting for an answer, and past it.
Asking == {"attaching", "hooking", "unhooking", "detaching"}
Places == {"new", "connected", "provisioned", "refusing", "ready", "waiting",
           "cleaning", "over", "killed"} \cup Asking
Cleanup == {"ended", "autoUnhook", "autoRemoveRing", "autoStopProbes", "autoDetach"}
HandlerPlaces == {"none", "read", "startProbes", "detach", "closed", "lost"}
                    \cup Requests \cup Cleanup

\* Type invariant of the protocol.
TypeOK ==
    /\ client \in [Clients -> Places]
    /\ told \in [Clients -> {"nothing", "refused", "failed", "complete", "incomplete"}]
    /\ hooked \subseteq Clients
    /\ gate \in [Clients -> {"none", "open", "go", "eof"}]
    /\ child \in [Clients -> {"none", "gated", "running", "exited", "unrun"}]
    /\ ring \in [Clients -> {"none", "file", "removed"}]
    /\ request \in [Clients -> Requests \cup {"none"}]
    /\ reply \in [Clients -> {"none", "Ack", "Error"}]
    /\ conn \in [Clients -> HandlerPlaces]
    /\ attached \in [Clients -> SUBSET {"scoped", "hook"}]
    /\ session \in [Clients -> {"none", "open"} \cup Ends]
    /\ registered \subseteq Clients /\ probes \subseteq Clients /\ hooks \subseteq Clients
    /\ daemon \in {"up", "stopping", "quiet", "drained", "down"}
    /\ stops \in Nat

-----------------------------------------------------------------------------
(* The inductive invariant, for one client.                                *)

Unlost(c) == conn[c] # "lost"
Known(c) == c \in registered /\ session[c] = "open"
Full(c) == IF c \in hooked THEN {"scoped", "hook"} ELSE {"scoped"}
Unattached(c) == c \notin registered \cup probes \cup hooks

\* What record asks for where it stands, and where its handler serves that.
Asked(c) == CASE client[c] = "attaching" -> "AttachScopedProbes"
              [] client[c] = "hooking" -> "AttachMetalHook"
              [] client[c] = "unhooking" -> "DetachMetalHook"
              [] client[c] = "detaching" -> "DetachScopedProbes"
Serving(c) == CASE client[c] = "attaching" -> {"AttachScopedProbes", "startProbes"}
                [] client[c] = "hooking" -> {"AttachMetalHook"}
                [] client[c] = "unhooking" -> {"DetachMetalHook"}
                [] client[c] = "detaching" -> {"DetachScopedProbes", "detach"}

\* One message at a time: record's question is on its way, with the handler,
\* or answered.
OneMessage(c) ==
    /\ client[c] = "new" => conn[c] = "none" /\ request[c] = "none" /\ reply[c] = "none"
    /\ conn[c] = "none" => client[c] = "new"
    /\ ~Closed(c) /\ client[c] \notin Asking \cup {"new"} =>
         reply[c] = "none" /\ (Unlost(c) => conn[c] = "read" /\ request[c] = "none")
    /\ client[c] \in Asking /\ Unlost(c) =>
         \/ request[c] = Asked(c) /\ conn[c] = "read" /\ reply[c] = "none"
         \/ request[c] = "none" /\ conn[c] \in Serving(c) /\ reply[c] = "none"
         \/ request[c] = "none" /\ conn[c] = "read" /\ reply[c] # "none"
    /\ Closed(c) => reply[c] = "none"
    /\ reply[c] = "Error" => client[c] = "attaching"
    /\ request[c] # "none" => conn[c] \in {"read", "lost"}
    /\ conn[c] \in Cleanup \cup {"closed"} => Closed(c)

\* The child and its gate, by where record stands.
ChildAtGate(c) ==
    /\ client[c] \in {"new", "connected", "provisioned"}
         => child[c] = "none" /\ gate[c] = "none"
    /\ client[c] \in {"attaching", "hooking", "ready"}
         => child[c] \in {"gated", "unrun"} /\ gate[c] = "open"
    /\ client[c] = "refusing" => child[c] \in {"gated", "unrun"} /\ gate[c] = "eof"
    /\ client[c] = "waiting" => child[c] # "none" /\ gate[c] = "go"
    /\ client[c] \in {"unhooking", "detaching", "cleaning"}
         => ChildOver(c) /\ gate[c] = "go"
    /\ Closed(c) => gate[c] # "open"
    /\ child[c] \in {"running", "exited"} => gate[c] = "go"

\* The session is open before the gate is, and is not opened twice.
SessionFirst(c) ==
    /\ gate[c] = "go" => session[c] # "none"
    /\ client[c] \in {"hooking", "ready", "waiting", "unhooking", "detaching", "cleaning"}
         => session[c] # "none"
    /\ reply[c] = "Ack" => session[c] # "none"
    /\ client[c] \in {"new", "connected", "provisioned", "refusing"}
          \/ reply[c] = "Error" => session[c] = "none"
    /\ conn[c] = "startProbes" => session[c] # "none"
    /\ conn[c] = "AttachScopedProbes" \/ (request[c] = "AttachScopedProbes" /\ Unlost(c))
         => session[c] = "none" /\ client[c] \in {"attaching", "killed"}

\* What record has told its user by then.
Telling(c) ==
    /\ told[c] = "refused" => client[c] = "over" /\ child[c] = "unrun"
                              /\ session[c] = "none"
    /\ client[c] \in Places \ {"unhooking", "detaching", "cleaning", "over"}
         => told[c] = "nothing"

\* The list of what is attached, against the handler's place.
Attachments(c) ==
    /\ conn[c] \in {"none", "closed", "lost"} => Unattached(c)
    /\ "scoped" \notin attached[c] => c \notin probes \/ conn[c] = "DetachScopedProbes"
    /\ "scoped" \notin attached[c] =>
         c \notin registered \/ conn[c] \in {"DetachScopedProbes", "detach"}
    /\ "hook" \notin attached[c] => c \notin hooks \/ conn[c] = "DetachMetalHook"
    /\ conn[c] \in {"autoRemoveRing", "autoStopProbes", "autoDetach"} => c \notin hooks
    /\ conn[c] \in {"detach", "autoDetach"} => c \notin probes
    /\ conn[c] = "autoRemoveRing" => "hook" \in attached[c]
    /\ "hook" \in attached[c] /\ conn[c] \in {"autoStopProbes", "autoDetach", "closed"}
         => ring[c] = "removed"
    /\ conn[c] \in {"AttachScopedProbes", "startProbes"} => attached[c] = {"scoped"}
    /\ conn[c] = "AttachMetalHook" => attached[c] = {"scoped", "hook"}
    /\ conn[c] = "DetachMetalHook" => attached[c] = {"scoped"}
    /\ conn[c] \in {"DetachScopedProbes", "detach"} => attached[c] = {}
    /\ Unlost(c) => /\ request[c] = "AttachScopedProbes" => attached[c] = {}
                    /\ request[c] = "AttachMetalHook" => attached[c] = {"scoped"}
                    /\ request[c] = "DetachMetalHook" => attached[c] = {"scoped", "hook"}
                    /\ request[c] = "DetachScopedProbes" => attached[c] = {"scoped"}
    /\ Unlost(c) =>
         /\ client[c] \in {"new", "connected", "provisioned", "cleaning"} => attached[c] = {}
         /\ client[c] = "refusing" => "hook" \notin attached[c]
         /\ client[c] = "attaching" /\ reply[c] # "none" => attached[c] = {"scoped"}
         /\ client[c] = "hooking" /\ reply[c] # "none" => attached[c] = Full(c)
         /\ client[c] \in {"ready", "waiting"} => attached[c] = Full(c)
         /\ client[c] = "unhooking" /\ reply[c] # "none" => attached[c] = {"scoped"}
         /\ client[c] = "detaching" /\ reply[c] # "none" => attached[c] = {}

\* The ring is there before the hook is attached, and until it is detached.
RingInUse(c) ==
    /\ c \in hooks => ring[c] = "file"
    /\ client[c] \in {"new", "connected"} => c \notin hooked
    /\ client[c] \in {"hooking", "unhooking"} => c \in hooked
    /\ c \in hooked /\ client[c] \in {"provisioned", "attaching"} /\ Unlost(c)
         => ring[c] = "file"
    /\ conn[c] = "AttachMetalHook" \/ (request[c] = "AttachMetalHook" /\ Unlost(c))
         => ring[c] = "file"

\* A child that has been let go, or is about to be, is observed as long as its
\* daemon serves.
LetGo(c) == gate[c] = "go" /\ child[c] \in {"gated", "running"}
Observation(c) ==
    /\ LetGo(c) => client[c] \in {"waiting", "killed"}
    /\ LetGo(c) /\ Unlost(c) => /\ conn[c] \in {"read", "ended"} /\ request[c] = "none"
                                /\ attached[c] = Full(c)
    /\ daemon = "up" /\ Unlost(c) =>
         /\ conn[c] = "startProbes" => Known(c)
         /\ client[c] = "attaching" /\ reply[c] = "Ack" => Known(c) /\ c \in probes
         /\ client[c] \in {"hooking", "ready"} \/ LetGo(c) => Known(c) /\ c \in probes
         /\ client[c] = "hooking" /\ reply[c] = "Ack" => c \in hooks
         /\ client[c] = "ready" \/ LetGo(c) => (c \in hooked => c \in hooks)

\* How a session ends, and that record knows of an end that is not complete.
Ending(c) ==
    /\ c \in registered => session[c] = "open"
    /\ daemon # "down" /\ session[c] = "open" => c \in registered
    /\ session[c] = "recovered" => conn[c] = "lost"
    /\ session[c] = "unknownStatus" => conn[c] \in {"closed", "lost"}
    /\ conn[c] = "closed" => session[c] # "open"
    /\ client[c] = "detaching" /\ reply[c] = "Ack"
         => session[c] \in {"exitStatus", "shutdown"}
    /\ told[c] = "complete" /\ client[c] \in {"cleaning", "over"}
         => session[c] \in {"exitStatus", "shutdown"}
    /\ daemon = "down" => conn[c] \in {"none", "closed", "lost"}

ClientInv(c) ==
    /\ OneMessage(c) /\ ChildAtGate(c) /\ SessionFirst(c) /\ Telling(c)
    /\ Attachments(c) /\ RingInUse(c) /\ Observation(c) /\ Ending(c)

IInv == TypeOK /\ \A c \in Clients : ClientInv(c)

-----------------------------------------------------------------------------
(* One step.                                                               *)

(***************************************************************************)
(* Each case first says what the step does to client c, then proves the    *)
(* parts of the invariant it can disturb, one by one, and the others at    *)
(* once.                                                                   *)
(***************************************************************************)

\* record, until its child is let go or refused.
LEMMA RecordAsks ==
    ASSUME TypeOK, NEW c \in Clients, ClientInv(c),
           Connect(c) \/ CreateRing(c) \/ Spawn(c) \/ AttachAnswered(c) \/
           HookAnswered(c) \/ Refused(c) \/ AttachLost(c) \/ Go(c)
    PROVE  ClientInv(c)'
  <1> USE DEF ClientInv
  <1>1. CASE Connect(c)
    <2>1. /\ client[c] = "new" /\ client'[c] = "connected"
          /\ daemon = "up" /\ conn'[c] = "read"
          /\ UNCHANGED <<told, hooked, gate, child, ring, request, reply,
                         attached, session, registered, probes, hooks, daemon>>
      BY <1>1 DEF Connect, TypeOK, Set, clientVars, wire, attachments,
             daemonVars
    <2>2. OneMessage(c)'  BY <2>1 DEF OneMessage, Asking, Cleanup
    <2>3. ChildAtGate(c)'  BY <2>1 DEF ChildAtGate
    <2>4. SessionFirst(c)'  BY <2>1 DEF SessionFirst, OneMessage
    <2>5. Telling(c)'  BY <2>1 DEF Telling, Places
    <2>6. Attachments(c)'  BY <2>1 DEF Attachments, Unlost, OneMessage
    <2>7. RingInUse(c)'  BY <2>1 DEF RingInUse, OneMessage
    <2>8. Observation(c)'  BY <2>1 DEF Observation, LetGo
    <2>9. Ending(c)'  BY <2>1 DEF Ending, OneMessage
    <2> QED  BY <2>2, <2>3, <2>4, <2>5, <2>6, <2>7, <2>8, <2>9
  <1>2. CASE CreateRing(c)
    <2>1. /\ client[c] = "connected" /\ client'[c] = "provisioned"
          /\ \/ ring'[c] = "file" /\ c \in hooked'
             \/ ring'[c] = ring[c] /\ (c \in hooked' <=> c \in hooked)
          /\ UNCHANGED <<told, gate, child, request, reply, conn, attached,
                         session, registered, probes, hooks, daemon>>
      BY <1>2 DEF CreateRing, TypeOK, Set, clientVars, wire, attachments,
             daemonVars
    <2>2. OneMessage(c)'  BY <2>1 DEF OneMessage, Closed, Asking, Unlost
    <2>3. ChildAtGate(c)'  BY <2>1 DEF ChildAtGate
    <2>4. SessionFirst(c)'  BY <2>1 DEF SessionFirst, Unlost
    <2>5. Telling(c)'  BY <2>1 DEF Telling, Places
    <2>6. Attachments(c)'  BY <2>1 DEF Attachments, Unattached, Unlost
    <2>7. RingInUse(c)'  BY <2>1 DEF RingInUse, Unlost
    <2>8. Observation(c)'  BY <2>1 DEF Observation, LetGo, Unlost, Known
    <2>9. Ending(c)'  BY <2>1 DEF Ending
    <2> QED  BY <2>2, <2>3, <2>4, <2>5, <2>6, <2>7, <2>8, <2>9
  <1>3. CASE Spawn(c)
    <2>1. /\ client[c] = "provisioned" /\ client'[c] = "attaching"
          /\ child'[c] = "gated" /\ gate'[c] = "open" /\ request'[c] = "AttachScopedProbes"
          /\ UNCHANGED <<told, hooked, ring, reply, conn, attached, session,
                         registered, probes, hooks, daemon>>
      BY <1>3 DEF Spawn, TypeOK, Set, clientVars, wire, attachments, daemonVars
    <2>2. OneMessage(c)'  BY <2>1 DEF OneMessage, Closed, Asking, Unlost, Asked
    <2>3. ChildAtGate(c)'  BY <2>1 DEF ChildAtGate, Closed
    <2>4. SessionFirst(c)'  BY <2>1 DEF SessionFirst
    <2>5. Telling(c)'  BY <2>1 DEF Telling, Places
    <2>6. Attachments(c)'
      BY <2>1 DEF Attachments, Unattached, Unlost, OneMessage, Asking
    <2>7. RingInUse(c)'  BY <2>1 DEF RingInUse, Unlost
    <2>8. Observation(c)'
      BY <2>1 DEF Observation, LetGo, Unlost, OneMessage, Closed, Asking
    <2>9. Ending(c)'  BY <2>1 DEF Ending
    <2> QED  BY <2>2, <2>3, <2>4, <2>5, <2>6, <2>7, <2>8, <2>9
  <1>4. CASE AttachAnswered(c)
    <2>1. /\ client[c] = "attaching" /\ reply[c] # "none" /\ reply'[c] = "none"
          /\ \/ /\ reply[c] = "Ack" /\ c \in hooked /\ gate'[c] = gate[c]
                /\ client'[c] = "hooking" /\ request'[c] = "AttachMetalHook"
             \/ /\ reply[c] = "Ack" /\ c \notin hooked /\ gate'[c] = gate[c]
                /\ client'[c] = "ready" /\ request'[c] = request[c]
             \/ /\ reply[c] = "Error" /\ gate'[c] = "eof"
                /\ client'[c] = "refusing" /\ request'[c] = request[c]
          /\ UNCHANGED <<told, hooked, child, ring, conn, attached, session,
                         registered, probes, hooks, daemon>>
      BY <1>4 DEF AttachAnswered, TypeOK, Set, clientVars, wire, attachments,
             daemonVars
    <2>2. OneMessage(c)'  BY <2>1 DEF OneMessage, Asking, Unlost, Asked
    <2>3. ChildAtGate(c)'  BY <2>1 DEF ChildAtGate, Closed
    <2>4. SessionFirst(c)'  BY <2>1 DEF SessionFirst, Unlost, OneMessage
    <2>5. Telling(c)'  BY <2>1 DEF Telling, Places, Asking
    <2>6. Attachments(c)'  BY <2>1 DEF Attachments, Unattached, Unlost, Full
    <2>7. RingInUse(c)'  BY <2>1 DEF RingInUse, Unlost
    <2>8. Observation(c)'  BY <2>1 DEF Observation, LetGo, Unlost, Known
    <2>9. Ending(c)'  BY <2>1 DEF Ending
    <2> QED  BY <2>2, <2>3, <2>4, <2>5, <2>6, <2>7, <2>8, <2>9
  <1>5. CASE HookAnswered(c)
    <2>1. /\ client[c] = "hooking" /\ client'[c] = "ready"
          /\ reply[c] = "Ack" /\ reply'[c] = "none"
          /\ UNCHANGED <<told, hooked, gate, child, ring, request, conn,
                         attached, session, registered, probes, hooks, daemon>>
      BY <1>5 DEF HookAnswered, TypeOK, Set, clientVars, wire, attachments,
             daemonVars
    <2>2. OneMessage(c)'  BY <2>1 DEF OneMessage, Asking, Unlost
    <2>3. ChildAtGate(c)'  BY <2>1 DEF ChildAtGate, Closed
    <2>4. SessionFirst(c)'  BY <2>1 DEF SessionFirst, Unlost
    <2>5. Telling(c)'  BY <2>1 DEF Telling, Places, Asking
    <2>6. Attachments(c)'  BY <2>1 DEF Attachments, Unattached, Unlost, Full
    <2>7. RingInUse(c)'  BY <2>1 DEF RingInUse, Unlost
    <2>8. Observation(c)'  BY <2>1 DEF Observation, LetGo, Unlost, Known
    <2>9. Ending(c)'  BY <2>1 DEF Ending
    <2> QED  BY <2>2, <2>3, <2>4, <2>5, <2>6, <2>7, <2>8, <2>9
  <1>6. CASE Refused(c)
    <2>1. /\ client[c] = "refusing" /\ ChildOver(c)
          /\ client'[c] = "over" /\ told'[c] = "refused"
          /\ ring'[c] = IF c \in hooked THEN "removed" ELSE ring[c]
          /\ UNCHANGED <<hooked, gate, child, request, reply, conn, attached,
                         session, registered, probes, hooks, daemon>>
      BY <1>6 DEF Refused, TypeOK, Set, clientVars, wire, attachments,
             daemonVars
    <2>2. OneMessage(c)'  BY <2>1 DEF OneMessage, Closed, Asking
    <2>3. ChildAtGate(c)'  BY <2>1 DEF ChildAtGate
    <2>4. SessionFirst(c)'  BY <2>1 DEF SessionFirst, Unlost
    <2>5. Telling(c)'  BY <2>1 DEF Telling, ChildAtGate, ChildOver, SessionFirst
    <2>6. Attachments(c)'  BY <2>1 DEF Attachments, Unattached, Unlost
    <2>7. RingInUse(c)'
      BY <2>1 DEF RingInUse, Unlost, OneMessage, Closed, Asking, Attachments,
             Unattached
    <2>8. Observation(c)'  BY <2>1 DEF Observation, LetGo, Unlost, Known
    <2>9. Ending(c)'  BY <2>1 DEF Ending
    <2> QED  BY <2>2, <2>3, <2>4, <2>5, <2>6, <2>7, <2>8, <2>9
  <1>7. CASE AttachLost(c)
    <2>1. /\ client[c] \in {"attaching", "hooking"} /\ Lost(c) /\ reply[c] = "none"
          /\ client'[c] = "over" /\ told'[c] = "failed" /\ gate'[c] = "eof"
          /\ UNCHANGED <<hooked, child, ring, request, reply, conn, attached,
                         session, registered, probes, hooks, daemon>>
      BY <1>7 DEF AttachLost, TypeOK, Set, clientVars, wire, attachments,
             daemonVars
    <2>2. OneMessage(c)'  BY <2>1 DEF OneMessage, Closed, Unlost, Lost
    <2>3. ChildAtGate(c)'  BY <2>1 DEF ChildAtGate
    <2>4. SessionFirst(c)'  BY <2>1 DEF SessionFirst, Unlost, Lost
    <2>5. Telling(c)'  BY <2>1 DEF Telling
    <2>6. Attachments(c)'  BY <2>1 DEF Attachments, Unattached, Unlost
    <2>7. RingInUse(c)'  BY <2>1 DEF RingInUse, Unlost
    <2>8. Observation(c)'  BY <2>1 DEF Observation, LetGo, Lost
    <2>9. Ending(c)'  BY <2>1 DEF Ending
    <2> QED  BY <2>2, <2>3, <2>4, <2>5, <2>6, <2>7, <2>8, <2>9
  <1>8. CASE Go(c)
    <2>1. /\ client[c] = "ready"
          /\ \/ /\ ~ChildOver(c) /\ told'[c] = told[c]
                /\ client'[c] = "waiting" /\ gate'[c] = "go"
             \/ /\ ChildOver(c) /\ told'[c] = "failed"
                /\ client'[c] = "over" /\ gate'[c] = "eof"
          /\ UNCHANGED <<hooked, child, ring, request, reply, conn, attached,
                         session, registered, probes, hooks, daemon>>
      BY <1>8 DEF Go, TypeOK, Set, clientVars, wire, attachments, daemonVars
    <2>2. OneMessage(c)'  BY <2>1 DEF OneMessage, Closed, Asking, Unlost
    <2>3. ChildAtGate(c)'  BY <2>1 DEF ChildAtGate
    <2>4. SessionFirst(c)'  BY <2>1 DEF SessionFirst, Unlost
    <2>5. Telling(c)'  BY <2>1 DEF Telling, Places
    <2>6. Attachments(c)'  BY <2>1 DEF Attachments, Unattached, Unlost, Full
    <2>7. RingInUse(c)'  BY <2>1 DEF RingInUse, Unlost
    <2>8. Observation(c)'
      BY <2>1 DEF Observation, LetGo, Unlost, Known, Full, OneMessage, Closed,
             Asking, Attachments
    <2>9. Ending(c)'  BY <2>1 DEF Ending
    <2> QED  BY <2>2, <2>3, <2>4, <2>5, <2>6, <2>7, <2>8, <2>9
  <1> QED  BY <1>1, <1>2, <1>3, <1>4, <1>5, <1>6, <1>7, <1>8

\* record, from the end of its child on; or it is killed.
LEMMA RecordParts ==
    ASSUME TypeOK, NEW c \in Clients, ClientInv(c),
           Waited(c) \/ Unhooked(c) \/ Detached(c) \/ RemoveRing(c) \/ Kill(c)
    PROVE  ClientInv(c)'
  <1> USE DEF ClientInv
  <1>1. CASE Waited(c)
    <2>1. /\ client[c] = "waiting" /\ ChildOver(c) /\ told'[c] = "complete"
          /\ \/ /\ c \in hooked /\ client'[c] = "unhooking"
                /\ request'[c] = "DetachMetalHook"
             \/ /\ c \notin hooked /\ client'[c] = "detaching"
                /\ request'[c] = "DetachScopedProbes"
          /\ UNCHANGED <<hooked, gate, child, ring, reply, conn, attached,
                         session, registered, probes, hooks, daemon>>
      BY <1>1 DEF Waited, TypeOK, Set, clientVars, wire, attachments, daemonVars
    <2>2. OneMessage(c)'  BY <2>1 DEF OneMessage, Closed, Asking, Unlost, Asked
    <2>3. ChildAtGate(c)'  BY <2>1 DEF ChildAtGate, ChildOver
    <2>4. SessionFirst(c)'  BY <2>1 DEF SessionFirst
    <2>5. Telling(c)'  BY <2>1 DEF Telling
    <2>6. Attachments(c)'
      BY <2>1 DEF Attachments, Unattached, Unlost, Full, OneMessage, Asking
    <2>7. RingInUse(c)'  BY <2>1 DEF RingInUse
    <2>8. Observation(c)'
      BY <2>1 DEF Observation, LetGo, Unlost, Known, ChildOver
    <2>9. Ending(c)'  BY <2>1 DEF Ending, OneMessage, Asking
    <2> QED  BY <2>2, <2>3, <2>4, <2>5, <2>6, <2>7, <2>8, <2>9
  <1>2. CASE Unhooked(c)
    <2>1. /\ client[c] = "unhooking" /\ client'[c] = "detaching"
          /\ request'[c] = "DetachScopedProbes"
          /\ \/ reply[c] = "Ack" /\ reply'[c] = "none" /\ told'[c] = told[c]
             \/ /\ Lost(c) /\ reply[c] = "none" /\ reply'[c] = reply[c]
                /\ told'[c] = "incomplete"
          /\ UNCHANGED <<hooked, gate, child, ring, conn, attached, session,
                         registered, probes, hooks, daemon>>
      BY <1>2 DEF Unhooked, Answered, TypeOK, Set, clientVars, wire,
             attachments, daemonVars
    <2>2. OneMessage(c)'
      BY <2>1 DEF OneMessage, Closed, Asking, Unlost, Asked, Lost
    <2>3. ChildAtGate(c)'  BY <2>1 DEF ChildAtGate, ChildOver
    <2>4. SessionFirst(c)'  BY <2>1 DEF SessionFirst
    <2>5. Telling(c)'  BY <2>1 DEF Telling
    <2>6. Attachments(c)'  BY <2>1 DEF Attachments, Unattached, Unlost, Lost
    <2>7. RingInUse(c)'  BY <2>1 DEF RingInUse
    <2>8. Observation(c)'  BY <2>1 DEF Observation, LetGo, Unlost, Known
    <2>9. Ending(c)'  BY <2>1 DEF Ending
    <2> QED  BY <2>2, <2>3, <2>4, <2>5, <2>6, <2>7, <2>8, <2>9
  <1>3. CASE Detached(c)
    <2>1. /\ client[c] = "detaching" /\ client'[c] = "cleaning"
          /\ \/ reply[c] = "Ack" /\ reply'[c] = "none" /\ told'[c] = told[c]
             \/ /\ Lost(c) /\ reply[c] = "none" /\ reply'[c] = reply[c]
                /\ told'[c] = "incomplete"
          /\ UNCHANGED <<hooked, gate, child, ring, request, conn, attached,
                         session, registered, probes, hooks, daemon>>
      BY <1>3 DEF Detached, Answered, TypeOK, Set, clientVars, wire,
             attachments, daemonVars
    <2>2. OneMessage(c)'  BY <2>1 DEF OneMessage, Closed, Asking, Unlost, Lost
    <2>3. ChildAtGate(c)'  BY <2>1 DEF ChildAtGate, ChildOver
    <2>4. SessionFirst(c)'  BY <2>1 DEF SessionFirst, Unlost
    <2>5. Telling(c)'  BY <2>1 DEF Telling
    <2>6. Attachments(c)'  BY <2>1 DEF Attachments, Unattached, Unlost, Lost
    <2>7. RingInUse(c)'  BY <2>1 DEF RingInUse, Unlost
    <2>8. Observation(c)'  BY <2>1 DEF Observation, LetGo, Unlost, Known
    <2>9. Ending(c)'  BY <2>1 DEF Ending
    <2> QED  BY <2>2, <2>3, <2>4, <2>5, <2>6, <2>7, <2>8, <2>9
  <1>4. CASE RemoveRing(c)
    <2>1. /\ client[c] = "cleaning" /\ client'[c] = "over"
          /\ ring'[c] = IF c \in hooked THEN "removed" ELSE ring[c]
          /\ UNCHANGED <<told, hooked, gate, child, request, reply, conn,
                         attached, session, registered, probes, hooks, daemon>>
      BY <1>4 DEF RemoveRing, TypeOK, Set, clientVars, wire, attachments,
             daemonVars
    <2>2. OneMessage(c)'  BY <2>1 DEF OneMessage, Closed, Asking
    <2>3. ChildAtGate(c)'  BY <2>1 DEF ChildAtGate
    <2>4. SessionFirst(c)'  BY <2>1 DEF SessionFirst, Unlost
    <2>5. Telling(c)'  BY <2>1 DEF Telling
    <2>6. Attachments(c)'  BY <2>1 DEF Attachments, Unattached, Unlost
    <2>7. RingInUse(c)'  BY <2>1 DEF RingInUse, Unlost, Attachments, Unattached
    <2>8. Observation(c)'  BY <2>1 DEF Observation, LetGo, Unlost, Known
    <2>9. Ending(c)'  BY <2>1 DEF Ending
    <2> QED  BY <2>2, <2>3, <2>4, <2>5, <2>6, <2>7, <2>8, <2>9
  <1>5. CASE Kill(c)
    <2>1. /\ client[c] # "new" /\ ~Closed(c)
          /\ client'[c] = "killed" /\ told'[c] = "nothing" /\ reply'[c] = "none"
          /\ gate'[c] = IF gate[c] = "open" THEN "eof" ELSE gate[c]
          /\ UNCHANGED <<hooked, child, ring, request, conn, attached, session,
                         registered, probes, hooks, daemon>>
      BY <1>5 DEF Kill, TypeOK, Set, clientVars, wire, attachments, daemonVars
    <2>2. OneMessage(c)'  BY <2>1 DEF OneMessage, Closed, Asking
    <2>3. ChildAtGate(c)'  BY <2>1 DEF ChildAtGate
    <2>4. SessionFirst(c)'  BY <2>1 DEF SessionFirst, Unlost
    <2>5. Telling(c)'  BY <2>1 DEF Telling
    <2>6. Attachments(c)'  BY <2>1 DEF Attachments, Unattached, Unlost
    <2>7. RingInUse(c)'  BY <2>1 DEF RingInUse, Unlost
    <2>8. Observation(c)'  BY <2>1 DEF Observation, LetGo, Unlost, Known, Full
    <2>9. Ending(c)'  BY <2>1 DEF Ending
    <2> QED  BY <2>2, <2>3, <2>4, <2>5, <2>6, <2>7, <2>8, <2>9
  <1> QED  BY <1>1, <1>2, <1>3, <1>4, <1>5

\* The child.
LEMMA ChildSteps ==
    ASSUME TypeOK, NEW c \in Clients, ClientInv(c),
           GateOpens(c) \/ GateCloses(c) \/ ChildDies(c) \/ ChildExits(c)
    PROVE  ClientInv(c)'
  <1> USE DEF ClientInv
  <1>1. CASE GateOpens(c)
    <2>1. /\ child[c] = "gated" /\ gate[c] = "go" /\ child'[c] = "running"
          /\ UNCHANGED <<client, told, hooked, gate, ring, request, reply, conn,
                         attached, session, registered, probes, hooks, daemon>>
      BY <1>1 DEF GateOpens, ChildTo, TypeOK, Set, clientVars, wire,
             attachments, daemonVars
    <2>2. ChildAtGate(c)'  BY <2>1 DEF ChildAtGate, ChildOver
    <2>3. Telling(c)'  BY <2>1 DEF Telling
    <2>4. Observation(c)'  BY <2>1 DEF Observation, LetGo, Unlost, Known, Full
    <2>5. /\ OneMessage(c)' /\ SessionFirst(c)' /\ Attachments(c)'
         /\ RingInUse(c)' /\ Ending(c)'
      BY <2>1 DEF OneMessage, Closed, Asking, Unlost, Asked, Serving,
             SessionFirst, Attachments, Unattached, Full, RingInUse, Ending
    <2> QED  BY <2>2, <2>3, <2>4, <2>5
  <1>2. CASE GateCloses(c)
    <2>1. /\ child[c] = "gated" /\ gate[c] = "eof" /\ child'[c] = "unrun"
          /\ UNCHANGED <<client, told, hooked, gate, ring, request, reply, conn,
                         attached, session, registered, probes, hooks, daemon>>
      BY <1>2 DEF GateCloses, ChildTo, TypeOK, Set, clientVars, wire,
             attachments, daemonVars
    <2>2. ChildAtGate(c)'  BY <2>1 DEF ChildAtGate
    <2>3. Telling(c)'  BY <2>1 DEF Telling
    <2>4. Observation(c)'  BY <2>1 DEF Observation, LetGo, Unlost, Known
    <2>5. /\ OneMessage(c)' /\ SessionFirst(c)' /\ Attachments(c)'
         /\ RingInUse(c)' /\ Ending(c)'
      BY <2>1 DEF OneMessage, Closed, Asking, Unlost, Asked, Serving,
             SessionFirst, Attachments, Unattached, Full, RingInUse, Ending
    <2> QED  BY <2>2, <2>3, <2>4, <2>5
  <1>3. CASE ChildDies(c)
    <2>1. /\ child[c] = "gated" /\ child'[c] = "unrun"
          /\ UNCHANGED <<client, told, hooked, gate, ring, request, reply, conn,
                         attached, session, registered, probes, hooks, daemon>>
      BY <1>3 DEF ChildDies, ChildTo, TypeOK, Set, clientVars, wire,
             attachments, daemonVars
    <2>2. ChildAtGate(c)'  BY <2>1 DEF ChildAtGate, Closed, ChildOver
    <2>3. Telling(c)'  BY <2>1 DEF Telling
    <2>4. Observation(c)'  BY <2>1 DEF Observation, LetGo, Unlost, Known
    <2>5. /\ OneMessage(c)' /\ SessionFirst(c)' /\ Attachments(c)'
         /\ RingInUse(c)' /\ Ending(c)'
      BY <2>1 DEF OneMessage, Closed, Asking, Unlost, Asked, Serving,
             SessionFirst, Attachments, Unattached, Full, RingInUse, Ending
    <2> QED  BY <2>2, <2>3, <2>4, <2>5
  <1>4. CASE ChildExits(c)
    <2>1. /\ child[c] = "running" /\ child'[c] = "exited"
          /\ UNCHANGED <<client, told, hooked, gate, ring, request, reply, conn,
                         attached, session, registered, probes, hooks, daemon>>
      BY <1>4 DEF ChildExits, ChildTo, TypeOK, Set, clientVars, wire,
             attachments, daemonVars
    <2>2. ChildAtGate(c)'  BY <2>1 DEF ChildAtGate, ChildOver
    <2>3. Telling(c)'  BY <2>1 DEF Telling
    <2>4. Observation(c)'  BY <2>1 DEF Observation, LetGo, Unlost, Known
    <2>5. /\ OneMessage(c)' /\ SessionFirst(c)' /\ Attachments(c)'
         /\ RingInUse(c)' /\ Ending(c)'
      BY <2>1 DEF OneMessage, Closed, Asking, Unlost, Asked, Serving,
             SessionFirst, Attachments, Unattached, Full, RingInUse, Ending
    <2> QED  BY <2>2, <2>3, <2>4, <2>5
  <1> QED  BY <1>1, <1>2, <1>3, <1>4

\* The handler, as long as it answers.
LEMMA HandlerServes ==
    ASSUME TypeOK, NEW c \in Clients, ClientInv(c),
           ReadRequest(c) \/ AttachScoped(c) \/ AttachRefused(c) \/ StartProbes(c) \/
           AttachMetalHook(c) \/ DetachMetalHook(c) \/ StopProbes(c) \/
           DetachScoped(c)
    PROVE  ClientInv(c)'
  <1> USE DEF ClientInv
  <1>1. CASE ReadRequest(c)
    <2>1. /\ conn[c] = "read" /\ request[c] # "none"
          /\ conn'[c] = request[c] /\ request'[c] = "none"
          /\ request[c] = "AttachScopedProbes" => attached'[c] = attached[c] \cup {"scoped"}
          /\ request[c] = "AttachMetalHook" => attached'[c] = attached[c] \cup {"hook"}
          /\ request[c] = "DetachScopedProbes" => attached'[c] = attached[c] \ {"scoped"}
          /\ request[c] = "DetachMetalHook" => attached'[c] = attached[c] \ {"hook"}
          /\ UNCHANGED <<client, told, hooked, gate, child, ring, reply,
                         session, registered, probes, hooks, daemon>>
      BY <1>1 DEF ReadRequest, NowAttached, TypeOK, Set, clientVars, wire,
             attachments, daemonVars
    <2>2. OneMessage(c)'
      BY <2>1 DEF OneMessage, Closed, Asking, Unlost, Asked, Serving, Cleanup
    <2>3. SessionFirst(c)'
      BY <2>1, TypeOK DEF SessionFirst, Unlost, TypeOK, Requests
    <2>4. Attachments(c)'
      BY <2>1, TypeOK DEF Attachments, Unlost, OneMessage, Closed, Asking,
             TypeOK, Requests
    <2>5. RingInUse(c)'  BY <2>1 DEF RingInUse, Unlost
    <2>6. Observation(c)'
      BY <2>1, TypeOK DEF Observation, LetGo, Unlost, Known, TypeOK, Requests
    <2>7. Ending(c)'  BY <2>1, TypeOK DEF Ending, TypeOK, Requests
    <2>8. ChildAtGate(c)' /\ Telling(c)'
      BY <2>1 DEF ChildAtGate, Closed, ChildOver, Telling
    <2> QED  BY <2>2, <2>3, <2>4, <2>5, <2>6, <2>7, <2>8
  <1>2. CASE AttachScoped(c)
    <2>1. /\ conn[c] = "AttachScopedProbes" /\ conn'[c] = "startProbes"
          /\ session'[c] = "open" /\ c \in registered'
          /\ UNCHANGED <<client, told, hooked, gate, child, ring, request,
                         reply, attached, probes, hooks, daemon>>
      BY <1>2 DEF AttachScoped, TypeOK, Set, clientVars, wire, attachments,
             daemonVars
    <2>2. OneMessage(c)'
      BY <2>1 DEF OneMessage, Closed, Asking, Unlost, Serving, Cleanup
    <2>3. SessionFirst(c)'  BY <2>1 DEF SessionFirst, Unlost, OneMessage
    <2>4. Telling(c)'  BY <2>1 DEF Telling, SessionFirst
    <2>5. Attachments(c)'  BY <2>1 DEF Attachments, Unlost, Full
    <2>6. RingInUse(c)'  BY <2>1 DEF RingInUse, Unlost
    <2>7. Observation(c)'  BY <2>1 DEF Observation, LetGo, Unlost, Known
    <2>8. Ending(c)'  BY <2>1 DEF Ending, SessionFirst
    <2>9. ChildAtGate(c)'
      BY <2>1 DEF ChildAtGate, Closed, ChildOver
    <2> QED  BY <2>2, <2>3, <2>4, <2>5, <2>6, <2>7, <2>8, <2>9
  <1>3. CASE AttachRefused(c)
    <2>1. /\ conn[c] = "AttachScopedProbes"
          /\ \/ Closed(c) /\ conn'[c] = "ended" /\ reply'[c] = reply[c]
             \/ ~Closed(c) /\ conn'[c] = "read" /\ reply'[c] = "Error"
          /\ UNCHANGED <<client, told, hooked, gate, child, ring, request,
                         attached, session, registered, probes, hooks, daemon>>
      BY <1>3 DEF AttachRefused, Answer, TypeOK, Set, clientVars, wire,
             attachments, daemonVars
    <2>2. OneMessage(c)'
      BY <2>1 DEF OneMessage, Closed, Asking, Unlost, Serving, Cleanup
    <2>3. SessionFirst(c)'  BY <2>1 DEF SessionFirst
    <2>4. Attachments(c)'
      BY <2>1 DEF Attachments, Unlost, Full, OneMessage, Serving
    <2>5. RingInUse(c)'  BY <2>1 DEF RingInUse, Unlost
    <2>6. Observation(c)'  BY <2>1 DEF Observation, LetGo, Unlost, Known
    <2>7. Ending(c)'  BY <2>1 DEF Ending
    <2>8. ChildAtGate(c)' /\ Telling(c)'
      BY <2>1 DEF ChildAtGate, Closed, ChildOver, Telling
    <2> QED  BY <2>2, <2>3, <2>4, <2>5, <2>6, <2>7, <2>8
  <1>4. CASE StartProbes(c)
    <2>1. /\ conn[c] = "startProbes" /\ c \in probes'
          /\ \/ Closed(c) /\ conn'[c] = "ended" /\ reply'[c] = reply[c]
             \/ ~Closed(c) /\ conn'[c] = "read" /\ reply'[c] = "Ack"
          /\ UNCHANGED <<client, told, hooked, gate, child, ring, request,
                         attached, session, registered, hooks, daemon>>
      BY <1>4 DEF StartProbes, Answer, TypeOK, Set, clientVars, wire,
             attachments, daemonVars
    <2>2. OneMessage(c)'
      BY <2>1 DEF OneMessage, Closed, Asking, Unlost, Cleanup
    <2>3. SessionFirst(c)'  BY <2>1 DEF SessionFirst, Unlost
    <2>4. Attachments(c)'
      BY <2>1 DEF Attachments, Unlost, Full, OneMessage, Serving
    <2>5. RingInUse(c)'  BY <2>1 DEF RingInUse, Unlost
    <2>6. Observation(c)'
      BY <2>1 DEF Observation, LetGo, Unlost, Known, OneMessage, Serving
    <2>7. Ending(c)'  BY <2>1 DEF Ending, OneMessage, Unlost, Serving
    <2>8. ChildAtGate(c)' /\ Telling(c)'
      BY <2>1 DEF ChildAtGate, Closed, ChildOver, Telling
    <2> QED  BY <2>2, <2>3, <2>4, <2>5, <2>6, <2>7, <2>8
  <1>5. CASE AttachMetalHook(c)
    <2>1. /\ conn[c] = "AttachMetalHook" /\ c \in hooks'
          /\ \/ Closed(c) /\ conn'[c] = "ended" /\ reply'[c] = reply[c]
             \/ ~Closed(c) /\ conn'[c] = "read" /\ reply'[c] = "Ack"
          /\ UNCHANGED <<client, told, hooked, gate, child, ring, request,
                         attached, session, registered, probes, daemon>>
      BY <1>5 DEF AttachMetalHook, Answer, TypeOK, Set, clientVars, wire,
             attachments, daemonVars
    <2>2. OneMessage(c)'
      BY <2>1 DEF OneMessage, Closed, Asking, Unlost, Cleanup
    <2>3. SessionFirst(c)'
      BY <2>1 DEF SessionFirst, Unlost, OneMessage, Asking, Serving
    <2>4. Attachments(c)'
      BY <2>1 DEF Attachments, Unlost, Full, OneMessage, Serving, RingInUse
    <2>5. RingInUse(c)'  BY <2>1 DEF RingInUse
    <2>6. Observation(c)'
      BY <2>1 DEF Observation, LetGo, Unlost, Known, OneMessage, Serving
    <2>7. Ending(c)'  BY <2>1 DEF Ending, OneMessage, Unlost, Serving
    <2>8. ChildAtGate(c)' /\ Telling(c)'
      BY <2>1 DEF ChildAtGate, Closed, ChildOver, Telling
    <2> QED  BY <2>2, <2>3, <2>4, <2>5, <2>6, <2>7, <2>8
  <1>6. CASE DetachMetalHook(c)
    <2>1. /\ conn[c] = "DetachMetalHook" /\ c \notin hooks'
          /\ \/ Closed(c) /\ conn'[c] = "ended" /\ reply'[c] = reply[c]
             \/ ~Closed(c) /\ conn'[c] = "read" /\ reply'[c] = "Ack"
          /\ UNCHANGED <<client, told, hooked, gate, child, ring, request,
                         attached, session, registered, probes, daemon>>
      BY <1>6 DEF DetachMetalHook, Answer, TypeOK, Set, clientVars, wire,
             attachments, daemonVars
    <2>2. OneMessage(c)'
      BY <2>1 DEF OneMessage, Closed, Asking, Unlost, Cleanup
    <2>3. SessionFirst(c)'
      BY <2>1 DEF SessionFirst, Unlost, OneMessage, Asking, Serving
    <2>4. Attachments(c)'
      BY <2>1 DEF Attachments, Unlost, Full, OneMessage, Serving
    <2>5. RingInUse(c)'  BY <2>1 DEF RingInUse, Unlost
    <2>6. Observation(c)'
      BY <2>1 DEF Observation, LetGo, Unlost, OneMessage, Closed, Asking,
             Serving
    <2>7. Ending(c)'  BY <2>1 DEF Ending, OneMessage, Unlost, Serving
    <2>8. ChildAtGate(c)' /\ Telling(c)'
      BY <2>1 DEF ChildAtGate, Closed, ChildOver, Telling
    <2> QED  BY <2>2, <2>3, <2>4, <2>5, <2>6, <2>7, <2>8
  <1>7. CASE StopProbes(c)
    <2>1. /\ conn[c] = "DetachScopedProbes" /\ conn'[c] = "detach"
          /\ c \notin probes'
          /\ UNCHANGED <<client, told, hooked, gate, child, ring, request,
                         reply, attached, session, registered, hooks, daemon>>
      BY <1>7 DEF StopProbes, TypeOK, Set, clientVars, wire, attachments,
             daemonVars
    <2>2. OneMessage(c)'
      BY <2>1 DEF OneMessage, Closed, Asking, Unlost, Serving, Cleanup
    <2>3. SessionFirst(c)'  BY <2>1 DEF SessionFirst, Unlost
    <2>4. Attachments(c)'  BY <2>1 DEF Attachments, Unlost, Full
    <2>5. RingInUse(c)'  BY <2>1 DEF RingInUse, Unlost
    <2>6. Observation(c)'
      BY <2>1 DEF Observation, LetGo, Unlost, OneMessage, Closed, Asking,
             Serving
    <2>7. Ending(c)'  BY <2>1 DEF Ending
    <2>8. ChildAtGate(c)' /\ Telling(c)'
      BY <2>1 DEF ChildAtGate, Closed, ChildOver, Telling
    <2> QED  BY <2>2, <2>3, <2>4, <2>5, <2>6, <2>7, <2>8
  <1>8. CASE DetachScoped(c)
    <2>1. /\ conn[c] = "detach" /\ c \notin registered'
          /\ session'[c] = IF c \in registered THEN "exitStatus" ELSE session[c]
          /\ \/ Closed(c) /\ conn'[c] = "ended" /\ reply'[c] = reply[c]
             \/ ~Closed(c) /\ conn'[c] = "read" /\ reply'[c] = "Ack"
          /\ UNCHANGED <<client, told, hooked, gate, child, ring, request,
                         attached, probes, hooks, daemon>>
      BY <1>8 DEF DetachScoped, Answer, End, TypeOK, Set, clientVars, wire,
             attachments, daemonVars
    <2>2. OneMessage(c)'
      BY <2>1 DEF OneMessage, Closed, Asking, Unlost, Cleanup
    <2>3. SessionFirst(c)'
      BY <2>1 DEF SessionFirst, Unlost, OneMessage, Closed, Asking, Serving
    <2>4. Telling(c)'  BY <2>1 DEF Telling, Ending
    <2>5. Attachments(c)'
      BY <2>1 DEF Attachments, Unlost, Full, OneMessage, Serving
    <2>6. RingInUse(c)'  BY <2>1 DEF RingInUse, Unlost
    <2>7. Observation(c)'
      BY <2>1 DEF Observation, LetGo, Unlost, OneMessage, Closed, Asking,
             Serving
    <2>8. Ending(c)'  BY <2>1, TypeOK DEF Ending, TypeOK, Ends, SessionFirst
    <2>9. ChildAtGate(c)'
      BY <2>1 DEF ChildAtGate, Closed, ChildOver
    <2> QED  BY <2>2, <2>3, <2>4, <2>5, <2>6, <2>7, <2>8, <2>9
  <1> QED  BY <1>1, <1>2, <1>3, <1>4, <1>5, <1>6, <1>7, <1>8

\* The handler of a client that is gone.
LEMMA HandlerCleans ==
    ASSUME TypeOK, NEW c \in Clients, ClientInv(c),
           Disconnected(c) \/ AwaitChild(c) \/ AutoUnhook(c) \/ AutoRemoveRing(c) \/
           AutoStopProbes(c) \/ AutoDetach(c)
    PROVE  ClientInv(c)'
  <1> USE DEF ClientInv
  <1>1. CASE Disconnected(c)
    <2>1. /\ conn[c] = "read" /\ request[c] = "none" /\ Closed(c)
          /\ conn'[c] = "ended"
          /\ UNCHANGED <<client, told, hooked, gate, child, ring, request,
                         reply, attached, session, registered, probes, hooks,
                         daemon>>
      BY <1>1 DEF Disconnected, TypeOK, Set, clientVars, wire, attachments,
             daemonVars
    <2>2. OneMessage(c)'  BY <2>1 DEF OneMessage, Closed, Asking
    <2>3. SessionFirst(c)'  BY <2>1 DEF SessionFirst
    <2>4. Attachments(c)'  BY <2>1 DEF Attachments, Closed
    <2>5. RingInUse(c)'  BY <2>1 DEF RingInUse, Unlost
    <2>6. Observation(c)'  BY <2>1 DEF Observation, LetGo, Unlost, Known, Full
    <2>7. Ending(c)'  BY <2>1 DEF Ending
    <2>8. ChildAtGate(c)' /\ Telling(c)'
      BY <2>1 DEF ChildAtGate, Closed, Telling
    <2> QED  BY <2>2, <2>3, <2>4, <2>5, <2>6, <2>7, <2>8
  <1>2. CASE AwaitChild(c)
    <2>1. /\ conn[c] = "ended" /\ (attached[c] = {} \/ ChildOver(c))
          /\ conn'[c] = "autoUnhook"
          /\ UNCHANGED <<client, told, hooked, gate, child, ring, request,
                         reply, attached, session, registered, probes, hooks,
                         daemon>>
      BY <1>2 DEF AwaitChild, TypeOK, Set, clientVars, wire, attachments,
             daemonVars
    <2>2. OneMessage(c)'
      BY <2>1 DEF OneMessage, Closed, Asking, Unlost, Serving
    <2>3. SessionFirst(c)'  BY <2>1 DEF SessionFirst, Unlost
    <2>4. Attachments(c)'  BY <2>1 DEF Attachments, Unlost, Full
    <2>5. RingInUse(c)'  BY <2>1 DEF RingInUse, Unlost
    <2>6. Observation(c)'
      BY <2>1 DEF Observation, LetGo, Unlost, Known, Full, ChildOver
    <2>7. Ending(c)'  BY <2>1 DEF Ending
    <2>8. ChildAtGate(c)' /\ Telling(c)'
      BY <2>1 DEF ChildAtGate, Closed, ChildOver, Telling
    <2> QED  BY <2>2, <2>3, <2>4, <2>5, <2>6, <2>7, <2>8
  <1>3. CASE AutoUnhook(c)
    <2>1. /\ conn[c] = "autoUnhook"
          /\ \/ "hook" \in attached[c] /\ c \notin hooks' /\ conn'[c] = "autoRemoveRing"
             \/ /\ "hook" \notin attached[c] /\ conn'[c] = "autoStopProbes"
                /\ c \in hooks' <=> c \in hooks
          /\ UNCHANGED <<client, told, hooked, gate, child, ring, request,
                         reply, attached, session, registered, probes, daemon>>
      BY <1>3 DEF AutoUnhook, TypeOK, Set, clientVars, wire, attachments,
             daemonVars
    <2>2. OneMessage(c)'
      BY <2>1 DEF OneMessage, Closed, Asking, Unlost, Serving
    <2>3. SessionFirst(c)'  BY <2>1 DEF SessionFirst, Unlost
    <2>4. Attachments(c)'  BY <2>1 DEF Attachments, Unlost, Full
    <2>5. RingInUse(c)'  BY <2>1 DEF RingInUse, Unlost
    <2>6. Observation(c)'
      BY <2>1 DEF Observation, LetGo, Unlost, Known, OneMessage, Closed, Asking
    <2>7. Ending(c)'  BY <2>1 DEF Ending
    <2>8. ChildAtGate(c)' /\ Telling(c)'
      BY <2>1 DEF ChildAtGate, Closed, ChildOver, Telling
    <2> QED  BY <2>2, <2>3, <2>4, <2>5, <2>6, <2>7, <2>8
  <1>4. CASE AutoRemoveRing(c)
    <2>1. /\ conn[c] = "autoRemoveRing" /\ conn'[c] = "autoStopProbes"
          /\ ring'[c] = "removed"
          /\ UNCHANGED <<client, told, hooked, gate, child, request, reply,
                         attached, session, registered, probes, hooks, daemon>>
      BY <1>4 DEF AutoRemoveRing, TypeOK, Set, clientVars, wire, attachments,
             daemonVars
    <2>2. OneMessage(c)'
      BY <2>1 DEF OneMessage, Closed, Asking, Unlost, Serving
    <2>3. SessionFirst(c)'  BY <2>1 DEF SessionFirst, Unlost
    <2>4. Attachments(c)'  BY <2>1 DEF Attachments, Unlost, Full
    <2>5. RingInUse(c)'
      BY <2>1 DEF RingInUse, Unlost, OneMessage, Closed, Serving, Attachments
    <2>6. Observation(c)'  BY <2>1 DEF Observation, LetGo, Unlost, Known
    <2>7. Ending(c)'  BY <2>1 DEF Ending
    <2>8. ChildAtGate(c)' /\ Telling(c)'
      BY <2>1 DEF ChildAtGate, Closed, ChildOver, Telling
    <2> QED  BY <2>2, <2>3, <2>4, <2>5, <2>6, <2>7, <2>8
  <1>5. CASE AutoStopProbes(c)
    <2>1. /\ conn[c] = "autoStopProbes"
          /\ \/ "scoped" \in attached[c] /\ c \notin probes' /\ conn'[c] = "autoDetach"
             \/ /\ "scoped" \notin attached[c] /\ conn'[c] = "closed"
                /\ c \in probes' <=> c \in probes
          /\ UNCHANGED <<client, told, hooked, gate, child, ring, request,
                         reply, attached, session, registered, hooks, daemon>>
      BY <1>5 DEF AutoStopProbes, TypeOK, Set, clientVars, wire, attachments,
             daemonVars
    <2>2. OneMessage(c)'
      BY <2>1 DEF OneMessage, Closed, Asking, Unlost, Serving
    <2>3. SessionFirst(c)'  BY <2>1 DEF SessionFirst, Unlost
    <2>4. Attachments(c)'  BY <2>1 DEF Attachments, Unattached, Unlost, Full
    <2>5. RingInUse(c)'  BY <2>1 DEF RingInUse, Unlost
    <2>6. Observation(c)'
      BY <2>1 DEF Observation, LetGo, Unlost, OneMessage, Closed, Asking,
             Serving
    <2>7. Ending(c)'  BY <2>1 DEF Ending, Attachments
    <2>8. ChildAtGate(c)' /\ Telling(c)'
      BY <2>1 DEF ChildAtGate, Closed, ChildOver, Telling
    <2> QED  BY <2>2, <2>3, <2>4, <2>5, <2>6, <2>7, <2>8
  <1>6. CASE AutoDetach(c)
    <2>1. /\ conn[c] = "autoDetach" /\ conn'[c] = "closed" /\ c \notin registered'
          /\ session'[c] = IF c \in registered THEN "unknownStatus" ELSE session[c]
          /\ UNCHANGED <<client, told, hooked, gate, child, ring, request,
                         reply, attached, probes, hooks, daemon>>
      BY <1>6 DEF AutoDetach, End, TypeOK, Set, clientVars, wire, attachments,
             daemonVars
    <2>2. OneMessage(c)'
      BY <2>1 DEF OneMessage, Closed, Asking, Unlost, Serving
    <2>3. SessionFirst(c)'
      BY <2>1 DEF SessionFirst, Unlost, OneMessage, Closed, Asking
    <2>4. Telling(c)'  BY <2>1 DEF Telling, Ending
    <2>5. Attachments(c)'  BY <2>1 DEF Attachments, Unattached, Unlost, Full
    <2>6. RingInUse(c)'  BY <2>1 DEF RingInUse, Unlost
    <2>7. Observation(c)'
      BY <2>1 DEF Observation, LetGo, Unlost, OneMessage, Closed, Asking,
             Serving
    <2>8. Ending(c)'  BY <2>1 DEF Ending
    <2>9. ChildAtGate(c)'
      BY <2>1 DEF ChildAtGate, Closed, ChildOver
    <2> QED  BY <2>2, <2>3, <2>4, <2>5, <2>6, <2>7, <2>8, <2>9
  <1> QED  BY <1>1, <1>2, <1>3, <1>4, <1>5, <1>6

\* The daemon: what it does to all clients it does to c.
LEMMA DaemonSteps ==
    ASSUME TypeOK, NEW c \in Clients, ClientInv(c),
           Stop \/ ShutdownProbes \/ FinalizeAll \/ Gone \/ Boot
    PROVE  ClientInv(c)'
  <1> USE DEF ClientInv
  <1>1. CASE Stop
    <2>1. /\ daemon = "up" /\ daemon' = "stopping"
          /\ UNCHANGED <<client, told, hooked, gate, child, ring, request,
                         reply, conn, attached, session, registered, probes,
                         hooks>>
      BY <1>1 DEF Stop, TypeOK, Set, clientVars, wire, attachments, daemonVars
    <2>2. Observation(c)'  BY <2>1 DEF Observation, LetGo, Unlost, Full
    <2>3. Ending(c)'  BY <2>1 DEF Ending
    <2>4. /\ OneMessage(c)' /\ ChildAtGate(c)' /\ SessionFirst(c)' /\ Telling(c)'
         /\ Attachments(c)' /\ RingInUse(c)'
      BY <2>1 DEF OneMessage, Closed, Asking, Unlost, Asked, Serving,
             ChildAtGate, ChildOver, SessionFirst, Telling, Attachments,
             Unattached, Full, RingInUse
    <2> QED  BY <2>2, <2>3, <2>4
  <1>2. CASE ShutdownProbes
    <2>1. /\ daemon = "stopping" /\ daemon' = "quiet"
          /\ c \notin probes' /\ c \notin hooks'
          /\ UNCHANGED <<client, told, hooked, gate, child, ring, request,
                         reply, conn, attached, session, registered>>
      BY <1>2 DEF ShutdownProbes, TypeOK, Set, clientVars, wire, attachments,
             daemonVars
    <2>2. Attachments(c)'  BY <2>1 DEF Attachments, Unattached, Unlost, Full
    <2>3. RingInUse(c)'  BY <2>1 DEF RingInUse, Unlost
    <2>4. Observation(c)'  BY <2>1 DEF Observation, LetGo, Unlost, Full
    <2>5. Ending(c)'  BY <2>1 DEF Ending
    <2>6. OneMessage(c)' /\ ChildAtGate(c)' /\ SessionFirst(c)' /\ Telling(c)'
      BY <2>1 DEF OneMessage, Closed, Asking, Unlost, Asked, Serving,
             ChildAtGate, ChildOver, SessionFirst, Telling
    <2> QED  BY <2>2, <2>3, <2>4, <2>5, <2>6
  <1>3. CASE FinalizeAll
    <2>1. /\ daemon = "quiet" /\ daemon' = "drained" /\ c \notin registered'
          /\ session'[c] = IF c \in registered THEN "shutdown" ELSE session[c]
          /\ UNCHANGED <<client, told, hooked, gate, child, ring, request,
                         reply, conn, attached, probes, hooks>>
      BY <1>3 DEF FinalizeAll, TypeOK, Set, clientVars, wire, attachments,
             daemonVars
    <2>2. SessionFirst(c)'  BY <2>1 DEF SessionFirst, Unlost, Ending
    <2>3. Telling(c)'  BY <2>1 DEF Telling, Ending
    <2>4. Attachments(c)'  BY <2>1 DEF Attachments, Unattached, Unlost, Full
    <2>5. Observation(c)'  BY <2>1 DEF Observation, LetGo, Unlost, Full
    <2>6. Ending(c)'  BY <2>1 DEF Ending
    <2>7. OneMessage(c)' /\ ChildAtGate(c)' /\ RingInUse(c)'
      BY <2>1 DEF OneMessage, Closed, Asking, Unlost, Asked, Serving,
             ChildAtGate, ChildOver, RingInUse
    <2> QED  BY <2>2, <2>3, <2>4, <2>5, <2>6, <2>7
  <1>4. CASE Gone
    <2>1. /\ daemon' = "down" /\ request'[c] = "none"
          /\ conn'[c] = IF conn[c] \in {"none", "closed"} THEN conn[c] ELSE "lost"
          /\ c \notin registered' /\ c \notin probes' /\ c \notin hooks'
          /\ UNCHANGED <<client, told, hooked, gate, child, ring, reply,
                         attached, session>>
      BY <1>4 DEF Gone, TypeOK, Set, clientVars, wire, attachments, daemonVars
    <2>2. OneMessage(c)'
      BY <2>1 DEF OneMessage, Closed, Asking, Unlost, Cleanup
    <2>3. SessionFirst(c)'  BY <2>1 DEF SessionFirst
    <2>4. Attachments(c)'  BY <2>1 DEF Attachments, Unattached, Unlost, Full
    <2>5. RingInUse(c)'  BY <2>1 DEF RingInUse, Unlost
    <2>6. Observation(c)'  BY <2>1 DEF Observation, LetGo, Unlost
    <2>7. Ending(c)'  BY <2>1 DEF Ending
    <2>8. ChildAtGate(c)' /\ Telling(c)'
      BY <2>1 DEF ChildAtGate, Closed, ChildOver, Telling
    <2> QED  BY <2>2, <2>3, <2>4, <2>5, <2>6, <2>7, <2>8
  <1>5. CASE Boot
    <2>1. /\ daemon = "down" /\ daemon' = "up"
          /\ session'[c] = IF session[c] = "open" THEN "recovered" ELSE session[c]
          /\ ring'[c] = IF ring[c] = "file" THEN "removed" ELSE ring[c]
          /\ UNCHANGED <<client, told, hooked, gate, child, request, reply,
                         conn, attached, registered, probes, hooks>>
      BY <1>5 DEF Boot, Recovered, TypeOK, Set, clientVars, wire, attachments,
             daemonVars
    <2>2. SessionFirst(c)'  BY <2>1 DEF SessionFirst, Unlost
    <2>3. Telling(c)'  BY <2>1 DEF Telling
    <2>4. Attachments(c)'  BY <2>1 DEF Attachments, Unattached, Unlost, Full
    <2>5. RingInUse(c)'
      BY <2>1 DEF RingInUse, Unlost, OneMessage, Closed, Attachments,
             Unattached, Ending
    <2>6. Observation(c)'
      BY <2>1 DEF Observation, LetGo, Unlost, OneMessage, Closed, Ending
    <2>7. Ending(c)'
      BY <2>1 DEF Ending, OneMessage, Attachments, Unattached, SessionFirst
    <2>8. OneMessage(c)' /\ ChildAtGate(c)'
      BY <2>1 DEF OneMessage, Closed, Asking, Unlost, Asked, Serving,
             ChildAtGate, ChildOver
    <2> QED  BY <2>2, <2>3, <2>4, <2>5, <2>6, <2>7, <2>8
  <1> QED  BY <1>1, <1>2, <1>3, <1>4, <1>5

-----------------------------------------------------------------------------
(* A step of one client leaves the others alone.                           *)

Untouched(d) ==
    /\ client'[d] = client[d] /\ told'[d] = told[d] /\ gate'[d] = gate[d]
    /\ child'[d] = child[d] /\ ring'[d] = ring[d] /\ conn'[d] = conn[d]
    /\ request'[d] = request[d] /\ reply'[d] = reply[d]
    /\ attached'[d] = attached[d] /\ session'[d] = session[d]
    /\ (d \in hooked') <=> (d \in hooked)
    /\ (d \in registered') <=> (d \in registered)
    /\ (d \in probes') <=> (d \in probes)
    /\ (d \in hooks') <=> (d \in hooks)
    /\ daemon' = daemon

\* Whatever changes elsewhere, an untouched client's invariant still holds.
LEMMA Frame ==
    ASSUME NEW d \in Clients, ClientInv(d), Untouched(d)
    PROVE  ClientInv(d)'
  <1> USE DEF ClientInv, Untouched
  <1>1. OneMessage(d)'  BY DEF OneMessage, Closed, Asking, Unlost, Asked, Serving
  <1>2. ChildAtGate(d)' /\ Telling(d)'
    BY DEF ChildAtGate, Closed, ChildOver, Telling
  <1>3. SessionFirst(d)' /\ RingInUse(d)'
    BY DEF SessionFirst, RingInUse, Unlost
  <1>4. Attachments(d)'  BY DEF Attachments, Unattached, Unlost, Full
  <1>5. Observation(d)'  BY DEF Observation, LetGo, Unlost, Known, Full
  <1>6. Ending(d)'  BY DEF Ending
  <1> QED  BY <1>1, <1>2, <1>3, <1>4, <1>5, <1>6

\* The steps of client c.
ClientStep(c) ==
    Connect(c) \/ Record(c) \/ Kill(c) \/ ExecGate(c) \/ ChildDies(c)
      \/ ChildExits(c) \/ Handle(c)

\* A step of one client leaves every other untouched.
LEMMA Elsewhere ==
    ASSUME TypeOK, NEW c \in Clients, NEW d \in Clients, d # c, ClientStep(c)
    PROVE  Untouched(d)
  <1> USE DEF TypeOK, Untouched, Set, clientVars, wire, attachments, daemonVars
  <1>1. CASE Connect(c)  BY <1>1 DEF Connect
  <1>2. CASE CreateRing(c)  BY <1>2 DEF CreateRing
  <1>3. CASE Spawn(c)  BY <1>3 DEF Spawn
  <1>4. CASE AttachAnswered(c)  BY <1>4 DEF AttachAnswered
  <1>5. CASE HookAnswered(c)  BY <1>5 DEF HookAnswered
  <1>6. CASE Refused(c)  BY <1>6 DEF Refused
  <1>7. CASE AttachLost(c)  BY <1>7 DEF AttachLost
  <1>8. CASE Go(c)  BY <1>8 DEF Go
  <1>9. CASE Waited(c)  BY <1>9 DEF Waited
  <1>10. CASE Unhooked(c)  BY <1>10 DEF Unhooked, Answered
  <1>11. CASE Detached(c)  BY <1>11 DEF Detached, Answered
  <1>12. CASE RemoveRing(c)  BY <1>12 DEF RemoveRing
  <1>13. CASE Kill(c)  BY <1>13 DEF Kill
  <1>14. CASE GateOpens(c)  BY <1>14 DEF GateOpens, ChildTo
  <1>15. CASE GateCloses(c)  BY <1>15 DEF GateCloses, ChildTo
  <1>16. CASE ChildDies(c)  BY <1>16 DEF ChildDies, ChildTo
  <1>17. CASE ChildExits(c)  BY <1>17 DEF ChildExits, ChildTo
  <1>18. CASE ReadRequest(c)  BY <1>18 DEF ReadRequest, NowAttached
  <1>19. CASE AttachScoped(c)  BY <1>19 DEF AttachScoped
  <1>20. CASE AttachRefused(c)  BY <1>20 DEF AttachRefused, Answer
  <1>21. CASE StartProbes(c)  BY <1>21 DEF StartProbes, Answer
  <1>22. CASE AttachMetalHook(c)  BY <1>22 DEF AttachMetalHook, Answer
  <1>23. CASE DetachMetalHook(c)  BY <1>23 DEF DetachMetalHook, Answer
  <1>24. CASE StopProbes(c)  BY <1>24 DEF StopProbes
  <1>25. CASE DetachScoped(c)  BY <1>25 DEF DetachScoped, Answer, End
  <1>26. CASE Disconnected(c)  BY <1>26 DEF Disconnected
  <1>27. CASE AwaitChild(c)  BY <1>27 DEF AwaitChild
  <1>28. CASE AutoUnhook(c)  BY <1>28 DEF AutoUnhook
  <1>29. CASE AutoRemoveRing(c)  BY <1>29 DEF AutoRemoveRing
  <1>30. CASE AutoStopProbes(c)  BY <1>30 DEF AutoStopProbes
  <1>31. CASE AutoDetach(c)  BY <1>31 DEF AutoDetach, End
  <1> QED  BY <1>1, <1>2, <1>3, <1>4, <1>5, <1>6, <1>7, <1>8, <1>9, <1>10,
           <1>11, <1>12, <1>13, <1>14, <1>15, <1>16, <1>17, <1>18, <1>19, <1>20,
           <1>21, <1>22, <1>23, <1>24, <1>25, <1>26, <1>27, <1>28, <1>29, <1>30,
           <1>31 DEF ClientStep, Record, ExecGate, Handle

\* The type invariant is inductive by itself.
LEMMA TypeOKHolds ==
    ASSUME TypeOK, [Next]_vars
    PROVE  TypeOK'
  <1> USE DEF TypeOK, Set, clientVars, wire, attachments, daemonVars
  <1>1. ASSUME NEW c \in Clients, ClientStep(c) PROVE TypeOK'
    <2>1. CASE Connect(c)
      BY <2>1 DEF Connect, Places, Asking, HandlerPlaces, Cleanup, Requests
    <2>2. CASE CreateRing(c)
      BY <2>2 DEF CreateRing, Places, Asking
    <2>3. CASE Spawn(c)
      BY <2>3 DEF Spawn, Places, Asking, Requests
    <2>4. CASE AttachAnswered(c)
      BY <2>4 DEF AttachAnswered, Places, Asking, Requests
    <2>5. CASE HookAnswered(c)
      BY <2>5 DEF HookAnswered, Places, Asking
    <2>6. CASE Refused(c)
      BY <2>6 DEF Refused, Places, Asking
    <2>7. CASE AttachLost(c)
      BY <2>7 DEF AttachLost, Places, Asking
    <2>8. CASE Go(c)
      BY <2>8 DEF Go, Places, Asking
    <2>9. CASE Waited(c)
      BY <2>9 DEF Waited, Places, Asking, Requests
    <2>10. CASE Unhooked(c)
      BY <2>10 DEF Unhooked, Answered, Places, Asking, Requests
    <2>11. CASE Detached(c)
      BY <2>11 DEF Detached, Answered, Places, Asking
    <2>12. CASE RemoveRing(c)
      BY <2>12 DEF RemoveRing, Places, Asking
    <2>13. CASE Kill(c)
      BY <2>13 DEF Kill, Places, Asking
    <2>14. CASE GateOpens(c)
      BY <2>14 DEF GateOpens, ChildTo
    <2>15. CASE GateCloses(c)
      BY <2>15 DEF GateCloses, ChildTo
    <2>16. CASE ChildDies(c)
      BY <2>16 DEF ChildDies, ChildTo
    <2>17. CASE ChildExits(c)
      BY <2>17 DEF ChildExits, ChildTo
    <2>18. CASE ReadRequest(c)
      BY <2>18 DEF ReadRequest, NowAttached, Requests, HandlerPlaces, Cleanup
    <2>19. CASE AttachScoped(c)
      BY <2>19 DEF AttachScoped, HandlerPlaces, Cleanup, Requests, Ends
    <2>20. CASE AttachRefused(c)
      BY <2>20 DEF AttachRefused, Answer, HandlerPlaces, Cleanup, Requests
    <2>21. CASE StartProbes(c)
      BY <2>21 DEF StartProbes, Answer, HandlerPlaces, Cleanup, Requests
    <2>22. CASE AttachMetalHook(c)
      BY <2>22 DEF AttachMetalHook, Answer, HandlerPlaces, Cleanup, Requests
    <2>23. CASE DetachMetalHook(c)
      BY <2>23 DEF DetachMetalHook, Answer, HandlerPlaces, Cleanup, Requests
    <2>24. CASE StopProbes(c)
      BY <2>24 DEF StopProbes, HandlerPlaces, Cleanup, Requests
    <2>25. CASE DetachScoped(c)
      BY <2>25 DEF DetachScoped, Answer, End, HandlerPlaces, Cleanup, Requests,
             Ends
    <2>26. CASE Disconnected(c)
      BY <2>26 DEF Disconnected, HandlerPlaces, Cleanup, Requests
    <2>27. CASE AwaitChild(c)
      BY <2>27 DEF AwaitChild, HandlerPlaces, Cleanup, Requests
    <2>28. CASE AutoUnhook(c)
      BY <2>28 DEF AutoUnhook, HandlerPlaces, Cleanup, Requests
    <2>29. CASE AutoRemoveRing(c)
      BY <2>29 DEF AutoRemoveRing, HandlerPlaces, Cleanup, Requests
    <2>30. CASE AutoStopProbes(c)
      BY <2>30 DEF AutoStopProbes, HandlerPlaces, Cleanup, Requests
    <2>31. CASE AutoDetach(c)
      BY <2>31 DEF AutoDetach, End, HandlerPlaces, Cleanup, Requests, Ends
    <2> QED  BY <1>1, <2>1, <2>2, <2>3, <2>4, <2>5, <2>6, <2>7, <2>8, <2>9,
             <2>10, <2>11, <2>12, <2>13, <2>14, <2>15, <2>16, <2>17, <2>18,
             <2>19, <2>20, <2>21, <2>22, <2>23, <2>24, <2>25, <2>26, <2>27,
             <2>28, <2>29, <2>30, <2>31
               DEF ClientStep, Record, ExecGate, Handle
  <1>2. CASE Stop  BY <1>2 DEF Stop
  <1>3. CASE ShutdownProbes  BY <1>3 DEF ShutdownProbes
  <1>4. CASE FinalizeAll  BY <1>4 DEF FinalizeAll, Ends
  <1>5. CASE Exit  BY <1>5 DEF Exit, Gone, HandlerPlaces
  <1>6. CASE Crash  BY <1>6 DEF Crash, Gone, HandlerPlaces
  <1>7. CASE Boot  BY <1>7 DEF Boot, Recovered, Ends
  <1>8. CASE UNCHANGED vars  BY <1>8 DEF vars
  <1> QED  BY <1>1, <1>2, <1>3, <1>4, <1>5, <1>6, <1>7, <1>8
           DEF Next, Daemon, ClientStep

-----------------------------------------------------------------------------
(* The invariant holds of every behaviour.                                 *)

\* Nobody has connected: every part holds of every client.
LEMMA InitIInv == Init => IInv
  <1> SUFFICES ASSUME Init PROVE IInv
    OBVIOUS
  <1>1. TypeOK
    BY DEF Init, TypeOK, Places, HandlerPlaces
  <1>2. ASSUME NEW c \in Clients PROVE ClientInv(c)
    <2>1. /\ client[c] = "new" /\ told[c] = "nothing" /\ gate[c] = "none"
          /\ child[c] = "none" /\ ring[c] = "none" /\ request[c] = "none"
          /\ reply[c] = "none" /\ conn[c] = "none" /\ attached[c] = {}
          /\ session[c] = "none" /\ hooked = {} /\ registered = {}
          /\ probes = {} /\ hooks = {} /\ daemon = "up"
      BY DEF Init
    <2>2. OneMessage(c) /\ ChildAtGate(c)
      BY <2>1 DEF OneMessage, ChildAtGate, Closed, Asking, Cleanup
    <2>3. SessionFirst(c) /\ Telling(c)
      BY <2>1 DEF SessionFirst, Telling
    <2>4. Attachments(c)
      BY <2>1 DEF Attachments, Unattached
    <2>5. RingInUse(c) /\ Observation(c) /\ Ending(c)
      BY <2>1 DEF RingInUse, Observation, LetGo, Ending
    <2> QED  BY <2>2, <2>3, <2>4, <2>5 DEF ClientInv
  <1> QED  BY <1>1, <1>2 DEF IInv

\* A step of a client by the cases above, one of another client by Frame.
LEMMA NextIInv == IInv /\ [Next]_vars => IInv'
  <1> SUFFICES ASSUME IInv, [Next]_vars PROVE IInv'
    OBVIOUS
  <1> USE DEF IInv
  <1>1. TypeOK'
    BY TypeOKHolds
  <1>2. ASSUME NEW d \in Clients PROVE ClientInv(d)'
    <2>1. ClientInv(d)
      OBVIOUS
    <2>2. ASSUME NEW c \in Clients, ClientStep(c) PROVE ClientInv(d)'
      <3>1. CASE c = d
        BY <2>1, <2>2, <3>1, RecordAsks, RecordParts, ChildSteps, HandlerServes, HandlerCleans
        DEF ClientStep, Record, ExecGate, Handle
      <3>2. CASE c # d
        BY <2>1, <2>2, <3>2, Elsewhere, Frame
      <3> QED  BY <3>1, <3>2
    <2>3. CASE Stop \/ ShutdownProbes \/ FinalizeAll \/ Exit \/ Crash \/ Boot
      BY <2>1, <2>3, DaemonSteps DEF Exit, Crash
    <2>4. CASE UNCHANGED vars
      BY <2>1, <2>4, Frame
      DEF Untouched, vars, clientVars, wire, attachments, daemonVars
    <2> QED  BY <2>2, <2>3, <2>4 DEF Next, Daemon, ClientStep
  <1> QED  BY <1>1, <1>2

\* The inductive invariant, the type invariant with it, always holds.
THEOREM Invariant == Spec => []IInv
  <1> QED  BY InitIInv, NextIInv, PTL DEF Spec

\* The command runs recorded, from its first instruction to its last, however
\* many records run and however often the daemon stops or dies.
THEOREM RunIsRecordedHolds == Spec => []RunIsRecorded
  <1>1. IInv => RunIsRecorded
    <2> SUFFICES ASSUME IInv, NEW c \in Clients
                 PROVE  /\ child[c] \in {"running", "exited"}
                            => session[c] # "none"
                        /\ told[c] = "refused"
                            => child[c] = "unrun" /\ session[c] = "none"
                        /\ child[c] = "running" /\ daemon = "up" /\ ~Lost(c)
                            => /\ c \in registered /\ session[c] = "open"
                               /\ c \in probes /\ (c \in hooked => c \in hooks)
      BY DEF RunIsRecorded, RunsOnlyWhenRecorded, RunIsObserved
    <2>1. ChildAtGate(c) /\ SessionFirst(c) /\ Telling(c) /\ Observation(c)
      BY DEF IInv, ClientInv
    <2>2. child[c] \in {"running", "exited"} => session[c] # "none"
      BY <2>1 DEF ChildAtGate, SessionFirst
    <2>3. told[c] = "refused" => child[c] = "unrun" /\ session[c] = "none"
      BY <2>1 DEF Telling
    <2>4. child[c] = "running" => LetGo(c)
      BY <2>1 DEF LetGo, ChildAtGate
    <2> QED  BY <2>1, <2>2, <2>3, <2>4 DEF Observation, Unlost, Lost, Known
  <1> QED  BY <1>1, Invariant, PTL

\* When record tells of no loss, the session ended with its command's status,
\* or because the daemon shut down.
THEOREM CompleteMeansExitStatusHolds == Spec => []CompleteMeansExitStatus
  <1>1. IInv => CompleteMeansExitStatus
    BY DEF IInv, ClientInv, Ending, CompleteMeansExitStatus
  <1> QED  BY <1>1, Invariant, PTL

\* No ring is removed under a hook that is drained, and a handler that is
\* through leaves no session, probe, hook or ring of its client behind.
THEOREM NothingLeftNorTakenEarlyHolds == Spec => []NothingLeftNorTakenEarly
  <1>1. IInv => DrainedRingExists
    BY DEF IInv, TypeOK, ClientInv, RingInUse, DrainedRingExists
  <1>2. IInv => NothingLeftBehind
    <2> SUFFICES ASSUME IInv, NEW c \in Clients, conn[c] = "closed"
                 PROVE  /\ c \notin registered \cup probes \cup hooks
                        /\ session[c] # "open"
                        /\ "hook" \in attached[c] => ring[c] = "removed"
      BY DEF NothingLeftBehind
    <2>1. Attachments(c) /\ Ending(c)
      BY DEF IInv, ClientInv
    <2> QED  BY <2>1 DEF Attachments, Unattached, Ending
  <1> QED  BY <1>1, <1>2, Invariant, PTL DEF NothingLeftNorTakenEarly
=============================================================================
