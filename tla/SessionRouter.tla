----------------------------- MODULE SessionRouter -----------------------------
(***************************************************************************)
(* The sessions of the daemon and the router that feeds them               *)
(* (crates/smeltr-daemon: session_router.rs, sessions.rs).                 *)
(*                                                                         *)
(* Connections, probes, the periodic flush and the shutdown call the       *)
(* router from threads of their own.  One action per critical section:     *)
(* `call[t].at' is where thread t stands between two of them.  by_token    *)
(* and the lock of a session are held within one action only; by_pid and   *)
(* attach_order may be held from one action to the next.                   *)
(*                                                                         *)
(* What a session does with an event it accepts is SessionWriter's matter; *)
(* here it may accept or refuse it.                                        *)
(***************************************************************************)
EXTENDS Integers, Sequences, FiniteSets, SequencesExt

CONSTANTS
    Threads, Pids, Tokens,
    NoThread, NoPid, NoToken,
    Launched,        \* pids of the children that record launches
    Requests,        \* events offered: [mark, pid, token]
    MayRefuse,       \* whether a session's writer may refuse an event
    MaxSessions,     \* bound: sessions opened, the ambient one included
    MaxEmits         \* bound: events offered

ASSUME RouterAssumption ==
    /\ NoThread \notin Threads /\ NoPid \notin Pids /\ NoToken \notin Tokens
    /\ Launched \subseteq Pids
    /\ Requests \subseteq [mark : BOOLEAN, pid : Pids \cup {NoPid},
                           token : Tokens \cup {NoToken}]
    /\ MayRefuse \in BOOLEAN /\ MaxSessions \in Nat \ {0} /\ MaxEmits \in Nat

VARIABLES
    session,             \* sessions by number: [pid, token, open, log]
    byPid, byToken,      \* registered session, 0 when there is none
    order,               \* attach_order: pids, newest last
    pidLock, orderLock,  \* holder of by_pid, of attach_order
    call,                \* the call each thread is in
    bus,                 \* events published: <<session, position in its log>>
    stage,               \* of the daemon: serving, stopping, stopped
    emits                \* events offered so far

registry == <<byPid, byToken, order>>
locks == <<pidLock, orderLock>>
vars == <<session, registry, locks, call, bus, stage, emits>>

Ambient == 1
NoSession == 0
Sessions == 1 .. Len(session)

\* A call: its arguments req, the session it is about (target), the one it
\* superseded (prev), those finalize_all has yet to finalize (rest), the
\* position of the event just written (pos) and what follows its publishing
\* (then); history: the recordings in progress when it began (since).
NoRequest == [mark |-> FALSE, pid |-> NoPid, token |-> NoToken]
Idle == [op |-> "none", at |-> "idle", req |-> NoRequest,
         target |-> NoSession, prev |-> NoSession, rest |-> {},
         pos |-> 0, then |-> "idle", since |-> {}]

Init ==
    /\ session = <<[pid |-> NoPid, token |-> NoToken, open |-> TRUE,
                    log |-> <<"started">>]>>
    /\ byPid = [p \in Pids |-> NoSession]
    /\ byToken = [k \in Tokens |-> NoSession]
    /\ order = <<>> /\ pidLock = NoThread /\ orderLock = NoThread
    /\ call = [t \in Threads |-> Idle]
    /\ bus = {<<Ambient, 1>>} /\ stage = "serving" /\ emits = 0

Begin(t, c) ==
    call[t] = Idle /\ stage # "stopped" /\ call' = [call EXCEPT ![t] = c]
At(t, op, place) == call[t].op = op /\ call[t].at = place
Goto(t, place) == call' = [call EXCEPT ![t].at = place]
GotoWith(t, place, s) == call' = [call EXCEPT ![t].at = place, ![t].target = s]
Return(t) == call' = [call EXCEPT ![t] = Idle]

\* A pid is that of one client's child, which waits at the exec gate or has
\* exited: its attach and its detach do not overlap.
Busy(p) == \E t \in Threads : /\ call[t].op \in {"attach", "detach"}
                              /\ call[t].req.pid = p

\* Recordings in progress: registered by an attach that is done with them.
Recordings == {s \in Sessions \ {Ambient} :
                  /\ byPid[session[s].pid] = s
                  /\ \A t \in Threads :
                       call[t].op = "attach" => call[t].target # s}

-----------------------------------------------------------------------------
(* append_internal: write under the lock of the session, then publish.     *)

Write(t, kind, then) ==
    LET s == call[t].target IN
    /\ session[s].open
    /\ session' = [session EXCEPT ![s].log = Append(@, kind)]
    /\ call' = [call EXCEPT ![t].at = "publish", ![t].then = then,
                            ![t].pos = Len(session[s].log) + 1]

\* The session is finalized, or its writer does not keep the event.
Refuses(s) == ~session[s].open \/ MayRefuse

\* To the flight recorder and the bus.
Publish(t) ==
    /\ call[t].at = "publish"
    /\ bus' = bus \cup {<<call[t].target, call[t].pos>>}
    /\ IF call[t].then = "idle" THEN Return(t) ELSE Goto(t, call[t].then)
    /\ UNCHANGED <<session, registry, locks, stage, emits>>

-----------------------------------------------------------------------------
(* append: route_for, one registry after the other, then the session.      *)

Emit(t, r) ==
    /\ emits < MaxEmits /\ emits' = emits + 1
    /\ Begin(t, [Idle EXCEPT !.op = "emit", !.at = "token", !.req = r,
                             !.since = Recordings])
    /\ UNCHANGED <<session, registry, locks, bus, stage>>

\* Mutant: the token is for events without a pid.
RouteByTokenLast(t) ==
    /\ At(t, "emit", "token")
    /\ LET k == call[t].req.token
       IN  IF k # NoToken /\ byToken[k] # NoSession /\ call[t].req.pid = NoPid
           THEN GotoWith(t, "write", byToken[k])
           ELSE Goto(t, "pid")
    /\ UNCHANGED <<session, registry, locks, bus, stage, emits>>

RouteByToken(t) ==
    /\ At(t, "emit", "token")
    /\ LET k == call[t].req.token
       IN  IF k # NoToken /\ byToken[k] # NoSession
           THEN GotoWith(t, "write", byToken[k])
           ELSE Goto(t, "pid")
    /\ UNCHANGED <<session, registry, locks, bus, stage, emits>>

\* Mutant: by_pid stays locked while the newest one is looked for.
RouteByPidLocked(t) ==
    /\ At(t, "emit", "pid")
    /\ LET p == call[t].req.pid
       IN  /\ p # NoPid => pidLock = NoThread
           /\ IF p # NoPid /\ byPid[p] # NoSession
              THEN GotoWith(t, "write", byPid[p]) /\ UNCHANGED pidLock
              ELSE IF call[t].req.mark
                   THEN Goto(t, "newest") /\ pidLock' = t
                   ELSE GotoWith(t, "write", Ambient) /\ UNCHANGED pidLock
    /\ UNCHANGED <<session, registry, orderLock, bus, stage, emits>>

RouteByPid(t) ==
    /\ At(t, "emit", "pid")
    /\ LET p == call[t].req.pid
       IN  /\ p # NoPid => pidLock = NoThread
           /\ IF p # NoPid /\ byPid[p] # NoSession
              THEN GotoWith(t, "write", byPid[p])
              ELSE IF call[t].req.mark
                   THEN Goto(t, "newest")
                   ELSE GotoWith(t, "write", Ambient)
    /\ UNCHANGED <<session, registry, locks, bus, stage, emits>>

\* newest_scoped: by_pid is locked with attach_order held.
LockOrder(t) ==
    /\ At(t, "emit", "newest")
    /\ orderLock = NoThread /\ orderLock' = t
    /\ Goto(t, "find")
    /\ UNCHANGED <<session, registry, pidLock, bus, stage, emits>>

\* The last attached that is registered, else the ambient session.
Newest ==
    LET known == {i \in DOMAIN order : byPid[order[i]] # NoSession}
        last == CHOOSE i \in known : \A j \in known : j <= i
    IN  IF known = {} THEN Ambient ELSE byPid[order[last]]

RouteToNewest(t) ==
    /\ At(t, "emit", "find") /\ pidLock = NoThread
    /\ GotoWith(t, "write", Newest) /\ orderLock' = NoThread
    /\ UNCHANGED <<session, registry, pidLock, bus, stage, emits>>

WriteEvent(t) ==
    /\ At(t, "emit", "write")
    /\ \/ Write(t, "event", "idle")
       \/ Refuses(call[t].target) /\ Return(t) /\ UNCHANGED session
    /\ UNCHANGED <<registry, locks, bus, stage, emits>>

-----------------------------------------------------------------------------
(* finalize, on call[t].target: append SessionEnded; then take the writer. *)

WriteEnded(t) ==
    /\ call[t].at = "end"
    /\ \/ Write(t, "ended", "take")
       \/ Refuses(call[t].target) /\ Goto(t, "take") /\ UNCHANGED session
    /\ UNCHANGED <<registry, locks, bus, stage, emits>>

TakeWriter(t) ==
    /\ call[t].at = "take"
    /\ session' = [session EXCEPT ![call[t].target].open = FALSE]
    /\ IF call[t].op = "shutdown"
       THEN GotoWith(t, "next", NoSession)
       ELSE Return(t)
    /\ UNCHANGED <<registry, locks, bus, stage, emits>>

-----------------------------------------------------------------------------
(* attach_scoped                                                           *)

\* open_scoped.  When it fails nothing is registered and the client is told.
AttachScoped(t, p, k) ==
    /\ Len(session) < MaxSessions
    /\ ~Busy(p)
    \* record stamps a fresh UUID on its child.
    /\ k # NoToken => \A s \in Sessions : session[s].token # k
    /\ session' = Append(session, [pid |-> p, token |-> k, open |-> TRUE,
                                   log |-> <<"started">>])
    /\ Begin(t, [Idle EXCEPT !.op = "attach", !.at = "publish", !.pos = 1,
                             !.req = [mark |-> FALSE, pid |-> p, token |-> k],
                             !.target = Len(session) + 1, !.then = "insert"])
    /\ UNCHANGED <<registry, locks, bus, stage, emits>>

InsertPid(t) ==
    /\ At(t, "attach", "insert") /\ pidLock = NoThread
    /\ LET p == call[t].req.pid
       IN  /\ byPid' = [byPid EXCEPT ![p] = call[t].target]
           /\ call' = [call EXCEPT ![t].at = "order", ![t].prev = byPid[p]]
    /\ UNCHANGED <<session, byToken, order, locks, bus, stage, emits>>

\* attach_order.retain: all but p, in order.
Without(p) ==
    LET kept[i \in 0 .. Len(order)] ==
          IF i = 0 THEN <<>>
          ELSE IF order[i] = p THEN kept[i - 1] ELSE Append(kept[i - 1], order[i])
    IN  kept[Len(order)]

\* The recording of p becomes the newest.
AsNewest(p) == Append(Without(p), p)

InsertOrder(t) ==
    /\ At(t, "attach", "order") /\ orderLock = NoThread
    /\ order' = AsNewest(call[t].req.pid)
    /\ Goto(t, "register")
    /\ UNCHANGED <<session, byPid, byToken, locks, bus, stage, emits>>

InsertToken(t) ==
    /\ At(t, "attach", "register")
    /\ LET k == call[t].req.token
       IN  byToken' = IF k = NoToken THEN byToken
                      ELSE [byToken EXCEPT ![k] = call[t].target]
    /\ IF call[t].prev = NoSession
       THEN Return(t)
       ELSE GotoWith(t, "unregister", call[t].prev)
    /\ UNCHANGED <<session, byPid, order, locks, bus, stage, emits>>

\* The token of the superseded session, unless it names another by now.
DropPrevToken(t) ==
    /\ At(t, "attach", "unregister")
    /\ LET k == session[call[t].target].token
       IN  byToken' = IF k # NoToken /\ byToken[k] = call[t].target
                      THEN [byToken EXCEPT ![k] = NoSession] ELSE byToken
    /\ Goto(t, "end")
    /\ UNCHANGED <<session, byPid, order, locks, bus, stage, emits>>

-----------------------------------------------------------------------------
(* detach_scoped                                                           *)

\* Mutant: the registration stays until the session is finalized.
DetachScopedShared(t, p) ==
    /\ ~Busy(p) /\ pidLock = NoThread /\ byPid[p] # NoSession
    /\ Begin(t, [Idle EXCEPT !.op = "detach", !.at = "unorder",
                             !.req = [NoRequest EXCEPT !.pid = p],
                             !.target = byPid[p]])
    /\ UNCHANGED <<session, registry, locks, bus, stage, emits>>

\* A pid without a session is left alone.
DetachScoped(t, p) ==
    /\ ~Busy(p) /\ pidLock = NoThread /\ byPid[p] # NoSession
    /\ byPid' = [byPid EXCEPT ![p] = NoSession]
    /\ Begin(t, [Idle EXCEPT !.op = "detach", !.at = "unorder",
                             !.req = [NoRequest EXCEPT !.pid = p],
                             !.target = byPid[p]])
    /\ UNCHANGED <<session, byToken, order, locks, bus, stage, emits>>

RemoveOrder(t) ==
    /\ At(t, "detach", "unorder") /\ orderLock = NoThread
    /\ order' = Without(call[t].req.pid)
    /\ Goto(t, "unregister")
    /\ UNCHANGED <<session, byPid, byToken, locks, bus, stage, emits>>

RemoveToken(t) ==
    /\ At(t, "detach", "unregister")
    /\ LET k == session[call[t].target].token
       IN  byToken' = IF k = NoToken THEN byToken
                      ELSE [byToken EXCEPT ![k] = NoSession]
    /\ Goto(t, "end")
    /\ UNCHANGED <<session, byPid, order, locks, bus, stage, emits>>

-----------------------------------------------------------------------------
(* finalize_all, on shutdown; and flush_all, which holds by_pid over the   *)
(* flush of every session.                                                 *)

FinalizeAll(t) ==
    /\ stage = "serving" /\ stage' = "stopping" /\ pidLock = NoThread
    /\ byPid' = [p \in Pids |-> NoSession]
    /\ Begin(t, [Idle EXCEPT !.op = "shutdown", !.at = "clear",
                             !.rest = {byPid[p] : p \in Pids} \ {NoSession}])
    /\ UNCHANGED <<session, byToken, order, locks, bus, emits>>

ClearTokens(t) ==
    /\ At(t, "shutdown", "clear")
    /\ byToken' = [k \in Tokens |-> NoSession]
    /\ Goto(t, "next")
    /\ UNCHANGED <<session, byPid, order, locks, bus, stage, emits>>

\* The scoped sessions in any order, then the ambient one; then main returns,
\* and no call begins any more.
FinalizeNext(t) ==
    /\ At(t, "shutdown", "next")
    /\ \/ \E s \in call[t].rest :
            /\ call' = [call EXCEPT ![t].at = "end", ![t].target = s,
                                    ![t].rest = @ \ {s}]
            /\ UNCHANGED stage
       \/ /\ call[t].rest = {} /\ session[Ambient].open
          /\ GotoWith(t, "end", Ambient)
          /\ UNCHANGED stage
       \/ /\ call[t].rest = {} /\ ~session[Ambient].open
          /\ Return(t) /\ stage' = "stopped"
    /\ UNCHANGED <<session, registry, locks, bus, emits>>

FlushAll(t) ==
    /\ pidLock = NoThread /\ pidLock' = t
    /\ Begin(t, [Idle EXCEPT !.op = "flush", !.at = "flush"])
    /\ UNCHANGED <<session, registry, orderLock, bus, stage, emits>>

FlushDone(t) ==
    /\ At(t, "flush", "flush") /\ pidLock' = NoThread /\ Return(t)
    /\ UNCHANGED <<session, registry, orderLock, bus, stage, emits>>

-----------------------------------------------------------------------------

Start(t) ==
    \/ \E r \in Requests : Emit(t, r)
    \/ \E p \in Launched, k \in Tokens \cup {NoToken} : AttachScoped(t, p, k)
    \/ \E p \in Launched : DetachScoped(t, p)
    \/ FinalizeAll(t)
    \/ FlushAll(t)

Route(t) == \/ RouteByToken(t) \/ RouteByPid(t) \/ LockOrder(t)
            \/ RouteToNewest(t)
AttachStep(t) == \/ InsertPid(t) \/ InsertOrder(t) \/ InsertToken(t)
                 \/ DropPrevToken(t)
DetachStep(t) == RemoveOrder(t) \/ RemoveToken(t)
ShutdownStep(t) == ClearTokens(t) \/ FinalizeNext(t)

Continue(t) ==
    \/ Route(t) \/ WriteEvent(t) \/ Publish(t)
    \/ AttachStep(t) \/ DetachStep(t) \/ WriteEnded(t) \/ TakeWriter(t)
    \/ ShutdownStep(t) \/ FlushDone(t)

Next == \E t \in Threads : Start(t) \/ Continue(t)

Spec == Init /\ [][Next]_vars

-----------------------------------------------------------------------------
(* Properties.                                                             *)

\* Thread t will register or finalize session s.
Holds(t, s) ==
    \/ /\ call[t].op = "attach" /\ call[t].target = s
       /\ call[t].at \in {"insert", "unregister", "end", "take"}
             \/ call[t].at = "publish"
    \/ call[t].op = "attach" /\ call[t].prev = s /\ call[t].target # s
    \/ call[t].op \in {"detach", "shutdown"} /\ call[t].target = s
    \/ s \in call[t].rest

\* A scoped session is registered under its pid or held by exactly one thread
\* until it is finalized, and by none after: no session is finalized twice,
\* or forgotten, whatever attaches, detaches and shutdown do at once.
OneOwner ==
    \A s \in Sessions \ {Ambient} :
        LET holders == {t \in Threads : Holds(t, s)}
            registered == byPid[session[s].pid] = s
        IN  IF session[s].open
            THEN \/ registered /\ holders = {}
                 \/ ~registered /\ Cardinality(holders) = 1
            ELSE ~registered /\ holders = {}

\* Before the shutdown, and for pids whose client is not in a call: the pid
\* and the token of a recording name it and it is open, attach_order holds
\* its pid once; the pid and token of any other session name nothing.
RegistryIsSound ==
    stage = "serving" =>
        /\ \A i, j \in DOMAIN order : order[i] = order[j] => i = j
        /\ \A p \in Pids : ~Busy(p) =>
             (p \in ToSet(order) <=> byPid[p] # NoSession)
        /\ \A s \in Sessions \ {Ambient} :
             LET p == session[s].pid
                 k == session[s].token
             IN  ~Busy(p) => /\ session[s].open <=> byPid[p] = s
                             /\ k # NoToken =>
                                  (byToken[k] = s <=> session[s].open)

\* What is open is owned by one thread or by the registry, which agrees with it.
SessionsAreOwned == OneOwner /\ RegistryIsSound

\* An event written to a recording has its token or its pid, or is a mark.
\* Before the shutdown, an event offered while a recording is in progress, and
\* written while it still is, is written there when it has the token of the
\* recording, or its pid and no token; a mark from elsewhere is not left in
\* the ambient session.
NoEventStrays ==
    \A t \in Threads : At(t, "emit", "write") =>
        LET r == call[t].req
            to == call[t].target
            lasting == call[t].since \cap Recordings
            Matches(s) == IF r.token # NoToken THEN session[s].token = r.token
                                               ELSE session[s].pid = r.pid
        IN  /\ to # Ambient =>
                 r.mark \/ session[to].pid = r.pid
                        \/ (r.token # NoToken /\ session[to].token = r.token)
            /\ stage = "serving" =>
                 /\ \A s \in lasting : Matches(s) => to = s
                 /\ r.mark /\ lasting # {} => to # Ambient

\* Subscribers and the flight recorder get the events the sessions hold, and
\* no other: all but those whose writer has yet to publish them.
FeedMatchesStore ==
    LET stored == UNION {{s} \X DOMAIN session[s].log : s \in Sessions}
        unpublished == {<<call[t].target, call[t].pos>> :
                           t \in {u \in Threads : call[u].at = "publish"}}
    IN  bus = stored \ unpublished

\* Events reach their session, and subscribers what the sessions hold.
EventsGoHome == NoEventStrays /\ FeedMatchesStore

\* The locks of the router are never waited for in a circle: as long as some
\* call is not over, one can proceed.
SomeCallProceeds ==
    (\E t \in Threads : call[t].op # "none")
        => \E t \in Threads : ENABLED Continue(t)
=============================================================================
