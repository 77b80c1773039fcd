-------------------------- MODULE SessionRouterProofs --------------------------
(***************************************************************************)
(* Proofs about the router for any set of threads, pids and tokens, any    *)
(* number of sessions and events, and writers that may refuse or not.      *)
(*                                                                         *)
(* The inductive invariant follows a session from hand to hand: the thread *)
(* that attaches it, the registry, then the thread that detaches or        *)
(* supersedes it, or the shutdown.                                         *)
(***************************************************************************)
EXTENDS SessionRouter, TLAPS, FiniteSetTheorems, WellFoundedInduction,
        NaturalsInduction

Places == {"idle", "token", "pid", "newest", "find", "write", "publish",
           "insert", "order", "register", "unregister", "end", "take",
           "unorder", "clear", "next", "flush"}
Ops == {"none", "emit", "attach", "detach", "shutdown", "flush"}
Kinds == {"started", "event", "ended"}
SessionRecords == [pid : Pids \cup {NoPid}, token : Tokens \cup {NoToken},
                   open : BOOLEAN, log : Seq(Kinds)]
Numbers == {NoSession} \cup Sessions
Args == [mark : BOOLEAN, pid : Pids \cup {NoPid}, token : Tokens \cup {NoToken}]
Calls == [op : Ops, at : Places, req : Args, target : Numbers, prev : Numbers,
          rest : SUBSET (Sessions \ {Ambient}), pos : Nat,
          then : {"idle", "insert", "take"}, since : SUBSET (Sessions \ {Ambient})]

\* Type invariant of the router.
TypeOK ==
    /\ session \in Seq(SessionRecords)
    /\ Ambient \in Sessions
    /\ byPid \in [Pids -> Numbers] /\ byToken \in [Tokens -> Numbers]
    /\ order \in Seq(Pids)
    /\ pidLock \in Threads \cup {NoThread} /\ orderLock \in Threads \cup {NoThread}
    /\ call \in [Threads -> Calls]
    /\ bus \subseteq Sessions \X Nat
    /\ stage \in {"serving", "stopping", "stopped"} /\ emits \in Nat

-----------------------------------------------------------------------------
(* The calls.                                                              *)

Scoped == Sessions \ {Ambient}
\* t attaches a session that is not registered yet, or has just been.
Opening(t) == call[t].op = "attach" /\ \/ call[t].at = "insert"
                                       \/ call[t].at = "publish" /\ call[t].then = "insert"
Registering(t) == call[t].op = "attach" /\ call[t].at \in {"order", "register"}
\* t finalizes its target.
Finalizing(t) == \/ call[t].at \in {"end", "take"}
                 \/ call[t].at = "publish" /\ call[t].then = "take"
Closing(t) == /\ call[t].op \in {"attach", "detach", "shutdown"}
              /\ Finalizing(t) \/ call[t].at = "unregister"

\* Where a thread may stand in each call, and what its call is about.
EmitIsSound(t) ==
    call[t].op = "emit" =>
        /\ \/ call[t].at \in {"token", "pid", "newest", "find", "write"}
           \/ call[t].at = "publish" /\ call[t].then = "idle"
        /\ call[t].at \in {"write", "publish"} => call[t].target \in Sessions
AttachIsSound(t) ==
    call[t].op = "attach" =>
        /\ Opening(t) \/ Registering(t) \/ Closing(t)
        /\ call[t].target \in Scoped /\ call[t].req.pid \in Pids
        /\ session[call[t].target].pid = call[t].req.pid
        /\ Opening(t) => call[t].prev = NoSession
        /\ Opening(t) \/ Registering(t) =>
              session[call[t].target].token = call[t].req.token
        /\ call[t].prev # NoSession => /\ call[t].prev \in Scoped
                                       /\ session[call[t].prev].pid = call[t].req.pid
        /\ Registering(t) => call[t].prev # call[t].target
        /\ Closing(t) => call[t].prev = call[t].target
DetachIsSound(t) ==
    call[t].op = "detach" =>
        /\ call[t].at = "unorder" \/ Closing(t)
        /\ call[t].target \in Scoped /\ call[t].req.pid \in Pids
        /\ session[call[t].target].pid = call[t].req.pid
ShutdownIsSound(t) ==
    call[t].op = "shutdown" =>
        /\ call[t].at \in {"clear", "next"} \/ Finalizing(t)
        /\ call[t].at \in {"clear", "next"} <=> call[t].target = NoSession
FieldsAreSound(t) ==
    /\ call[t].op = "none" => call[t].at = "idle"
    /\ call[t].op = "flush" => call[t].at = "flush"
    /\ call[t].at = "publish" => call[t].pos \in DOMAIN session[call[t].target].log
    /\ call[t].op # "attach" => call[t].prev = NoSession
    /\ call[t].op # "shutdown" => call[t].rest = {}
    /\ call[t].target \notin call[t].rest
    /\ call[t].op # "emit" => call[t].since = {}
CallIsSound(t) == /\ EmitIsSound(t) /\ AttachIsSound(t) /\ DetachIsSound(t)
                  /\ ShutdownIsSound(t) /\ FieldsAreSound(t)

\* One attach or detach at a time for a pid.
PidsAreExclusive ==
    \A t, u \in Threads :
        /\ call[t].op \in {"attach", "detach"} /\ call[u].op \in {"attach", "detach"}
        /\ call[t].req.pid = call[u].req.pid
        => t = u

-----------------------------------------------------------------------------
(* The sessions and their owners.                                          *)

\* The registry names sessions by the pid and the token they were opened
\* with, and tokens are not used twice.
PidsAreSound ==
    /\ session[Ambient].pid = NoPid
    /\ \A s \in Scoped : session[s].pid \in Pids
    /\ \A p \in Pids : byPid[p] # NoSession => /\ byPid[p] \in Scoped
                                               /\ session[byPid[p]].pid = p
TokensAreSound ==
    /\ session[Ambient].token = NoToken
    /\ \A k \in Tokens : byToken[k] # NoSession => /\ byToken[k] \in Scoped
                                                   /\ session[byToken[k]].token = k
    /\ \A r, s \in Sessions : session[r].token = session[s].token
                                 /\ session[r].token # NoToken => r = s
Registered(s) == byPid[session[s].pid] = s

\* OneOwner, without counting.
Owned(s) ==
    /\ Registered(s) => session[s].open /\ \A t \in Threads : ~Holds(t, s)
    /\ \A t \in Threads : Holds(t, s) => session[s].open
    /\ \A t, u \in Threads : Holds(t, s) /\ Holds(u, s) => t = u
    /\ session[s].open => Registered(s) \/ \E t \in Threads : Holds(t, s)

\* Before the shutdown, a session that is open has its token registered but
\* at the ends of its life.
Untokens(t, s) == /\ call[t].op \in {"attach", "detach"} /\ call[t].target = s
                  /\ Opening(t) \/ Registering(t) \/ Finalizing(t)
TokenIsSound(s) ==
    session[s].token # NoToken =>
        (byToken[session[s].token] = s <=> session[s].open /\ \A t \in Threads : ~Untokens(t, s))

\* Before the shutdown, attach_order has the pids that are registered but for
\* the one to be added and the one to be removed next.
Adds(t, p) == /\ call[t].op = "attach" /\ call[t].at = "order"
              /\ call[t].prev = NoSession /\ call[t].req.pid = p
Removes(t, p) == /\ call[t].op = "detach" /\ call[t].at = "unorder"
                 /\ call[t].req.pid = p
OrderIsSound(p) ==
    p \in ToSet(order) <=> \/ byPid[p] # NoSession /\ \A t \in Threads : ~Adds(t, p)
                          \/ \E t \in Threads : Removes(t, p)

Distinct(s) == \A i, j \in DOMAIN s : s[i] = s[j] => i = j

\* A pid is registered from its insertion to its detach or the shutdown.
PidIsHeld(t) == /\ stage = "serving" /\ Registering(t)
                     => byPid[call[t].req.pid] = call[t].target
                /\ call[t].op = "detach" => byPid[call[t].req.pid] = NoSession

WhileServing ==
    stage = "serving" => /\ \A t \in Threads : call[t].op # "shutdown"
                         /\ \A s \in Scoped : TokenIsSound(s)
                         /\ Distinct(order) /\ \A p \in Pids : OrderIsSound(p)

Ownership == /\ PidsAreSound /\ TokensAreSound /\ \A s \in Scoped : Owned(s)
             /\ (\A t \in Threads : PidIsHeld(t)) /\ WhileServing

-----------------------------------------------------------------------------
(* The events on their way.                                                *)

\* What was a recording when an event was offered is not registered again.
SinceIsSound ==
    \A t \in Threads : \A s \in call[t].since : \A u \in Threads :
        Opening(u) \/ Registering(u) => call[u].target # s

Lasting(t) == call[t].since \cap Recordings
Matches(t, s) == IF call[t].req.token # NoToken
                 THEN session[s].token = call[t].req.token
                 ELSE session[s].pid = call[t].req.pid

\* What thread t has found out about the recordings that last.
RouteIsSound(t) ==
    call[t].op = "emit" =>
        /\ call[t].at \in {"newest", "find"} => call[t].req.mark
        /\ call[t].at = "write" /\ call[t].target # Ambient =>
             \/ call[t].req.mark
             \/ session[call[t].target].pid = call[t].req.pid
             \/ /\ call[t].req.token # NoToken
                /\ session[call[t].target].token = call[t].req.token
        /\ stage = "serving" => \A s \in Lasting(t) :
             /\ call[t].at = "pid" /\ call[t].req.token # NoToken => ~Matches(t, s)
             /\ call[t].at \in {"newest", "find"} => ~Matches(t, s)
             /\ call[t].at = "write" => /\ Matches(t, s) => call[t].target = s
                                        /\ call[t].req.mark => call[t].target # Ambient

\* No two threads have the same event to publish.
PublishedOnce ==
    \A t, u \in Threads :
        /\ call[t].at = "publish" /\ call[u].at = "publish"
        /\ call[t].target = call[u].target /\ call[t].pos = call[u].pos
        => t = u

Delivery ==
    /\ SinceIsSound /\ \A t \in Threads : RouteIsSound(t)
    /\ PublishedOnce /\ FeedMatchesStore

IInv ==
    /\ TypeOK /\ \A t \in Threads : CallIsSound(t)
    /\ PidsAreExclusive /\ Ownership /\ Delivery


\* Induction up to n, for a set: the least number outside it would have a
\* predecessor in it.
LEMMA InductionUpTo ==
    ASSUME NEW n \in Nat, NEW G, 0 \in G,
           \A m \in 0 .. n : m # n /\ m \in G => m + 1 \in G
    PROVE  0 .. n \subseteq G
<1> DEFINE T == (0 .. n) \ G
<1> SUFFICES ASSUME T # {} PROVE FALSE
  OBVIOUS
<1>1. T \subseteq Nat
  OBVIOUS
<1> HIDE DEF T
<1>2. PICK m \in T : \A k \in T : <<k, m>> \notin OpToRel(<, Nat)
  BY <1>1, WFMin, NatLessThanWellFounded, Zenon
<1>3. \A k \in T : ~(k < m)
  <2> SUFFICES ASSUME NEW k \in T PROVE ~(k < m)
    OBVIOUS
  <2> QED  BY <1>1, <1>2, Zenon DEF OpToRel
<1>4. m \in 0 .. n /\ m \notin G
  BY DEF T
<1>5. m - 1 \in 0 .. n /\ m - 1 # n /\ (m - 1) + 1 = m /\ m - 1 < m
  BY ONLY <1>4, n \in Nat, 0 \in G
<1>6. m - 1 \in G
  BY <1>3, <1>5 DEF T
<1> QED
  BY <1>4, <1>5, <1>6

\* What a longer sequence has in it.
LEMMA ToSetAppend ==
    ASSUME NEW S, NEW s \in Seq(S), NEW e \in S
    PROVE  ToSet(Append(s, e)) = ToSet(s) \cup {e}
<1> DEFINE r == Append(s, e)
<1>1. /\ DOMAIN r = DOMAIN s \cup {Len(s) + 1} /\ r[Len(s) + 1] = e
      /\ \A i \in DOMAIN s : r[i] = s[i]
  OBVIOUS
<1> HIDE DEF r
<1>2. {r[i] : i \in DOMAIN r} = {s[i] : i \in DOMAIN s} \cup {e}
  BY ONLY <1>1
<1> QED  BY <1>2 DEF ToSet, r

\* attach_order.retain keeps all but p, each once.
LEMMA WithoutProperties ==
    ASSUME NEW S, order \in Seq(S), NEW p
    PROVE  /\ Without(p) \in Seq(S)
           /\ ToSet(Without(p)) = ToSet(order) \ {p}
           /\ Distinct(order) => Distinct(Without(p))
<1> DEFINE n == Len(order)
           Step(g, i) == IF i = 0 THEN <<>>
                         ELSE IF order[i] = p THEN g[i - 1]
                              ELSE Append(g[i - 1], order[i])
           K == CHOOSE g : g = [i \in 0 .. n |-> Step(g, i)]
<1>1. Without(p) = K[n]
  BY DEF Without
<1>2. n \in Nat
  OBVIOUS
<1>3. \E g : g = [i \in 0 .. n |-> Step(g, i)]
  <2> DEFINE G == {m \in 0 .. n : \E g : g = [i \in 0 .. m |-> Step(g, i)]}
  <2>1. 0 \in G
    <3> DEFINE g == [i \in 0 .. 0 |-> <<>>]
    <3>1. g = [i \in 0 .. 0 |-> Step(g, i)]
      OBVIOUS
    <3>2. 0 \in 0 .. n
      BY <1>2
    <3> QED  BY <3>1, <3>2, Zenon
  <2>2. ASSUME NEW m \in 0 .. n, m # n, m \in G PROVE m + 1 \in G
    <3>1. PICK g : g = [i \in 0 .. m |-> Step(g, i)]
      BY <2>2, Zenon
    <3> DEFINE h == [i \in 0 .. m + 1 |-> Step(g, i)]
    <3>2. ASSUME NEW i \in 0 .. m + 1 PROVE Step(g, i) = Step(h, i)
      <4>1. CASE i = 0
        BY <4>1, Zenon
      <4>2. CASE i # 0
        <5>1. i - 1 \in 0 .. m /\ i - 1 \in 0 .. m + 1
          BY <4>2
        <5>2. h[i - 1] = Step(g, i - 1)
          BY <5>1, Zenon
        <5>3. g[i - 1] = Step(g, i - 1)
          BY <3>1, <5>1, Zenon
        <5> QED  BY <5>2, <5>3, Zenon
      <4> QED  BY <4>1, <4>2
    <3>3. h = [i \in 0 .. m + 1 |-> Step(h, i)]
      BY <3>2, Zenon
    <3>4. m + 1 \in 0 .. n
      BY <2>2, <1>2
    <3> QED  BY <3>3, <3>4, Zenon
  <2>3. 0 .. n \subseteq G
    <3> HIDE DEF G
    <3> QED  BY <2>1, <2>2, <1>2, InductionUpTo
  <2>4. n \in 0 .. n
    BY <1>2
  <2> QED  BY <2>3, <2>4, Zenon
<1>4. K = [i \in 0 .. n |-> Step(K, i)]
  BY <1>3, Zenon
<1> HIDE DEF K
<1>5. \A i \in 0 .. n : K[i] = Step(K, i)
  BY <1>4, Zenon
<1>6. /\ K[0] = <<>>
      /\ \A i \in 1 .. n : K[i] = IF order[i] = p THEN K[i - 1]
                                  ELSE Append(K[i - 1], order[i])
  <2>1. 0 \in 0 .. n /\ \A i \in 1 .. n : i \in 0 .. n /\ i # 0
    BY <1>2
  <2> QED  BY <1>5, <2>1, Zenon
<1> DEFINE Good(i) ==
      /\ K[i] \in Seq(S)
      /\ ToSet(K[i]) = {order[j] : j \in 1 .. i} \ {p}
      /\ Distinct(order) => Distinct(K[i])
           G == {m \in 0 .. n : Good(m)}
<1>7. 0 \in G
  <2>1. 0 \in 0 .. n /\ 1 .. 0 = {}
    BY <1>2
  <2>2. Good(0)
    <3>1. K[0] = <<>> /\ ToSet(<<>>) = {} /\ Distinct(<<>>) /\ <<>> \in Seq(S)
      BY <1>6 DEF ToSet, Distinct
    <3> QED  BY <3>1, <2>1
  <2> QED  BY <2>1, <2>2, Zenon
<1>8. ASSUME NEW m \in 0 .. n, m # n, m \in G PROVE m + 1 \in G
  <2> DEFINE s == K[m]
  <2>1. /\ m + 1 \in 1 .. n /\ (m + 1) - 1 = m /\ m + 1 \in 0 .. n
        /\ 1 .. m + 1 = (1 .. m) \cup {m + 1} /\ m + 1 \notin 1 .. m
    <3> HIDE DEF G
    <3> QED  BY <1>2, <1>8
  <2>2. s \in Seq(S) /\ ToSet(s) = {order[j] : j \in 1 .. m} \ {p}
        /\ (Distinct(order) => Distinct(s))
    BY <1>8, Zenon
  <2>3. K[m + 1] = IF order[m + 1] = p THEN s ELSE Append(s, order[m + 1])
    BY <2>1, <1>6
  <2>4. order[m + 1] \in S
    BY <2>1
  <2> HIDE DEF s
  <2>5. {order[j] : j \in 1 .. m + 1}
          = {order[j] : j \in 1 .. m} \cup {order[m + 1]}
    BY <2>1
  <2>6. CASE order[m + 1] = p
    <3>1. Good(m + 1)
      BY <2>2, <2>3, <2>5, <2>6
    <3> QED  BY <3>1, <2>1
  <2>7. CASE order[m + 1] # p
    <3>1. K[m + 1] = Append(s, order[m + 1])
      BY <2>3, <2>7
    <3>2. K[m + 1] \in Seq(S)
      BY <3>1, <2>2, <2>4
    <3>3. ToSet(K[m + 1]) = ToSet(s) \cup {order[m + 1]}
      BY <3>1, <2>2, <2>4, ToSetAppend
    <3>4. ToSet(K[m + 1]) = {order[j] : j \in 1 .. m + 1} \ {p}
      BY <2>2, <2>7, <2>5, <3>3
    <3>5. ASSUME Distinct(order) PROVE Distinct(K[m + 1])
      <4>1. \A j \in DOMAIN s : s[j] # order[m + 1]
        <5> SUFFICES ASSUME NEW j \in DOMAIN s, s[j] = order[m + 1]
                     PROVE  FALSE
          OBVIOUS
        <5>1. s[j] \in ToSet(s)
          BY DEF ToSet
        <5>2. PICK k \in 1 .. m : order[k] = order[m + 1]
          BY <5>1, <2>2
        <5>3. k # m + 1 /\ k \in DOMAIN order /\ m + 1 \in DOMAIN order
          BY <2>1
        <5> QED  BY <5>2, <5>3, <3>5 DEF Distinct
      <4>2. Distinct(s)
        BY <2>2, <3>5
      <4> QED  BY <4>1, <4>2, <3>1, <2>2, <2>4 DEF Distinct
    <3> QED  BY <3>2, <3>4, <3>5, <2>1, Zenon
  <2> QED  BY <2>6, <2>7
<1>9. 0 .. n \subseteq G
  <2> HIDE DEF G
  <2> QED  BY <1>2, <1>7, <1>8, InductionUpTo
<1>10. Good(n)
  <2>1. n \in 0 .. n
    BY <1>2
  <2> QED  BY <2>1, <1>9, Zenon
<1>11. ToSet(order) = {order[j] : j \in 1 .. n}
  BY DEF ToSet
<1> QED  BY <1>1, <1>10, <1>11

-----------------------------------------------------------------------------
(* What a step leaves alone.                                               *)

OthersKept(t) == \A u \in Threads : u # t => call'[u] = call[u]
\* Names are for life, and logs only grow.
SessionsKept ==
    /\ Sessions \subseteq Sessions'
    /\ \A s \in Sessions : /\ session'[s].pid = session[s].pid
                           /\ session'[s].token = session[s].token
                           /\ DOMAIN session[s].log \subseteq DOMAIN session'[s].log
RegistryKept == byPid' = byPid /\ byToken' = byToken /\ order' = order
OpenKept == \A s \in Scoped : session'[s].open = session[s].open

\* Sessions are numbered from 1.
LEMMA Numbering ==
    ASSUME TypeOK
    PROVE  /\ Ambient \in Sessions /\ NoSession \notin Sessions
           /\ \A s \in Scoped : s \in Sessions /\ s # NoSession /\ s # Ambient
           /\ Len(session) \in Nat /\ Len(session) + 1 \notin Sessions
           /\ \A s \in Sessions : session[s] \in SessionRecords
  <1> HIDE DEF SessionRecords
  <1>1. session \in Seq(SessionRecords) /\ Ambient \in Sessions
    BY DEF TypeOK
  <1> QED  BY <1>1 DEF Scoped, Sessions, Ambient, NoSession

\* A call of another thread stays sound.
LEMMA CallFrame ==
    ASSUME TypeOK, NEW u \in Threads, CallIsSound(u), call'[u] = call[u],
           SessionsKept
    PROVE  CallIsSound(u)'
  <1>1. \A s \in Scoped : s \in Scoped' /\ session'[s].pid = session[s].pid
                                        /\ session'[s].token = session[s].token
    BY DEF SessionsKept, Scoped
  <1>2. \A s \in Sessions : s \in Sessions'
    BY DEF SessionsKept
  <1>3. Opening(u)' = Opening(u) /\ Registering(u)' = Registering(u)
        /\ Closing(u)' = Closing(u) /\ Finalizing(u)' = Finalizing(u)
    BY DEF Opening, Registering, Closing, Finalizing
  <1>4. EmitIsSound(u)'
    BY <1>2 DEF CallIsSound, EmitIsSound
  <1>5. AttachIsSound(u)'
    BY <1>1, <1>3 DEF CallIsSound, AttachIsSound
  <1>6. DetachIsSound(u)'
    BY <1>1, <1>3 DEF CallIsSound, DetachIsSound
  <1>7. ShutdownIsSound(u)'
    BY <1>3 DEF CallIsSound, ShutdownIsSound
  <1>8. FieldsAreSound(u)'
    <2>1. call[u].at = "publish" => call[u].target \in Sessions
      BY DEF CallIsSound, EmitIsSound, AttachIsSound, DetachIsSound,
             ShutdownIsSound, FieldsAreSound, TypeOK, Calls, Numbers, Ops,
             Scoped
    <2> QED  BY <2>1 DEF CallIsSound, FieldsAreSound, SessionsKept
  <1> QED  BY <1>4, <1>5, <1>6, <1>7, <1>8 DEF CallIsSound

\* A thread whose part in the ownership of sessions does not change.
SameRole(u) ==
    /\ \A s \in Scoped : /\ Holds(u, s)' <=> Holds(u, s)
                         /\ Untokens(u, s)' <=> Untokens(u, s)
    /\ \A p \in Pids : /\ Adds(u, p)' <=> Adds(u, p)
                       /\ Removes(u, p)' <=> Removes(u, p)
    /\ PidIsHeld(u) => PidIsHeld(u)'
    /\ stage' = "serving" /\ call[u].op # "shutdown" => call'[u].op # "shutdown"

\* Ownership stays as it is when no thread changes its part and the registry
\* is left alone.
LEMMA OwnershipFrame ==
    ASSUME TypeOK, Ownership, SessionsKept, Sessions' = Sessions, RegistryKept,
           OpenKept, stage' = "serving" => stage = "serving",
           \A u \in Threads : SameRole(u)
    PROVE  Ownership'
  <1> USE DEF Ownership, RegistryKept
  <1>0. Scoped' = Scoped
    BY DEF Scoped
  <1>n. \A s \in Sessions : session'[s].pid = session[s].pid
                            /\ session'[s].token = session[s].token
    BY DEF SessionsKept
  <1>s. Ambient \in Sessions /\ \A s \in Scoped : s \in Sessions
    BY Numbering
  <1>1. PidsAreSound'
    BY <1>0, <1>n, <1>s DEF PidsAreSound
  <1>2. TokensAreSound'
    BY <1>0, <1>n, <1>s DEF TokensAreSound
  <1>3. ASSUME NEW s \in Scoped PROVE Owned(s)'
    <2>1. Registered(s)' <=> Registered(s)
      BY <1>n, <1>s DEF Registered
    <2>2. \A u \in Threads : Holds(u, s)' <=> Holds(u, s)
      BY DEF SameRole
    <2>3. session'[s].open = session[s].open
      BY DEF OpenKept
    <2> QED  BY <2>1, <2>2, <2>3 DEF Owned
  <1>4. \A u \in Threads : PidIsHeld(u)'
    BY DEF SameRole
  <1>5. ASSUME stage' = "serving", NEW s \in Scoped PROVE TokenIsSound(s)'
    <2>1. TokenIsSound(s)
      BY <1>5 DEF WhileServing
    <2>2. \A u \in Threads : Untokens(u, s)' <=> Untokens(u, s)
      BY DEF SameRole
    <2> QED  BY <2>1, <2>2, <1>n, <1>s DEF TokenIsSound, OpenKept
  <1>6. ASSUME stage' = "serving", NEW p \in Pids PROVE OrderIsSound(p)'
    <2>1. OrderIsSound(p)
      BY <1>6 DEF WhileServing
    <2> QED  BY <2>1 DEF OrderIsSound, SameRole
  <1>7. WhileServing'
    BY <1>0, <1>5, <1>6 DEF WhileServing, SameRole, Distinct
  <1> QED  BY <1>0, <1>1, <1>2, <1>3, <1>4, <1>7

\* A thread that is in no call, or in one that is not about sessions' owners.
Aside(t) == call[t].op \in {"none", "emit", "flush"}

\* A thread that does not move keeps its part.
LEMMA SameRoleWhenKept ==
    ASSUME NEW u \in Threads, call'[u] = call[u], RegistryKept,
           stage' = "serving" => stage = "serving"
    PROVE  SameRole(u)
  BY DEF SameRole, Holds, Untokens, Opening, Registering, Finalizing, Adds,
         Removes, PidIsHeld, RegistryKept

\* A thread whose call is not about owners has no part before and after.
LEMMA SameRoleAside ==
    ASSUME TypeOK, NEW t \in Threads, FieldsAreSound(t), FieldsAreSound(t)',
           Aside(t), Aside(t)'
    PROVE  SameRole(t)
  <1>1. call[t].rest = {} /\ call'[t].rest = {}
    BY DEF Aside, FieldsAreSound
  <1> QED
    BY <1>1 DEF Aside, SameRole, Holds, Untokens, Opening, Registering,
       Finalizing, Adds, Removes, PidIsHeld

-----------------------------------------------------------------------------
(* How a session changes hands.                                            *)

\* The session stays where it is.
LEMMA OwnedSame ==
    ASSUME NEW s, Owned(s), session'[s].open = session[s].open,
           Registered(s)' <=> Registered(s),
           \A u \in Threads : Holds(u, s)' <=> Holds(u, s)
    PROVE  Owned(s)'
  BY DEF Owned

\* From the registry to a thread.
LEMMA OwnedTaken ==
    ASSUME NEW s, Owned(s), NEW t \in Threads, session'[s].open = session[s].open,
           Registered(s), ~Registered(s)', Holds(t, s)',
           \A u \in Threads : u # t => (Holds(u, s)' <=> Holds(u, s))
    PROVE  Owned(s)'
  BY DEF Owned

\* From a thread to the registry.
LEMMA OwnedGiven ==
    ASSUME NEW s, Owned(s), NEW t \in Threads, session'[s].open = session[s].open,
           Holds(t, s), Registered(s)', ~Holds(t, s)',
           \A u \in Threads : u # t => (Holds(u, s)' <=> Holds(u, s))
    PROVE  Owned(s)'
  BY DEF Owned

\* Finalized by the thread that held it.
LEMMA OwnedClosed ==
    ASSUME NEW s, Owned(s), NEW t \in Threads, ~session'[s].open,
           Holds(t, s), Registered(s)' <=> Registered(s), ~Holds(t, s)',
           \A u \in Threads : u # t => (Holds(u, s)' <=> Holds(u, s))
    PROVE  Owned(s)'
  BY DEF Owned

\* No attach and no detach begins.
LEMMA ExclusiveFrame ==
    ASSUME PidsAreExclusive,
           \A u \in Threads : call'[u].op \in {"attach", "detach"} =>
             call[u].op \in {"attach", "detach"} /\ call'[u].req.pid = call[u].req.pid
    PROVE  PidsAreExclusive'
  BY DEF PidsAreExclusive

\* t begins an attach or a detach for a pid that is not busy.
LEMMA ExclusiveBegin ==
    ASSUME PidsAreExclusive, NEW t \in Threads, OthersKept(t),
           ~Busy(call'[t].req.pid)
    PROVE  PidsAreExclusive'
  BY DEF PidsAreExclusive, Busy, OthersKept

-----------------------------------------------------------------------------
(* Events that a step does not concern.                                    *)

\* No thread begins to open a session, and no event is offered.
LEMMA SinceFrame ==
    ASSUME SinceIsSound,
           \A u \in Threads :
             /\ call'[u].since \subseteq call[u].since
             /\ Opening(u)' \/ Registering(u)' =>
                  (Opening(u) \/ Registering(u)) /\ call'[u].target = call[u].target
    PROVE  SinceIsSound'
  BY DEF SinceIsSound

\* Unless a step registers or finalizes a session, no recording begins.
LEMMA RecordingsFrame ==
    ASSUME TypeOK, SessionsKept, Sessions' = Sessions, PidsAreSound,
           \A p \in Pids : byPid'[p] \in {byPid[p], NoSession},
           \A u \in Threads : call[u].op = "attach" =>
             call'[u].op = "attach" /\ call'[u].target = call[u].target
    PROVE  Recordings' \subseteq Recordings
  <1> SUFFICES ASSUME NEW s \in Recordings' PROVE s \in Recordings
    OBVIOUS
  <1>1. /\ s \in Scoped /\ s # NoSession /\ byPid'[session'[s].pid] = s
        /\ \A u \in Threads : call'[u].op = "attach" => call'[u].target # s
    BY Numbering DEF Recordings, Scoped
  <1>2. session'[s].pid = session[s].pid /\ session[s].pid \in Pids
    BY <1>1 DEF SessionsKept, PidsAreSound, Scoped
  <1>3. byPid[session[s].pid] = s
    BY <1>1, <1>2
  <1> QED  BY <1>1, <1>3 DEF Recordings, Scoped

\* What another thread has found out stays true.
LEMMA RouteFrame ==
    ASSUME TypeOK, NEW u \in Threads, RouteIsSound(u), CallIsSound(u),
           call'[u] = call[u], SessionsKept,
           stage' = "serving" => stage = "serving",
           call[u].since \cap Recordings' \subseteq Recordings
    PROVE  RouteIsSound(u)'
  <1>1. call[u].op = "emit" /\ call[u].at = "write" => call[u].target \in Sessions
    BY DEF CallIsSound, EmitIsSound
  <1>2. \A s \in Lasting(u)' : s \in Lasting(u) /\ s \in Sessions
    BY DEF Lasting, Recordings
  <1>3. \A s \in Sessions : Matches(u, s)' <=> Matches(u, s)
    BY DEF Matches, SessionsKept
  <1> QED  BY <1>1, <1>2, <1>3 DEF RouteIsSound, SessionsKept

\* The events that are published are those of the logs that nobody has yet to
\* publish.
Stored(s, i) == s \in Sessions /\ i \in DOMAIN session[s].log
Withheld(s, i) == \E t \in Threads : /\ call[t].at = "publish"
                                     /\ call[t].target = s /\ call[t].pos = i
Feed == \A e : e \in bus <=> \E s, i : /\ e = <<s, i>>
                                       /\ Stored(s, i) /\ ~Withheld(s, i)

\* FeedMatchesStore, one event at a time.
LEMMA FeedElements == FeedMatchesStore <=> Feed
  BY DEF FeedMatchesStore, Stored, Withheld, Feed

\* What is stored and not withheld stays the same.
LEMMA FeedKept ==
    ASSUME FeedMatchesStore, bus' = bus,
           \A s, i : Stored(s, i)' /\ ~Withheld(s, i)'
                       <=> Stored(s, i) /\ ~Withheld(s, i)
    PROVE  FeedMatchesStore'
  <1>1. Feed'
    <2>1. Feed
      BY FeedElements
    <2> QED  BY <2>1, Zenon DEF Feed
  <1>2. FeedMatchesStore' <=> Feed'
    BY FeedElements, PTL
  <1> QED  BY <1>1, <1>2

\* Nothing is written and nothing published.
LEMMA FeedFrame ==
    ASSUME PublishedOnce, FeedMatchesStore, Sessions' = Sessions, bus' = bus,
           \A s \in Sessions : DOMAIN session'[s].log = DOMAIN session[s].log,
           \A u \in Threads :
             /\ call'[u].at = "publish" <=> call[u].at = "publish"
             /\ call[u].at = "publish" => /\ call'[u].target = call[u].target
                                          /\ call'[u].pos = call[u].pos
    PROVE  PublishedOnce' /\ FeedMatchesStore'
  <1>1. PublishedOnce'
    BY DEF PublishedOnce
  <1>2. \A s, i : /\ Stored(s, i)' <=> Stored(s, i)
                  /\ Withheld(s, i)' <=> Withheld(s, i)
    BY DEF Stored, Withheld
  <1>3. FeedMatchesStore'
    BY <1>2, FeedKept, Zenon
  <1> QED  BY <1>1, <1>3

\* t writes event i of session s, and has yet to publish it.
LEMMA FeedWritten ==
    ASSUME PublishedOnce, FeedMatchesStore, bus' = bus, NEW t \in Threads,
           OthersKept(t), call[t].at # "publish", call'[t].at = "publish",
           \A u \in Threads : call[u].at = "publish" =>
             Stored(call[u].target, call[u].pos),
           ~Stored(call'[t].target, call'[t].pos),
           \A s, i : Stored(s, i)' <=>
             Stored(s, i) \/ (s = call'[t].target /\ i = call'[t].pos)
    PROVE  PublishedOnce' /\ FeedMatchesStore'
  <1>1. PublishedOnce'
    BY DEF PublishedOnce, OthersKept
  <1>2. ASSUME NEW s, NEW i
        PROVE  Withheld(s, i)' <=>
                 Withheld(s, i) \/ (s = call'[t].target /\ i = call'[t].pos)
    <2>1. ASSUME Withheld(s, i)
          PROVE  Withheld(s, i)'
      <3>1. PICK u \in Threads : /\ call[u].at = "publish"
                                 /\ call[u].target = s /\ call[u].pos = i
        BY <2>1 DEF Withheld
      <3>2. call'[u] = call[u]
        BY <3>1 DEF OthersKept
      <3> QED  BY <3>1, <3>2 DEF Withheld
    <2>2. ASSUME Withheld(s, i)'
          PROVE  Withheld(s, i) \/ (s = call'[t].target /\ i = call'[t].pos)
      <3>1. PICK u \in Threads : /\ call'[u].at = "publish"
                                 /\ call'[u].target = s /\ call'[u].pos = i
        BY <2>2 DEF Withheld
      <3>2. CASE u = t
        BY <3>1, <3>2
      <3>3. CASE u # t
        <4>1. call'[u] = call[u]
          BY <3>3 DEF OthersKept
        <4> QED  BY <3>1, <4>1 DEF Withheld
      <3> QED  BY <3>2, <3>3
    <2>3. s = call'[t].target /\ i = call'[t].pos => Withheld(s, i)'
      BY DEF Withheld
    <2> QED  BY <2>1, <2>2, <2>3, Zenon
  <1>3. ASSUME NEW s, NEW i
        PROVE  Stored(s, i)' /\ ~Withheld(s, i)' <=> Stored(s, i) /\ ~Withheld(s, i)
    <2>1. CASE s = call'[t].target /\ i = call'[t].pos
      <3>1. Withheld(s, i)'
        BY <1>2, <2>1, Zenon
      <3>2. ~Stored(s, i)
        BY <2>1, Zenon
      <3> QED  BY <3>1, <3>2
    <2>2. CASE ~(s = call'[t].target /\ i = call'[t].pos)
      <3>1. Withheld(s, i)' <=> Withheld(s, i)
        BY <1>2, <2>2, Zenon
      <3>2. Stored(s, i)' <=> Stored(s, i)
        BY <2>2, Zenon
      <3> QED  BY <3>1, <3>2
    <2> QED  BY <2>1, <2>2
  <1>4. FeedMatchesStore'
    BY <1>3, FeedKept, Zenon
  <1> QED  BY <1>1, <1>4

\* t publishes its event.
LEMMA FeedPublished ==
    ASSUME PublishedOnce, FeedMatchesStore, NEW t \in Threads, OthersKept(t),
           call[t].at = "publish", call'[t].at # "publish",
           Stored(call[t].target, call[t].pos),
           bus' = bus \cup {<<call[t].target, call[t].pos>>},
           \A s, i : Stored(s, i)' <=> Stored(s, i)
    PROVE  PublishedOnce' /\ FeedMatchesStore'
  <1>1. PublishedOnce'
    BY DEF PublishedOnce, OthersKept
  <1>2. \A s, i : Withheld(s, i)' <=>
                    Withheld(s, i) /\ ~(s = call[t].target /\ i = call[t].pos)
    BY DEF Withheld, OthersKept, PublishedOnce
  <1>3. Feed'
    <2>1. Feed
      BY FeedElements
    <2> SUFFICES ASSUME NEW e
                 PROVE  e \in bus' <=> \E s, i : e = <<s, i>> /\ Stored(s, i)'
                                                /\ ~Withheld(s, i)'
      BY DEF Feed
    <2>2. CASE e = <<call[t].target, call[t].pos>>
      BY <1>2, <2>2, Zenon
    <2>3. CASE e # <<call[t].target, call[t].pos>>
      <3>1. e \in bus' <=> e \in bus
        BY <2>3
      <3> QED  BY <1>2, <2>1, <2>3, <3>1, Zenon DEF Feed
    <2> QED  BY <2>2, <2>3
  <1>4. FeedMatchesStore' <=> Feed'
    BY FeedElements, PTL
  <1> QED  BY <1>1, <1>3, <1>4

-----------------------------------------------------------------------------
(* The step of one thread.                                                 *)

\* t's call becomes c.
LEMMA CallChanges ==
    ASSUME TypeOK, NEW t \in Threads, NEW c,
           call' = [call EXCEPT ![t] = c]
    PROVE  call'[t] = c /\ OthersKept(t)
  BY DEF TypeOK, OthersKept

\* The new calls have their type.
LEMMA CallsTyped ==
    ASSUME TypeOK, NEW t \in Threads, call' = [call EXCEPT ![t] = call'[t]],
           Sessions \subseteq Sessions', call'[t] \in Calls'
    PROVE  call' \in [Threads -> Calls']
  <1>1. Calls \subseteq Calls'
    <2>1. Numbers \subseteq Numbers' /\ Sessions \ {Ambient} \subseteq Sessions' \ {Ambient}
      BY DEF Numbers
    <2> QED  BY <2>1 DEF Calls
  <1> HIDE DEF Calls
  <1> QED  BY <1>1 DEF TypeOK

\* What is left to show of a step of t.
Settled(t) == /\ TypeOK' /\ OthersKept(t) /\ SessionsKept /\ CallIsSound(t)'
              /\ PidsAreExclusive'

\* A step of t leaves the calls of the others sound.
LEMMA CallsAreSound ==
    ASSUME IInv, NEW t \in Threads, OthersKept(t), SessionsKept, CallIsSound(t)'
    PROVE  \A u \in Threads : CallIsSound(u)'
  BY CallFrame DEF IInv, OthersKept

\* A step of t leaves what the others have found out true.
LEMMA RoutesAreSound ==
    ASSUME IInv, NEW t \in Threads, OthersKept(t), SessionsKept, RouteIsSound(t)',
           stage' = "serving" => stage = "serving",
           \A u \in Threads \ {t} : call[u].since \cap Recordings' \subseteq Recordings
    PROVE  \A u \in Threads : RouteIsSound(u)'
  <1> SUFFICES ASSUME NEW u \in Threads, u # t PROVE RouteIsSound(u)'
    OBVIOUS
  <1> QED  BY RouteFrame DEF IInv, OthersKept, Delivery

\* A step that changes nobody's part in the ownership.
LEMMA AsideStep ==
    ASSUME IInv, NEW t \in Threads, OthersKept(t), SessionsKept, TypeOK',
           Sessions' = Sessions, RegistryKept, OpenKept,
           stage' = "serving" => stage = "serving",
           CallIsSound(t)', Aside(t), Aside(t)'
    PROVE  (\A u \in Threads : CallIsSound(u)') /\ PidsAreExclusive' /\ Ownership'
           /\ Recordings' \subseteq Recordings
  <1>1. \A u \in Threads : CallIsSound(u)'
    BY CallsAreSound
  <1>2. PidsAreExclusive'
    BY ExclusiveFrame DEF IInv, OthersKept, Aside
  <1>3. \A u \in Threads : SameRole(u)
    <2> SUFFICES ASSUME NEW u \in Threads PROVE SameRole(u)
      OBVIOUS
    <2>1. CASE u = t
      BY <2>1, SameRoleAside DEF IInv, CallIsSound
    <2>2. CASE u # t
      BY <2>2, SameRoleWhenKept DEF OthersKept
    <2> QED  BY <2>1, <2>2
  <1>4. Ownership'
    BY <1>3, OwnershipFrame DEF IInv
  <1>5. Recordings' \subseteq Recordings
    <2>1. \A p \in Pids : byPid'[p] \in {byPid[p], NoSession}
      BY DEF RegistryKept
    <2>2. \A u \in Threads : call[u].op = "attach" =>
             call'[u].op = "attach" /\ call'[u].target = call[u].target
      BY DEF OthersKept, Aside
    <2> QED  BY <2>1, <2>2, RecordingsFrame DEF IInv, Ownership
  <1> QED  BY <1>1, <1>2, <1>4, <1>5

-----------------------------------------------------------------------------
(* Events, and the flush.                                                  *)

\* Events offered come with arguments a call may have.
LEMMA RequestsAreArgs == \A r \in Requests : r \in Args
  BY RouterAssumption DEF Args

\* A step that leaves the sessions alone.
LEMMA SessionsKeptWhenSame ==
    ASSUME session' = session
    PROVE  /\ SessionsKept /\ OpenKept /\ Sessions' = Sessions
           /\ \A s \in Sessions : DOMAIN session'[s].log = DOMAIN session[s].log
           /\ \A s, i : Stored(s, i)' <=> Stored(s, i)
  BY DEF SessionsKept, OpenKept, Sessions, Stored

\* append: an event is offered.
LEMMA EmitKeeps ==
    ASSUME IInv, NEW t \in Threads, NEW r \in Requests, Emit(t, r)
    PROVE  IInv'
  <1> DEFINE c == [Idle EXCEPT !.op = "emit", !.at = "token", !.req = r,
                               !.since = Recordings]
  <1>1. /\ TypeOK /\ call[t] = Idle /\ call' = [call EXCEPT ![t] = c]
        /\ UNCHANGED <<session, byPid, byToken, order, pidLock, orderLock, bus, stage>>
        /\ emits' = emits + 1
    BY DEF IInv, Emit, Begin, registry, locks
  <1>2. call'[t] = c /\ OthersKept(t)
    BY <1>1, CallChanges
  <1>c. /\ c.op = "emit" /\ c.at = "token" /\ c.rest = {}
        /\ c.prev = NoSession /\ c.since = Recordings
    BY DEF Idle
  <1>m. Recordings \in SUBSET (Sessions \ {Ambient}) => c \in Calls
    <2>1. Idle \in Calls
      BY DEF Idle, NoRequest, Calls, Args, Numbers, Ops, Places
    <2> QED  BY <2>1, RequestsAreArgs DEF Calls, Ops, Places
  <1> HIDE DEF c
  <1>3. /\ call[t].op = "none" /\ call[t].at = "idle"
        /\ call'[t].op = "emit" /\ call'[t].at = "token" /\ call'[t].rest = {}
        /\ call'[t].prev = NoSession /\ call'[t].since = Recordings
    BY <1>1, <1>2, <1>c DEF Idle
  <1>4. SessionsKept /\ OpenKept /\ Sessions' = Sessions /\ RegistryKept
        /\ \A s \in Sessions : DOMAIN session'[s].log = DOMAIN session[s].log
    BY <1>1, SessionsKeptWhenSame DEF RegistryKept
  <1>5. TypeOK'
    <2>1. call'[t] \in Calls'
      <3>1. Recordings \in SUBSET (Sessions \ {Ambient})
        BY DEF Recordings
      <3>2. Calls' = Calls
        BY <1>4 DEF Calls, Numbers
      <3> QED
        BY <1>2, <1>m, <3>1, <3>2
    <2>2. call' \in [Threads -> Calls']
      BY <1>1, <1>2, <1>4, <2>1, CallsTyped, Zenon
    <2> QED  BY <1>1, <1>4, <2>2 DEF TypeOK, Numbers
  <1>6. CallIsSound(t)'
    BY <1>3 DEF CallIsSound, EmitIsSound, AttachIsSound, DetachIsSound,
                ShutdownIsSound, FieldsAreSound
  <1>7. (\A u \in Threads : CallIsSound(u)') /\ PidsAreExclusive' /\ Ownership'
        /\ Recordings' \subseteq Recordings
    BY <1>1, <1>2, <1>3, <1>4, <1>5, <1>6, AsideStep DEF Aside
  <1>8. SinceIsSound'
    <2> SUFFICES ASSUME NEW v \in Threads, NEW s \in call'[v].since, NEW u \in Threads,
                        Opening(u)' \/ Registering(u)'
                 PROVE  call'[u].target # s
      BY DEF SinceIsSound
    <2>1. u # t /\ call'[u] = call[u] /\ (Opening(u) \/ Registering(u))
      BY <1>2, <1>3 DEF OthersKept, Opening, Registering
    <2>2. CASE v = t
      BY <1>3, <2>1, <2>2 DEF Recordings, Opening, Registering
    <2>3. CASE v # t
      BY <1>2, <2>1, <2>3 DEF IInv, Delivery, SinceIsSound, OthersKept
    <2> QED  BY <2>2, <2>3
  <1>9. \A u \in Threads : RouteIsSound(u)'
    <2>1. RouteIsSound(t)'
      BY <1>3 DEF RouteIsSound
    <2> QED  BY <1>1, <1>2, <1>4, <1>7, <2>1, RoutesAreSound
  <1>10. PublishedOnce' /\ FeedMatchesStore'
    BY <1>1, <1>2, <1>3, <1>4, FeedFrame DEF IInv, Delivery, OthersKept
  <1> QED  BY <1>5, <1>7, <1>8, <1>9, <1>10 DEF IInv, Delivery

-----------------------------------------------------------------------------
(* The way of an event.                                                    *)

\* A set of positions that is not empty has a largest one.
LEMMA LargestExists ==
    ASSUME NEW n \in Nat, NEW K \in SUBSET (1 .. n), K # {}
    PROVE  \E i \in K : \A j \in K : j <= i
  <1> DEFINE Largest(m) == \E i \in K \cap (1 .. m) : \A j \in K \cap (1 .. m) : j <= i
             G == {m \in 0 .. n : K \cap (1 .. m) = {} \/ Largest(m)}
  <1>1. 0 \in G
    OBVIOUS
  <1>2. ASSUME NEW m \in 0 .. n, m # n, m \in G PROVE m + 1 \in G
    <2>1. m + 1 \in 0 .. n /\ m \in Nat
      BY <1>2
    <2>2. CASE m + 1 \in K
      <3>1. m + 1 \in K \cap (1 .. m + 1) /\ \A j \in K \cap (1 .. m + 1) : j <= m + 1
        BY <2>1, <2>2
      <3> QED  BY <2>1, <3>1, Zenon
    <2>3. CASE m + 1 \notin K
      <3>1. K \cap (1 .. m + 1) = K \cap (1 .. m)
        BY <2>1, <2>3
      <3> QED  BY <1>2, <2>1, <3>1, Zenon
    <2> QED  BY <2>2, <2>3
  <1>3. n \in G
    <2> HIDE DEF G
    <2>1. 0 .. n \subseteq G
      BY <1>1, <1>2, InductionUpTo
    <2> QED  BY <2>1
  <1>4. K \cap (1 .. n) = K
    OBVIOUS
  <1> QED  BY <1>3, <1>4, Zenon

\* Newest finds a recording when the pid of one is in attach_order.
LEMMA NewestIsSound ==
    ASSUME TypeOK, PidsAreSound
    PROVE  /\ Newest \in Sessions
           /\ \A p \in ToSet(order) : byPid[p] # NoSession => Newest # Ambient
  <1> DEFINE known == {i \in DOMAIN order : byPid[order[i]] # NoSession}
             last == CHOOSE i \in known : \A j \in known : j <= i
  <1>0. \A i \in DOMAIN order : order[i] \in Pids
    BY DEF TypeOK
  <1>1. CASE known = {}
    <2>1. Newest = Ambient
      BY <1>1, Zenon DEF Newest
    <2>2. \A p \in ToSet(order) : byPid[p] = NoSession
      BY <1>1 DEF ToSet
    <2> QED  BY <2>1, <2>2, Numbering
  <1>2. CASE known # {}
    <2>1. Newest = byPid[order[last]]
      BY <1>2, Zenon DEF Newest
    <2>2. \E i \in known : \A j \in known : j <= i
      <3>1. known \in SUBSET (1 .. Len(order)) /\ Len(order) \in Nat
        BY DEF TypeOK
      <3> HIDE DEF known
      <3> QED  BY <1>2, <3>1, LargestExists
    <2>3. last \in known
      <3> HIDE DEF known
      <3> QED  BY <2>2, Zenon
    <2> HIDE DEF last
    <2>4. order[last] \in Pids /\ byPid[order[last]] # NoSession
      BY <2>3, <1>0
    <2> QED  BY <2>1, <2>4, Numbering DEF PidsAreSound
  <1> QED  BY <1>1, <1>2

\* While a recording is in progress its pid and its token find it.
LEMMA RecordingsAreFound ==
    ASSUME IInv, NEW s \in Recordings
    PROVE  /\ s \in Scoped /\ s # NoSession /\ session[s].pid \in Pids
           /\ byPid[session[s].pid] = s
           /\ stage = "serving" =>
                /\ session[s].token # NoToken => byToken[session[s].token] = s
                /\ session[s].pid \in ToSet(order)
  <1>1. /\ s \in Scoped /\ s # NoSession /\ byPid[session[s].pid] = s
        /\ \A u \in Threads : call[u].op = "attach" => call[u].target # s
    BY Numbering DEF Recordings, Scoped, IInv
  <1>2. session[s].pid \in Pids /\ session[s].open /\ \A u \in Threads : ~Holds(u, s)
    BY <1>1 DEF IInv, Ownership, PidsAreSound, Owned, Registered
  <1>3. ASSUME stage = "serving", session[s].token # NoToken
        PROVE  byToken[session[s].token] = s
    <2>1. \A u \in Threads : ~Untokens(u, s)
      BY <1>1, <1>2 DEF Untokens, Holds
    <2> QED
      BY <1>1, <1>2, <1>3, <2>1 DEF IInv, Ownership, WhileServing, TokenIsSound
  <1>4. ASSUME stage = "serving"
        PROVE  session[s].pid \in ToSet(order)
    <2>1. ASSUME NEW u \in Threads, Adds(u, session[s].pid) PROVE FALSE
      <3>1. Registering(u) /\ call[u].req.pid = session[s].pid
        BY <2>1 DEF Adds, Registering
      <3>2. byPid[session[s].pid] = call[u].target
        BY <1>4, <3>1 DEF IInv, Ownership, PidIsHeld
      <3> QED  BY <1>1, <3>1, <3>2 DEF Registering
    <2> QED
      BY <1>1, <1>2, <1>4, <2>1 DEF IInv, Ownership, WhileServing, OrderIsSound
  <1> QED  BY <1>1, <1>2, <1>3, <1>4

\* A step of route_for: it finds out no more than RouteIsSound says.
LEMMA RoutingStep ==
    ASSUME IInv, NEW t \in Threads, NEW c,
           call' = [call EXCEPT ![t] = c],
           call[t].op = "emit", call[t].at # "publish", c \in Calls,
           c.op = "emit", c.at \in {"pid", "newest", "find", "write"},
           c.prev = call[t].prev, c.rest = call[t].rest, c.since = call[t].since,
           c.at = "write" => c.target \in Sessions,
           UNCHANGED <<session, byPid, byToken, order, bus, stage, emits>>,
           pidLock' \in Threads \cup {NoThread},
           orderLock' \in Threads \cup {NoThread},
           Recordings' \subseteq Recordings => RouteIsSound(t)'
    PROVE  IInv'
  <1>1. TypeOK
    BY DEF IInv
  <1>2. call'[t] = c /\ OthersKept(t)
    BY <1>1, CallChanges
  <1>3. SessionsKept /\ OpenKept /\ Sessions' = Sessions /\ RegistryKept
        /\ \A s \in Sessions : DOMAIN session'[s].log = DOMAIN session[s].log
    BY SessionsKeptWhenSame DEF RegistryKept
  <1>4. TypeOK'
    <2>1. Calls' = Calls /\ call'[t] \in Calls
      BY <1>2, <1>3 DEF Calls, Numbers
    <2>2. call' \in [Threads -> Calls']
      BY <1>1, <1>2, <1>3, <2>1, CallsTyped, Zenon
    <2> QED  BY <1>1, <1>3, <2>2 DEF TypeOK, Numbers
  <1>5. CallIsSound(t)'
    BY <1>2, <1>3 DEF CallIsSound, EmitIsSound, AttachIsSound, DetachIsSound,
                ShutdownIsSound, FieldsAreSound, IInv
  <1>6. (\A u \in Threads : CallIsSound(u)') /\ PidsAreExclusive' /\ Ownership'
        /\ Recordings' \subseteq Recordings
    BY <1>2, <1>3, <1>4, <1>5, AsideStep DEF Aside
  <1>7. SinceIsSound'
    BY <1>2, SinceFrame DEF IInv, Delivery, OthersKept, Opening, Registering
  <1>8. \A u \in Threads : RouteIsSound(u)'
    BY <1>2, <1>3, <1>6, RoutesAreSound
  <1>9. PublishedOnce' /\ FeedMatchesStore'
    BY <1>2, <1>3, FeedFrame DEF IInv, Delivery, OthersKept
  <1> QED  BY <1>4, <1>6, <1>7, <1>8, <1>9 DEF IInv, Delivery

\* How a call moves on.
Moves(t, c, place, s) ==
    /\ call' = [call EXCEPT ![t] = c] /\ c \in Calls
    /\ c.at = place /\ c.target = s /\ c.op = call[t].op /\ c.req = call[t].req
    /\ c.prev = call[t].prev /\ c.rest = call[t].rest /\ c.pos = call[t].pos
    /\ c.then = call[t].then /\ c.since = call[t].since

\* The call goes on elsewhere, about another session.
LEMMA GotoWithMoves ==
    ASSUME TypeOK, NEW t \in Threads, NEW place \in Places, NEW s \in Numbers,
           GotoWith(t, place, s)
    PROVE  \E c : Moves(t, c, place, s)
  <1> DEFINE c == [call[t] EXCEPT !.at = place, !.target = s]
  <1>1. call[t] \in Calls
    BY DEF TypeOK
  <1>2. call' = [call EXCEPT ![t] = c]
    BY DEF GotoWith
  <1>3. c \in Calls /\ c.at = place /\ c.target = s
    BY <1>1 DEF Calls
  <1>4. /\ c.op = call[t].op /\ c.req = call[t].req /\ c.prev = call[t].prev
        /\ c.rest = call[t].rest /\ c.pos = call[t].pos
        /\ c.then = call[t].then /\ c.since = call[t].since
    BY <1>1 DEF Calls
  <1> HIDE DEF c
  <1> QED  BY <1>2, <1>3, <1>4 DEF Moves

\* The call goes on elsewhere.
LEMMA GotoMoves ==
    ASSUME TypeOK, NEW t \in Threads, NEW place \in Places, Goto(t, place)
    PROVE  \E c : Moves(t, c, place, call[t].target)
  <1> DEFINE c == [call[t] EXCEPT !.at = place]
  <1>1. call[t] \in Calls
    BY DEF TypeOK
  <1>2. call' = [call EXCEPT ![t] = c]
    BY DEF Goto
  <1>3. c \in Calls /\ c.at = place /\ c.target = call[t].target
    BY <1>1 DEF Calls
  <1>4. /\ c.op = call[t].op /\ c.req = call[t].req /\ c.prev = call[t].prev
        /\ c.rest = call[t].rest /\ c.pos = call[t].pos
        /\ c.then = call[t].then /\ c.since = call[t].since
    BY <1>1 DEF Calls
  <1> HIDE DEF c
  <1> QED  BY <1>2, <1>3, <1>4 DEF Moves

\* The call is over.
LEMMA ReturnEnds ==
    ASSUME TypeOK, NEW t \in Threads, Return(t)
    PROVE  /\ call' = [call EXCEPT ![t] = Idle] /\ Idle \in Calls
           /\ Idle.op = "none" /\ Idle.at = "idle" /\ Idle.target = NoSession
           /\ Idle.prev = NoSession /\ Idle.rest = {} /\ Idle.since = {}
  BY DEF Return, Idle, Calls, Args, NoRequest, Numbers, Ops, Places

\* A move of an event on its way.
LEMMA EventMoves ==
    ASSUME IInv, NEW t \in Threads, NEW c, NEW place, NEW s,
           Moves(t, c, place, s), call[t].op = "emit", call[t].at # "publish",
           place \in {"pid", "newest", "find", "write"},
           place = "write" => s \in Sessions,
           UNCHANGED <<session, byPid, byToken, order, bus, stage, emits>>,
           pidLock' \in Threads \cup {NoThread},
           orderLock' \in Threads \cup {NoThread},
           Recordings' \subseteq Recordings => RouteIsSound(t)'
    PROVE  IInv'
  BY RoutingStep DEF Moves

\* What RouteIsSound is about, after a move that leaves the sessions alone.
LEMMA RouteMoves ==
    ASSUME IInv, NEW t \in Threads, NEW c, NEW place, NEW s,
           Moves(t, c, place, s), session' = session, Recordings' \subseteq Recordings
    PROVE  /\ call'[t].op = call[t].op /\ call'[t].at = place
           /\ call'[t].target = s /\ call'[t].req = call[t].req
           /\ Lasting(t)' \subseteq Lasting(t)
           /\ \A r : Matches(t, r)' <=> Matches(t, r)
  <1>1. call'[t] = c
    BY CallChanges DEF Moves, IInv
  <1> QED  BY <1>1 DEF Moves, Lasting, Matches

\* route_for, by_token.
LEMMA RouteByTokenKeeps ==
    ASSUME IInv, NEW t \in Threads, RouteByToken(t)
    PROVE  IInv'
  <1> DEFINE k == call[t].req.token
  <1>1. /\ call[t].op = "emit" /\ call[t].at = "token"
        /\ UNCHANGED <<session, byPid, byToken, order, pidLock, orderLock, bus, stage, emits>>
        /\ TypeOK /\ k \in Tokens \cup {NoToken} /\ call[t].target \in Numbers
    BY DEF RouteByToken, At, registry, locks, IInv, TypeOK, Calls, Args
  <1>2. CASE k # NoToken /\ byToken[k] # NoSession
    <2>1. byToken[k] \in Scoped /\ session[byToken[k]].token = k
      BY <1>1, <1>2 DEF IInv, Ownership, TokensAreSound
    <2>2. GotoWith(t, "write", byToken[k])
      BY <1>2 DEF RouteByToken
    <2>3. PICK c : Moves(t, c, "write", byToken[k])
      BY <1>1, <2>1, <2>2, GotoWithMoves DEF Places, Numbers, Scoped
    <2>4. ASSUME Recordings' \subseteq Recordings
          PROVE  RouteIsSound(t)'
      <3>1. /\ call'[t].at = "write" /\ call'[t].target = byToken[k]
            /\ call'[t].req = call[t].req /\ Lasting(t)' \subseteq Lasting(t)
            /\ \A r : Matches(t, r)' <=> Matches(t, r)
        BY <1>1, <2>3, <2>4, RouteMoves
      <3>2. \A s \in Lasting(t) : Matches(t, s) => s = byToken[k]
        BY <1>2, <2>1 DEF Lasting, Recordings, Matches, Scoped, IInv, Ownership,
                          TokensAreSound
      <3> QED  BY <1>1, <1>2, <2>1, <3>1, <3>2 DEF RouteIsSound, Scoped
    <2> QED  BY <1>1, <2>1, <2>3, <2>4, EventMoves DEF Scoped, TypeOK
  <1>3. CASE ~(k # NoToken /\ byToken[k] # NoSession)
    <2>1. Goto(t, "pid")
      BY <1>3 DEF RouteByToken
    <2>2. PICK c : Moves(t, c, "pid", call[t].target)
      BY <1>1, <2>1, GotoMoves DEF Places
    <2>3. ASSUME Recordings' \subseteq Recordings
          PROVE  RouteIsSound(t)'
      <3>1. /\ call'[t].at = "pid" /\ call'[t].req = call[t].req
            /\ Lasting(t)' \subseteq Lasting(t)
            /\ \A r : Matches(t, r)' <=> Matches(t, r)
        BY <1>1, <2>2, <2>3, RouteMoves
      <3>2. stage = "serving" /\ k # NoToken =>
              \A s \in Lasting(t) : ~Matches(t, s)
        BY <1>3, RecordingsAreFound DEF Lasting, Matches
      <3> QED  BY <1>1, <3>1, <3>2 DEF RouteIsSound
    <2> QED  BY <1>1, <2>2, <2>3, EventMoves DEF TypeOK
  <1> QED  BY <1>2, <1>3

\* route_for, by_pid.
LEMMA RouteByPidKeeps ==
    ASSUME IInv, NEW t \in Threads, RouteByPid(t)
    PROVE  IInv'
  <1> DEFINE p == call[t].req.pid
  <1>1. /\ call[t].op = "emit" /\ call[t].at = "pid"
        /\ UNCHANGED <<session, byPid, byToken, order, pidLock, orderLock, bus, stage, emits>>
        /\ TypeOK /\ p \in Pids \cup {NoPid} /\ call[t].target \in Numbers
    BY DEF RouteByPid, At, registry, locks, IInv, TypeOK, Calls, Args
  <1>2. stage = "serving" /\ call[t].req.token # NoToken =>
          \A s \in Lasting(t) : ~Matches(t, s)
    BY <1>1 DEF IInv, Delivery, RouteIsSound
  <1>3. CASE p # NoPid /\ byPid[p] # NoSession
    <2>1. byPid[p] \in Scoped /\ session[byPid[p]].pid = p
      BY <1>1, <1>3 DEF IInv, Ownership, PidsAreSound
    <2>2. GotoWith(t, "write", byPid[p])
      BY <1>3 DEF RouteByPid
    <2>3. PICK c : Moves(t, c, "write", byPid[p])
      BY <1>1, <2>1, <2>2, GotoWithMoves DEF Places, Numbers, Scoped
    <2>4. ASSUME Recordings' \subseteq Recordings
          PROVE  RouteIsSound(t)'
      <3>1. /\ call'[t].at = "write" /\ call'[t].target = byPid[p]
            /\ call'[t].req = call[t].req /\ Lasting(t)' \subseteq Lasting(t)
            /\ \A r : Matches(t, r)' <=> Matches(t, r)
        BY <1>1, <2>3, <2>4, RouteMoves
      <3>2. stage = "serving" => \A s \in Lasting(t) : Matches(t, s) => s = byPid[p]
        BY <1>2, RecordingsAreFound DEF Lasting, Matches
      <3> QED  BY <1>1, <2>1, <3>1, <3>2 DEF RouteIsSound, Scoped
    <2> QED  BY <1>1, <2>1, <2>3, <2>4, EventMoves DEF Scoped, TypeOK
  <1>4. CASE ~(p # NoPid /\ byPid[p] # NoSession)
    <2>1. stage = "serving" => \A s \in Lasting(t) : ~Matches(t, s)
      BY <1>2, <1>4, RecordingsAreFound, RouterAssumption DEF Lasting, Matches
    <2>2. CASE call[t].req.mark
      <3>1. Goto(t, "newest")
        BY <1>4, <2>2 DEF RouteByPid
      <3>2. PICK c : Moves(t, c, "newest", call[t].target)
        BY <1>1, <3>1, GotoMoves DEF Places
      <3>3. ASSUME Recordings' \subseteq Recordings
            PROVE  RouteIsSound(t)'
        BY <1>1, <2>1, <2>2, <3>2, <3>3, RouteMoves DEF RouteIsSound
      <3> QED  BY <1>1, <3>2, <3>3, EventMoves DEF TypeOK
    <2>3. CASE ~call[t].req.mark
      <3>1. GotoWith(t, "write", Ambient) /\ Ambient \in Sessions
        BY <1>1, <1>4, <2>3, Numbering DEF RouteByPid
      <3>2. PICK c : Moves(t, c, "write", Ambient)
        BY <1>1, <3>1, GotoWithMoves DEF Places, Numbers
      <3>3. ASSUME Recordings' \subseteq Recordings
            PROVE  RouteIsSound(t)'
        BY <1>1, <2>1, <2>3, <3>2, <3>3, RouteMoves DEF RouteIsSound
      <3> QED  BY <1>1, <3>1, <3>2, <3>3, EventMoves DEF TypeOK
    <2> QED  BY <2>2, <2>3
  <1> QED  BY <1>3, <1>4

\* newest_scoped, the lock.
LEMMA LockOrderKeeps ==
    ASSUME IInv, NEW t \in Threads, LockOrder(t)
    PROVE  IInv'
  <1>1. /\ call[t].op = "emit" /\ call[t].at = "newest" /\ orderLock' = t
        /\ UNCHANGED <<session, byPid, byToken, order, pidLock, bus, stage, emits>>
        /\ TypeOK /\ Goto(t, "find")
    BY DEF LockOrder, At, registry, IInv
  <1>2. PICK c : Moves(t, c, "find", call[t].target)
    BY <1>1, GotoMoves DEF Places
  <1>3. ASSUME Recordings' \subseteq Recordings
        PROVE  RouteIsSound(t)'
    <2>1. RouteIsSound(t)
      BY DEF IInv, Delivery
    <2> QED  BY <1>1, <1>2, <1>3, <2>1, RouteMoves DEF RouteIsSound
  <1> QED  BY <1>1, <1>2, <1>3, EventMoves DEF TypeOK

\* newest_scoped, the search.
LEMMA RouteToNewestKeeps ==
    ASSUME IInv, NEW t \in Threads, RouteToNewest(t)
    PROVE  IInv'
  <1>1. /\ call[t].op = "emit" /\ call[t].at = "find" /\ orderLock' = NoThread
        /\ UNCHANGED <<session, byPid, byToken, order, pidLock, bus, stage, emits>>
        /\ TypeOK /\ GotoWith(t, "write", Newest)
    BY DEF RouteToNewest, At, registry, IInv
  <1>2. /\ Newest \in Sessions
        /\ \A p \in ToSet(order) : byPid[p] # NoSession => Newest # Ambient
    BY <1>1, NewestIsSound DEF IInv, Ownership
  <1>3. PICK c : Moves(t, c, "write", Newest)
    BY <1>1, <1>2, GotoWithMoves DEF Places, Numbers
  <1>4. ASSUME Recordings' \subseteq Recordings
        PROVE  RouteIsSound(t)'
    <2>1. RouteIsSound(t)
      BY DEF IInv, Delivery
    <2>2. stage = "serving" => \A s \in Lasting(t) : Newest # Ambient
      BY <1>2, RecordingsAreFound DEF Lasting
    <2> QED  BY <1>1, <1>3, <1>4, <2>1, <2>2, RouteMoves DEF RouteIsSound
  <1> QED  BY <1>1, <1>2, <1>3, <1>4, EventMoves DEF TypeOK

\* t's call is not about the owners of sessions, and t writes nothing.
LEMMA CallOver ==
    ASSUME IInv, NEW t \in Threads, NEW c \in Calls,
           call' = [call EXCEPT ![t] = c], Aside(t), call[t].at # "publish",
           \/ c.op = "none" /\ c.at = "idle"
           \/ c.op = "flush" /\ c.at = "flush",
           c.prev = NoSession, c.rest = {}, c.since = {},
           UNCHANGED <<session, byPid, byToken, order, bus, stage, emits>>,
           pidLock' \in Threads \cup {NoThread},
           orderLock' \in Threads \cup {NoThread}
    PROVE  IInv'
  <1>1. TypeOK
    BY DEF IInv
  <1>2. call'[t] = c /\ OthersKept(t)
    BY <1>1, CallChanges
  <1>3. SessionsKept /\ OpenKept /\ Sessions' = Sessions /\ RegistryKept
        /\ \A s \in Sessions : DOMAIN session'[s].log = DOMAIN session[s].log
    BY SessionsKeptWhenSame DEF RegistryKept
  <1>4. TypeOK'
    <2>1. Calls' = Calls /\ call'[t] \in Calls
      BY <1>2, <1>3 DEF Calls, Numbers
    <2>2. call' \in [Threads -> Calls']
      BY <1>1, <1>2, <1>3, <2>1, CallsTyped, Zenon
    <2> QED  BY <1>1, <1>3, <2>2 DEF TypeOK, Numbers
  <1>5. CallIsSound(t)'
    BY <1>2, <1>3 DEF CallIsSound, EmitIsSound, AttachIsSound, DetachIsSound,
                ShutdownIsSound, FieldsAreSound, IInv
  <1>6. (\A u \in Threads : CallIsSound(u)') /\ PidsAreExclusive' /\ Ownership'
        /\ Recordings' \subseteq Recordings
    BY <1>2, <1>3, <1>4, <1>5, AsideStep DEF Aside
  <1>7. SinceIsSound'
    BY <1>2, SinceFrame DEF IInv, Delivery, OthersKept, Opening, Registering
  <1>8. \A u \in Threads : RouteIsSound(u)'
    <2>1. RouteIsSound(t)'
      BY <1>2 DEF RouteIsSound
    <2> QED  BY <1>2, <1>3, <1>6, <2>1, RoutesAreSound
  <1>9. PublishedOnce' /\ FeedMatchesStore'
    BY <1>2, <1>3, FeedFrame DEF IInv, Delivery, OthersKept
  <1> QED  BY <1>4, <1>6, <1>7, <1>8, <1>9 DEF IInv, Delivery

\* flush_all begins.
LEMMA FlushAllKeeps ==
    ASSUME IInv, NEW t \in Threads, FlushAll(t)
    PROVE  IInv'
  <1> DEFINE c == [Idle EXCEPT !.op = "flush", !.at = "flush"]
  <1>1. /\ call[t] = Idle /\ call' = [call EXCEPT ![t] = c] /\ pidLock' = t
        /\ UNCHANGED <<session, byPid, byToken, order, orderLock, bus, stage, emits>>
        /\ TypeOK
    BY DEF FlushAll, Begin, registry, IInv
  <1>2. /\ c.op = "flush" /\ c.at = "flush" /\ c.rest = {}
        /\ c.prev = NoSession /\ c.since = {}
    BY DEF Idle
  <1>3. c \in Calls
    <2>1. Idle \in Calls
      BY DEF Idle, NoRequest, Calls, Args, Numbers, Ops, Places
    <2> QED  BY <2>1 DEF Calls, Ops, Places
  <1> HIDE DEF c
  <1>4. Aside(t) /\ call[t].at # "publish"
    BY <1>1 DEF Aside, Idle
  <1> QED  BY <1>1, <1>2, <1>3, <1>4, CallOver DEF TypeOK

\* flush_all ends.
LEMMA FlushDoneKeeps ==
    ASSUME IInv, NEW t \in Threads, FlushDone(t)
    PROVE  IInv'
  <1>1. /\ call[t].op = "flush" /\ call[t].at = "flush" /\ pidLock' = NoThread
        /\ UNCHANGED <<session, byPid, byToken, order, orderLock, bus, stage, emits>>
        /\ TypeOK /\ Return(t)
    BY DEF FlushDone, At, registry, IInv
  <1> QED  BY <1>1, ReturnEnds, CallOver DEF TypeOK, Aside

-----------------------------------------------------------------------------
(* Writing and publishing.                                                 *)

\* A step of t that leaves its part in the ownership as it is.
LEMMA RoleStep ==
    ASSUME IInv, NEW t \in Threads, OthersKept(t), SessionsKept, TypeOK',
           Sessions' = Sessions, RegistryKept, OpenKept, stage' = stage,
           CallIsSound(t)', SameRole(t),
           call'[t].op \in {"attach", "detach"} =>
             call'[t].op = call[t].op /\ call'[t].req = call[t].req,
           call[t].op = "attach" =>
             call'[t].op = "attach" /\ call'[t].target = call[t].target
    PROVE  (\A u \in Threads : CallIsSound(u)') /\ PidsAreExclusive' /\ Ownership'
           /\ Recordings' \subseteq Recordings
  <1>1. \A u \in Threads : CallIsSound(u)'
    BY CallsAreSound
  <1>2. PidsAreExclusive'
    BY ExclusiveFrame DEF IInv, OthersKept
  <1>3. \A u \in Threads : SameRole(u)
    BY SameRoleWhenKept DEF OthersKept
  <1>4. Ownership'
    BY <1>3, OwnershipFrame DEF IInv
  <1>5. Recordings' \subseteq Recordings
    <2>1. \A p \in Pids : byPid'[p] \in {byPid[p], NoSession}
      BY DEF RegistryKept
    <2>2. \A u \in Threads : call[u].op = "attach" =>
             call'[u].op = "attach" /\ call'[u].target = call[u].target
      BY DEF OthersKept
    <2> QED  BY <2>1, <2>2, RecordingsFrame DEF IInv, Ownership
  <1> QED  BY <1>1, <1>2, <1>4, <1>5

\* Where a thread that finalizes, or that writes an event, stands does not
\* matter to the ownership.
LEMMA SameRoleFinalizing ==
    ASSUME NEW t \in Threads, Finalizing(t), Finalizing(t)', RegistryKept,
           call[t].op \in {"attach", "detach", "shutdown"},
           call'[t].op = call[t].op, call'[t].req = call[t].req,
           call'[t].target = call[t].target, call'[t].prev = call[t].prev,
           call'[t].rest = call[t].rest
    PROVE  SameRole(t)
  <1>1. ~Opening(t) /\ ~Opening(t)' /\ ~Registering(t) /\ ~Registering(t)'
    BY DEF Finalizing, Opening, Registering
  <1>2. \A s : /\ Holds(t, s)' <=> Holds(t, s)
               /\ Untokens(t, s)' <=> Untokens(t, s)
    BY <1>1 DEF Holds, Untokens, Finalizing
  <1>3. \A p : ~Adds(t, p) /\ ~Adds(t, p)' /\ ~Removes(t, p) /\ ~Removes(t, p)'
    BY DEF Adds, Removes, Finalizing
  <1>4. PidIsHeld(t) => PidIsHeld(t)'
    <2>1. PidIsHeld(t) /\ call[t].op = "detach" =>
            byPid[call[t].req.pid] = NoSession
      BY DEF PidIsHeld
    <2> QED  BY <1>1, <2>1 DEF PidIsHeld, RegistryKept
  <1> QED  BY <1>2, <1>3, <1>4 DEF SameRole

\* What append_internal does to the log and to the call.
LEMMA WriteEffects ==
    ASSUME TypeOK, NEW t \in Threads, NEW kind \in Kinds,
           NEW then \in {"idle", "insert", "take"}, Write(t, kind, then),
           call[t].target \in Sessions
    PROVE  /\ session' \in Seq(SessionRecords) /\ Sessions' = Sessions
           /\ SessionsKept /\ OpenKept
           /\ \A s, i : Stored(s, i)' <=>
                Stored(s, i) \/ (s = call[t].target /\ i = call'[t].pos)
           /\ ~Stored(call[t].target, call'[t].pos)
           /\ call' = [call EXCEPT ![t] = call'[t]] /\ call'[t] \in Calls
           /\ OthersKept(t)
           /\ call'[t].at = "publish" /\ call'[t].then = then
           /\ call'[t].pos \in DOMAIN session'[call[t].target].log
           /\ call'[t].op = call[t].op /\ call'[t].req = call[t].req
           /\ call'[t].target = call[t].target /\ call'[t].prev = call[t].prev
           /\ call'[t].rest = call[t].rest /\ call'[t].since = call[t].since
  <1> DEFINE s == call[t].target
             n == Len(session[s].log) + 1
             c == [call[t] EXCEPT !.at = "publish", !.then = then, !.pos = n]
             w == [session[s] EXCEPT !.log = Append(session[s].log, kind)]
  <1>1. /\ session[s] \in SessionRecords /\ session \in Seq(SessionRecords)
        /\ call[t] \in Calls
    BY Numbering DEF TypeOK
  <1>2. session' = [session EXCEPT ![s] = w] /\ call' = [call EXCEPT ![t] = c]
    BY DEF Write
  <1>3. ASSUME NEW l \in Seq(Kinds), NEW e \in Kinds
        PROVE  /\ Append(l, e) \in Seq(Kinds) /\ Len(l) + 1 \in Nat
               /\ DOMAIN Append(l, e) = DOMAIN l \cup {Len(l) + 1}
               /\ Len(l) + 1 \notin DOMAIN l
    <2> HIDE DEF Kinds
    <2> QED  OBVIOUS
  <1>4. session[s].log \in Seq(Kinds)
    BY <1>1 DEF SessionRecords
  <1>5. /\ n \in Nat /\ Append(session[s].log, kind) \in Seq(Kinds)
        /\ DOMAIN Append(session[s].log, kind) = DOMAIN session[s].log \cup {n}
        /\ n \notin DOMAIN session[s].log
    BY <1>3, <1>4
  <1>w. /\ w \in SessionRecords /\ w.log = Append(session[s].log, kind)
        /\ w.pid = session[s].pid /\ w.token = session[s].token
        /\ w.open = session[s].open
    BY <1>1, <1>5 DEF SessionRecords
  <1>6. /\ c \in Calls /\ c.at = "publish" /\ c.then = then /\ c.pos = n
        /\ c.op = call[t].op /\ c.req = call[t].req /\ c.target = s
        /\ c.prev = call[t].prev /\ c.rest = call[t].rest
        /\ c.since = call[t].since
    BY <1>1, <1>5 DEF Calls, Places
  <1> HIDE DEF c, w, n
  <1>7. /\ session' \in Seq(SessionRecords) /\ Sessions' = Sessions
        /\ session'[s] = w /\ \A r \in Sessions \ {s} : session'[r] = session[r]
    <2> HIDE DEF SessionRecords
    <2> QED  BY <1>1, <1>2, <1>w DEF Sessions
  <1>8. call'[t] = c /\ OthersKept(t)
    BY <1>2, CallChanges
  <1>9. SessionsKept /\ OpenKept
    BY <1>w, <1>5, <1>7 DEF SessionsKept, OpenKept, Scoped
  <1>10. \A r, i : Stored(r, i)' <=> Stored(r, i) \/ (r = s /\ i = n)
    <2>1. DOMAIN session'[s].log = DOMAIN session[s].log \cup {n}
      BY <1>5, <1>w, <1>7
    <2> SUFFICES ASSUME NEW r, NEW i
                 PROVE  Stored(r, i)' <=> Stored(r, i) \/ (r = s /\ i = n)
      OBVIOUS
    <2>2. CASE r = s
      BY <1>7, <2>1, <2>2 DEF Stored
    <2>3. CASE r # s
      BY <1>7, <2>3 DEF Stored
    <2> QED  BY <2>2, <2>3
  <1>11. ~Stored(s, n)
    BY <1>5 DEF Stored
  <1> QED  BY <1>2, <1>5, <1>w, <1>6, <1>7, <1>8, <1>9, <1>10, <1>11

\* The position a thread has to publish is that of an event in a log.
LEMMA PublishedIsStored ==
    ASSUME IInv, NEW u \in Threads, call[u].at = "publish"
    PROVE  Stored(call[u].target, call[u].pos)
  <1>1. call[u].target \in Sessions
    BY DEF CallIsSound, EmitIsSound, AttachIsSound, DetachIsSound,
           ShutdownIsSound, FieldsAreSound, TypeOK, Calls, Numbers, Ops,
           Scoped, IInv
  <1> QED  BY <1>1 DEF Stored, IInv, CallIsSound, FieldsAreSound

\* append_internal writes an event: it is stored and withheld at once.
LEMMA WriteKeeps ==
    ASSUME IInv, NEW t \in Threads, NEW kind \in Kinds,
           NEW then \in {"idle", "insert", "take"}, Write(t, kind, then),
           call[t].target \in Sessions,
           \/ call[t].op = "emit" /\ call[t].at = "write" /\ then = "idle"
           \/ /\ call[t].op \in {"attach", "detach", "shutdown"}
              /\ call[t].at = "end" /\ then = "take",
           UNCHANGED <<byPid, byToken, order, pidLock, orderLock, bus, stage, emits>>
    PROVE  IInv'
  <1>0. TypeOK
    BY DEF IInv
  <1>1. /\ session' \in Seq(SessionRecords) /\ Sessions' = Sessions
        /\ SessionsKept /\ OpenKept
        /\ \A s, i : Stored(s, i)' <=>
             Stored(s, i) \/ (s = call[t].target /\ i = call'[t].pos)
        /\ ~Stored(call[t].target, call'[t].pos)
        /\ call' = [call EXCEPT ![t] = call'[t]] /\ call'[t] \in Calls
        /\ OthersKept(t)
    BY <1>0, WriteEffects
  <1>2. /\ call'[t].at = "publish" /\ call'[t].then = then
        /\ call'[t].pos \in DOMAIN session'[call[t].target].log
        /\ call'[t].op = call[t].op /\ call'[t].req = call[t].req
        /\ call'[t].target = call[t].target /\ call'[t].prev = call[t].prev
        /\ call'[t].rest = call[t].rest /\ call'[t].since = call[t].since
    BY <1>0, WriteEffects
  <1>3. TypeOK'
    <2>1. Calls' = Calls
      BY <1>1 DEF Calls, Numbers
    <2>2. call' \in [Threads -> Calls']
      BY <1>0, <1>1, <2>1, CallsTyped, Zenon
    <2> QED  BY <1>0, <1>1, <2>2 DEF TypeOK, Numbers
  <1>4. CallIsSound(t)'
    <2>1. CallIsSound(t)
      BY DEF IInv
    <2>2. Finalizing(t)' <=> then = "take"
      BY <1>2 DEF Finalizing
    <2>3. ~Opening(t)' /\ ~Registering(t)' /\ (then = "take" => Closing(t)')
      BY <1>2, <2>2 DEF Opening, Registering, Closing
    <2>4. AttachIsSound(t)'
      <3>1. call[t].op = "attach" => Closing(t) /\ AttachIsSound(t)
        BY <2>1 DEF CallIsSound, Closing, Finalizing
      <3>2. call[t].op = "attach" => then = "take"
        OBVIOUS
      <3> QED
        BY <1>1, <1>2, <2>3, <3>1, <3>2 DEF AttachIsSound, Scoped, SessionsKept
    <2>5. DetachIsSound(t)'
      BY <1>1, <1>2, <2>1, <2>3 DEF CallIsSound, DetachIsSound, Scoped, SessionsKept
    <2>6. EmitIsSound(t)' /\ FieldsAreSound(t)'
      BY <1>1, <1>2, <2>1 DEF CallIsSound, EmitIsSound, FieldsAreSound
    <2>7. ShutdownIsSound(t)'
      BY <1>2, <2>1, <2>2 DEF CallIsSound, ShutdownIsSound
    <2> QED  BY <2>4, <2>5, <2>6, <2>7 DEF CallIsSound
  <1>5. SameRole(t)
    <2>1. CASE then = "take"
      BY <1>2, <2>1, SameRoleFinalizing DEF Finalizing, RegistryKept
    <2>2. CASE then # "take"
      BY <1>0, <1>2, <1>4, <2>2, SameRoleAside DEF IInv, CallIsSound, Aside
    <2> QED  BY <2>1, <2>2
  <1>6. (\A u \in Threads : CallIsSound(u)') /\ PidsAreExclusive' /\ Ownership'
        /\ Recordings' \subseteq Recordings
    BY <1>1, <1>2, <1>3, <1>4, <1>5, RoleStep DEF RegistryKept
  <1>7. SinceIsSound'
    BY <1>1, <1>2, SinceFrame DEF IInv, Delivery, OthersKept, Opening, Registering
  <1>8. \A u \in Threads : RouteIsSound(u)'
    <2>1. RouteIsSound(t)'
      BY <1>2 DEF RouteIsSound
    <2> QED  BY <1>1, <1>6, <2>1, RoutesAreSound
  <1>9. PublishedOnce' /\ FeedMatchesStore'
    BY <1>1, <1>2, PublishedIsStored, FeedWritten DEF IInv, Delivery
  <1> QED  BY <1>3, <1>6, <1>7, <1>8, <1>9 DEF IInv, Delivery

\* append writes the event, or is refused.
LEMMA WriteEventKeeps ==
    ASSUME IInv, NEW t \in Threads, WriteEvent(t)
    PROVE  IInv'
  <1>1. /\ call[t].op = "emit" /\ call[t].at = "write" /\ TypeOK
        /\ UNCHANGED <<byPid, byToken, order, pidLock, orderLock, bus, stage, emits>>
    BY DEF WriteEvent, At, registry, locks, IInv
  <1>2. call[t].target \in Sessions
    BY <1>1 DEF IInv, CallIsSound, EmitIsSound
  <1>3. CASE Write(t, "event", "idle")
    BY <1>1, <1>2, <1>3, WriteKeeps DEF Kinds
  <1>4. CASE Return(t) /\ UNCHANGED session
    BY <1>1, <1>4, ReturnEnds, CallOver DEF TypeOK, Aside
  <1> QED  BY <1>3, <1>4 DEF WriteEvent

\* A step of a thread that finalizes, or publishes what it opened a session
\* with, and neither writes nor registers anything.
LEMMA FinalizingMoves ==
    ASSUME IInv, NEW t \in Threads, NEW c, NEW place,
           Moves(t, c, place, call[t].target),
           \/ Finalizing(t) /\ place = "take"
           \/ Opening(t) /\ place = "insert",
           call[t].op \in {"attach", "detach", "shutdown"},
           UNCHANGED <<session, byPid, byToken, order, pidLock, orderLock, stage, emits>>,
           bus' \subseteq Sessions \X Nat
    PROVE  /\ TypeOK' /\ (\A u \in Threads : CallIsSound(u)') /\ PidsAreExclusive'
           /\ Ownership' /\ SinceIsSound' /\ \A u \in Threads : RouteIsSound(u)'
           /\ OthersKept(t) /\ call'[t].at = place
  <1>1. TypeOK
    BY DEF IInv
  <1>2. call'[t] = c /\ OthersKept(t)
    BY <1>1, CallChanges DEF Moves
  <1>3. SessionsKept /\ OpenKept /\ Sessions' = Sessions /\ RegistryKept
    BY SessionsKeptWhenSame DEF RegistryKept
  <1>4. TypeOK'
    <2>1. Calls' = Calls /\ call'[t] \in Calls
      BY <1>2, <1>3 DEF Calls, Numbers, Moves
    <2>2. call' \in [Threads -> Calls']
      BY <1>1, <1>2, <1>3, <2>1, CallsTyped, Zenon DEF Moves
    <2> QED  BY <1>1, <1>3, <2>2 DEF TypeOK, Numbers
  <1>5. /\ call'[t].op = call[t].op /\ call'[t].req = call[t].req
        /\ call'[t].target = call[t].target /\ call'[t].prev = call[t].prev
        /\ call'[t].rest = call[t].rest /\ call'[t].since = call[t].since
        /\ call'[t].at = place
    BY <1>2 DEF Moves
  <1>6. /\ Finalizing(t)' <=> place = "take"
        /\ Opening(t)' <=> place = "insert" /\ call[t].op = "attach"
        /\ ~Registering(t) /\ ~Registering(t)'
        /\ Finalizing(t) <=> place = "take"
        /\ Opening(t) <=> place = "insert"
    BY <1>5 DEF Finalizing, Opening, Registering
  <1>7. CallIsSound(t)'
    <2>1. CallIsSound(t)
      BY DEF IInv
    <2>2. Closing(t)' <=> Closing(t)
      BY <1>5, <1>6 DEF Closing, Opening
    <2>3. Opening(t) => call[t].op = "attach"
      BY DEF Opening
    <2>4. Scoped' = Scoped /\ session' = session
      BY <1>3 DEF Scoped
    <2>5. AttachIsSound(t)'
      BY <1>5, <1>6, <2>1, <2>2, <2>3, <2>4 DEF CallIsSound, AttachIsSound
    <2>6. DetachIsSound(t)'
      BY <1>5, <1>6, <2>1, <2>2, <2>3, <2>4 DEF CallIsSound, DetachIsSound, Closing
    <2>7. EmitIsSound(t)'
      BY <1>5, <1>6, <2>1, <2>3 DEF CallIsSound, EmitIsSound
    <2>8. FieldsAreSound(t)'
      BY <1>5, <1>6, <2>1, <2>3 DEF CallIsSound, FieldsAreSound
    <2>9. ShutdownIsSound(t)'
      <3>1. place = "take" => call[t].at \notin {"clear", "next"}
        BY <1>6 DEF Finalizing
      <3>2. call[t].op = "shutdown" => place = "take"
        BY <1>6, <2>3
      <3> QED
        BY <1>5, <1>6, <2>1, <3>1, <3>2 DEF CallIsSound, ShutdownIsSound
    <2> QED  BY <2>5, <2>6, <2>7, <2>8, <2>9 DEF CallIsSound
  <1>8. SameRole(t)
    <2>1. CASE place = "take"
      BY <1>3, <1>5, <1>6, <2>1, SameRoleFinalizing
    <2>2. CASE place # "take"
      <3>1. \A s : /\ Holds(t, s)' <=> Holds(t, s)
                   /\ Untokens(t, s)' <=> Untokens(t, s)
        BY <1>5, <1>6, <2>2 DEF Holds, Untokens, Opening
      <3>2. \A p : ~Adds(t, p) /\ ~Adds(t, p)' /\ ~Removes(t, p) /\ ~Removes(t, p)'
        BY <1>5, <1>6, <2>2 DEF Adds, Removes, Opening
      <3>3. PidIsHeld(t)'
        BY <1>5, <1>6, <2>2 DEF PidIsHeld, Opening
      <3> QED  BY <1>5, <1>6, <2>2, <3>1, <3>2, <3>3 DEF SameRole, Opening
    <2> QED  BY <2>1, <2>2
  <1>9. (\A u \in Threads : CallIsSound(u)') /\ PidsAreExclusive' /\ Ownership'
        /\ Recordings' \subseteq Recordings
    BY <1>2, <1>3, <1>4, <1>5, <1>7, <1>8, RoleStep
  <1>10. SinceIsSound'
    <2>1. \A u \in Threads :
             /\ call'[u].since \subseteq call[u].since
             /\ Opening(u)' \/ Registering(u)' =>
                  (Opening(u) \/ Registering(u)) /\ call'[u].target = call[u].target
      <3> SUFFICES ASSUME NEW u \in Threads
                   PROVE /\ call'[u].since \subseteq call[u].since
                         /\ Opening(u)' \/ Registering(u)' =>
                            (Opening(u) \/ Registering(u)) /\ call'[u].target = call[u].target
        OBVIOUS
      <3>1. CASE u = t
        BY <1>5, <1>6, <3>1
      <3>2. CASE u # t
        BY <1>2, <3>2 DEF OthersKept, Opening, Registering
      <3> QED  BY <3>1, <3>2
    <2> QED  BY <2>1, SinceFrame DEF IInv, Delivery
  <1>11. \A u \in Threads : RouteIsSound(u)'
    <2>1. RouteIsSound(t)'
      BY <1>5 DEF RouteIsSound
    <2> QED  BY <1>2, <1>3, <1>9, <2>1, RoutesAreSound
  <1> QED  BY <1>2, <1>4, <1>5, <1>9, <1>10, <1>11

\* finalize writes SessionEnded, or is refused.
LEMMA WriteEndedKeeps ==
    ASSUME IInv, NEW t \in Threads, WriteEnded(t)
    PROVE  IInv'
  <1>1. /\ call[t].at = "end" /\ TypeOK
        /\ UNCHANGED <<byPid, byToken, order, pidLock, orderLock, bus, stage, emits>>
    BY DEF WriteEnded, At, registry, locks, IInv
  <1>2. /\ call[t].op \in {"attach", "detach", "shutdown"}
        /\ call[t].target \in Sessions /\ Finalizing(t)
    <2>1. CallIsSound(t) /\ call[t] \in Calls
      BY <1>1 DEF IInv, TypeOK
    <2>2. call[t].op \in {"attach", "detach", "shutdown"}
      BY <1>1, <2>1 DEF CallIsSound, EmitIsSound, FieldsAreSound, Calls, Ops
    <2> QED
      BY <1>1, <2>1, <2>2 DEF CallIsSound, AttachIsSound, DetachIsSound,
         ShutdownIsSound, Scoped, Finalizing, Calls, Numbers
  <1>3. CASE Write(t, "ended", "take")
    BY <1>1, <1>2, <1>3, WriteKeeps DEF Kinds
  <1>4. CASE Goto(t, "take") /\ UNCHANGED session
    <2>1. PICK c : Moves(t, c, "take", call[t].target)
      BY <1>1, <1>4, GotoMoves DEF Places
    <2>2. bus' \subseteq Sessions \X Nat
      BY <1>1 DEF TypeOK
    <2>3. /\ TypeOK' /\ (\A u \in Threads : CallIsSound(u)') /\ PidsAreExclusive'
          /\ Ownership' /\ SinceIsSound' /\ \A u \in Threads : RouteIsSound(u)'
          /\ OthersKept(t) /\ call'[t].at = "take"
      BY <1>1, <1>2, <1>4, <2>1, <2>2, FinalizingMoves
    <2>4. PublishedOnce' /\ FeedMatchesStore'
      BY <1>1, <1>4, <2>3, SessionsKeptWhenSame, FeedFrame DEF IInv, Delivery, OthersKept
    <2> QED  BY <2>3, <2>4 DEF IInv, Delivery
  <1> QED  BY <1>3, <1>4 DEF WriteEnded

\* append_internal publishes: the event is stored and no longer withheld.
LEMMA PublishKeeps ==
    ASSUME IInv, NEW t \in Threads, Publish(t)
    PROVE  IInv'
  <1>1. /\ call[t].at = "publish" /\ TypeOK
        /\ bus' = bus \cup {<<call[t].target, call[t].pos>>}
        /\ UNCHANGED <<session, byPid, byToken, order, pidLock, orderLock, stage, emits>>
    BY DEF Publish, registry, locks, IInv
  <1>2. Stored(call[t].target, call[t].pos) /\ call[t].target \in Sessions
    BY <1>1, PublishedIsStored DEF Stored
  <1>3. /\ CallIsSound(t) /\ call[t] \in Calls
        /\ bus' \subseteq Sessions \X Nat
    BY <1>1, <1>2 DEF IInv, TypeOK, Calls
  <1>s. SessionsKept /\ OpenKept /\ Sessions' = Sessions /\ RegistryKept
        /\ \A s, i : Stored(s, i)' <=> Stored(s, i)
    BY <1>1, SessionsKeptWhenSame DEF RegistryKept
  <1>4. CASE call[t].then = "idle"
    <2>1. call[t].op = "emit"
      BY <1>1, <1>3, <1>4 DEF CallIsSound, AttachIsSound, DetachIsSound,
         ShutdownIsSound, FieldsAreSound, Opening, Registering, Closing,
         Finalizing, Calls, Ops
    <2>2. /\ call' = [call EXCEPT ![t] = Idle] /\ Idle \in Calls
          /\ Idle.op = "none" /\ Idle.at = "idle" /\ Idle.target = NoSession
          /\ Idle.prev = NoSession /\ Idle.rest = {} /\ Idle.since = {}
      BY <1>1, <1>4, ReturnEnds DEF Publish
    <2>3. call'[t] = Idle /\ OthersKept(t)
      BY <1>1, <2>2, CallChanges
    <2>4. TypeOK'
      <3>1. Calls' = Calls /\ call'[t] \in Calls
        BY <1>s, <2>2, <2>3 DEF Calls, Numbers
      <3>2. call' \in [Threads -> Calls']
        BY <1>1, <1>s, <2>2, <2>3, <3>1, CallsTyped, Zenon
      <3> QED  BY <1>1, <1>3, <1>s, <3>2 DEF TypeOK, Numbers
    <2>5. CallIsSound(t)'
      BY <2>2, <2>3 DEF CallIsSound, EmitIsSound, AttachIsSound, DetachIsSound,
                  ShutdownIsSound, FieldsAreSound
    <2>6. (\A u \in Threads : CallIsSound(u)') /\ PidsAreExclusive' /\ Ownership'
          /\ Recordings' \subseteq Recordings
      BY <1>1, <1>s, <2>1, <2>2, <2>3, <2>4, <2>5, AsideStep DEF Aside
    <2>7. SinceIsSound'
      BY <2>2, <2>3, SinceFrame DEF IInv, Delivery, OthersKept, Opening, Registering
    <2>8. \A u \in Threads : RouteIsSound(u)'
      <3>1. RouteIsSound(t)'
        BY <2>2, <2>3 DEF RouteIsSound
      <3> QED  BY <1>1, <1>s, <2>3, <2>6, <3>1, RoutesAreSound
    <2>9. PublishedOnce' /\ FeedMatchesStore'
      BY <1>1, <1>2, <1>s, <2>2, <2>3, FeedPublished DEF IInv, Delivery
    <2> QED  BY <2>4, <2>6, <2>7, <2>8, <2>9 DEF IInv, Delivery
  <1>5. CASE call[t].then # "idle"
    <2>1. /\ call[t].then \in {"insert", "take"} /\ Goto(t, call[t].then)
          /\ call[t].op \in {"attach", "detach", "shutdown"}
      BY <1>1, <1>3, <1>5 DEF Publish, CallIsSound, EmitIsSound, FieldsAreSound,
                              Calls, Ops
    <2>2. \/ Finalizing(t) /\ call[t].then = "take"
          \/ Opening(t) /\ call[t].then = "insert"
      BY <1>1, <1>3, <2>1 DEF CallIsSound, AttachIsSound, DetachIsSound,
         ShutdownIsSound, Finalizing, Opening, Registering, Closing
    <2>3. PICK c : Moves(t, c, call[t].then, call[t].target)
      BY <1>1, <2>1, GotoMoves DEF Places
    <2>4. /\ TypeOK' /\ (\A u \in Threads : CallIsSound(u)') /\ PidsAreExclusive'
          /\ Ownership' /\ SinceIsSound' /\ \A u \in Threads : RouteIsSound(u)'
          /\ OthersKept(t) /\ call'[t].at = call[t].then
      BY <1>1, <1>3, <2>1, <2>2, <2>3, FinalizingMoves
    <2>5. PublishedOnce' /\ FeedMatchesStore'
      <3>1. call'[t].at # "publish"
        BY <2>1, <2>4
      <3> QED
        BY <1>1, <1>2, <1>s, <2>4, <3>1, FeedPublished DEF IInv, Delivery
    <2> QED  BY <2>4, <2>5 DEF IInv, Delivery
  <1> QED  BY <1>4, <1>5

-----------------------------------------------------------------------------
(* Steps that change the registry or the owners.                           *)

\* A recording is not taken up again by the steps of attach.
LEMMA RecordingsBegin ==
    ASSUME TypeOK, SessionsKept, Sessions' = Sessions,
           \A s \in Scoped : Registered(s)' =>
             \/ Registered(s)
             \/ \E u \in Threads : call'[u].op = "attach" /\ call'[u].target = s,
           \A u \in Threads : call[u].op = "attach" =>
             \/ call'[u].op = "attach" /\ call'[u].target = call[u].target
             \/ ~Registered(call[u].target)
             \/ \A v \in Threads : call[u].target \notin call[v].since
    PROVE  \A v \in Threads : call[v].since \cap Recordings' \subseteq Recordings
  <1> SUFFICES ASSUME NEW v \in Threads, NEW s \in call[v].since, s \in Recordings'
               PROVE  s \in Recordings
    OBVIOUS
  <1>1. /\ s \in Scoped /\ Registered(s)'
        /\ \A u \in Threads : call'[u].op = "attach" => call'[u].target # s
    BY DEF Recordings, Scoped, Registered
  <1>2. Registered(s)
    BY <1>1
  <1>3. ASSUME NEW u \in Threads, call[u].op = "attach", call[u].target = s
        PROVE  FALSE
    BY <1>1, <1>2, <1>3
  <1> QED  BY <1>1, <1>2, <1>3 DEF Recordings, Scoped, Registered

\* The token of a session stays as it is.
LEMMA TokenFrame ==
    ASSUME NEW s, TokenIsSound(s), session'[s].token = session[s].token,
           session'[s].open = session[s].open,
           session[s].token # NoToken =>
             (byToken'[session[s].token] = s <=> byToken[session[s].token] = s),
           \A u \in Threads : Untokens(u, s)' <=> Untokens(u, s)
    PROVE  TokenIsSound(s)'
  BY DEF TokenIsSound

\* The place of a pid in attach_order stays as it is.
LEMMA OrderFrame ==
    ASSUME NEW p, OrderIsSound(p), p \in ToSet(order)' <=> p \in ToSet(order),
           byPid'[p] = NoSession <=> byPid[p] = NoSession,
           \A u \in Threads : /\ Adds(u, p)' <=> Adds(u, p)
                              /\ Removes(u, p)' <=> Removes(u, p)
    PROVE  OrderIsSound(p)'
  BY DEF OrderIsSound

\* Another thread's part does not change.
LEMMA OthersRoles ==
    ASSUME NEW t \in Threads, NEW u \in Threads, u # t, OthersKept(t)
    PROVE  /\ call'[u] = call[u]
           /\ \A s : /\ Holds(u, s)' <=> Holds(u, s)
                     /\ Untokens(u, s)' <=> Untokens(u, s)
           /\ \A p : /\ Adds(u, p)' <=> Adds(u, p)
                     /\ Removes(u, p)' <=> Removes(u, p)
           /\ Opening(u)' <=> Opening(u)
           /\ Registering(u)' <=> Registering(u)
  BY DEF OthersKept, Holds, Untokens, Opening, Registering, Finalizing, Adds,
         Removes

\* Another thread's pid is not touched.
LEMMA OthersHold ==
    ASSUME IInv, NEW t \in Threads, NEW u \in Threads, u # t, OthersKept(t),
           call[t].op \in {"attach", "detach"},
           stage' = stage,
           \A p \in Pids \ {call[t].req.pid} : byPid'[p] = byPid[p]
    PROVE  PidIsHeld(u)'
  <1>1. /\ call'[u] = call[u] /\ PidIsHeld(u)
        /\ Registering(u)' <=> Registering(u)
    BY OthersRoles DEF IInv, Ownership
  <1>2. ASSUME call[u].op \in {"attach", "detach"}
        PROVE  byPid'[call[u].req.pid] = byPid[call[u].req.pid]
    <2>1. call[u].req.pid \in Pids
      BY <1>2 DEF IInv, CallIsSound, AttachIsSound, DetachIsSound
    <2>2. call[u].req.pid # call[t].req.pid
      BY <1>2 DEF IInv, PidsAreExclusive
    <2> QED  BY <2>1, <2>2
  <1> QED  BY <1>1, <1>2 DEF PidIsHeld, Registering

\* Nothing is written or published by t.
Quiet(t) == /\ OthersKept(t) /\ bus' = bus /\ SessionsKept /\ Sessions' = Sessions
            /\ \A s \in Sessions : session'[s].log = session[s].log
            /\ call[t].at # "publish" /\ call'[t].at # "publish"
            /\ call'[t].op # "emit" /\ call'[t].since \subseteq call[t].since

\* Nothing an event depends on changes.
LEMMA QuietStep ==
    ASSUME IInv, NEW t \in Threads, Quiet(t), stage' = "serving" => stage = "serving",
           Opening(t)' \/ Registering(t)' =>
             (Opening(t) \/ Registering(t)) /\ call'[t].target = call[t].target,
           \A v \in Threads : call[v].since \cap Recordings' \subseteq Recordings
    PROVE  Delivery'
  <1>1. SinceIsSound'
    <2>1. \A u \in Threads :
             /\ call'[u].since \subseteq call[u].since
             /\ Opening(u)' \/ Registering(u)' =>
                  (Opening(u) \/ Registering(u)) /\ call'[u].target = call[u].target
      BY OthersRoles DEF Quiet
    <2> QED  BY <2>1, SinceFrame DEF IInv, Delivery
  <1>2. \A u \in Threads : RouteIsSound(u)'
    <2>1. RouteIsSound(t)'
      BY DEF RouteIsSound, Quiet
    <2> QED  BY <2>1, RoutesAreSound DEF Quiet
  <1>3. PublishedOnce' /\ FeedMatchesStore'
    BY FeedFrame DEF IInv, Delivery, Quiet, OthersKept
  <1> QED  BY <1>1, <1>2, <1>3 DEF Delivery

\* attach_scoped, by_pid: the new session goes to the registry, the one it
\* supersedes to the thread.
LEMMA InsertPidKeeps ==
    ASSUME IInv, NEW t \in Threads, InsertPid(t)
    PROVE  IInv'
  <1> DEFINE p == call[t].req.pid
             n == call[t].target
             o == byPid[p]
             c == [call[t] EXCEPT !.at = "order", !.prev = o]
  <1>1. /\ call[t].op = "attach" /\ call[t].at = "insert" /\ TypeOK
        /\ UNCHANGED <<session, byToken, order, pidLock, orderLock, bus, stage, emits>>
        /\ byPid' = [byPid EXCEPT ![p] = n] /\ call' = [call EXCEPT ![t] = c]
    BY DEF InsertPid, At, locks, IInv
  <1>2. /\ Opening(t) /\ AttachIsSound(t) /\ FieldsAreSound(t)
        /\ n \in Scoped /\ n # NoSession /\ p \in Pids /\ session[n].pid = p
        /\ o \in Numbers /\ call[t].prev = NoSession /\ call[t].rest = {}
        /\ session[n].token = call[t].req.token
    BY <1>1, Numbering DEF IInv, CallIsSound, AttachIsSound, FieldsAreSound, Opening,
       TypeOK
  <1>3. /\ c \in Calls /\ c.op = "attach" /\ c.at = "order" /\ c.req = call[t].req
        /\ c.target = n /\ c.prev = o /\ c.rest = {} /\ c.since = call[t].since
    <2>1. call[t] \in Calls
      BY <1>1 DEF TypeOK
    <2> QED  BY <1>1, <1>2, <2>1 DEF Calls, Places
  <1>4. call'[t] = c /\ OthersKept(t)
    <2> HIDE DEF c
    <2> QED  BY <1>1, CallChanges
  <1> HIDE DEF c
  <1>5. /\ byPid' \in [Pids -> Numbers] /\ byPid'[p] = n
        /\ \A q \in Pids \ {p} : byPid'[q] = byPid[q]
    BY <1>1, <1>2 DEF TypeOK, Scoped, Numbers
  <1>6. SessionsKept /\ OpenKept /\ Sessions' = Sessions /\ Scoped' = Scoped
    BY <1>1, SessionsKeptWhenSame DEF Scoped
  <1>7. TypeOK'
    <2>1. Calls' = Calls /\ call'[t] \in Calls
      BY <1>3, <1>4, <1>6 DEF Calls, Numbers
    <2>2. call' \in [Threads -> Calls']
      BY <1>1, <1>4, <1>6, <2>1, CallsTyped, Zenon
    <2> QED  BY <1>1, <1>5, <1>6, <2>2 DEF TypeOK, Numbers
  <1>8. o # NoSession => o \in Scoped /\ session[o].pid = p /\ Registered(o)
    BY <1>2 DEF IInv, Ownership, PidsAreSound, Registered
  <1>9. Holds(t, n) /\ o # n
    <2>1. Holds(t, n)
      BY <1>1 DEF Holds
    <2>2. ~Registered(n)
      BY <1>2, <2>1 DEF IInv, Ownership, Owned
    <2> QED  BY <1>2, <2>1, <2>2 DEF Registered
  <1>10. ~Opening(t)' /\ Registering(t)' /\ ~Closing(t)' /\ ~Finalizing(t)'
         /\ ~Finalizing(t) /\ ~Registering(t)
    BY <1>1, <1>3, <1>4 DEF Opening, Registering, Closing, Finalizing
  <1>11. CallIsSound(t)'
    <2>1. AttachIsSound(t)'
      BY <1>1, <1>2, <1>3, <1>4, <1>6, <1>8, <1>9, <1>10 DEF AttachIsSound
    <2>2. FieldsAreSound(t)'
      BY <1>1, <1>2, <1>3, <1>4 DEF FieldsAreSound
    <2> QED
      BY <1>3, <1>4, <2>1, <2>2 DEF CallIsSound, EmitIsSound, DetachIsSound,
         ShutdownIsSound
  <1>12. \A u \in Threads : CallIsSound(u)'
    BY <1>4, <1>6, <1>11, CallsAreSound
  <1>13. PidsAreExclusive'
    BY <1>1, <1>3, <1>4, ExclusiveFrame DEF IInv, OthersKept
  <1>14. PidsAreSound' /\ TokensAreSound'
    <2>1. PidsAreSound /\ TokensAreSound
      BY DEF IInv, Ownership
    <2>2. PidsAreSound'
      BY <1>1, <1>2, <1>5, <1>6, <2>1 DEF PidsAreSound
    <2>3. TokensAreSound'
      BY <1>1, <1>6, <2>1 DEF TokensAreSound
    <2> QED  BY <2>2, <2>3
  <1>15. ASSUME NEW s \in Scoped PROVE Owned(s)'
    <2>1. \A u \in Threads : u # t => (Holds(u, s)' <=> Holds(u, s))
      BY <1>4, OthersRoles
    <2>2. Holds(t, s)' <=> s = o /\ s # n
      BY <1>3, <1>4 DEF Holds
    <2>3. s # NoSession /\ Owned(s) /\ session[s].pid \in Pids
      BY <1>1, Numbering DEF IInv, Ownership, PidsAreSound
    <2>4. Holds(t, s) => s = n
      BY <1>1, <1>2, <2>3 DEF Holds
    <2>5. Registered(s)' <=> s = n \/ (Registered(s) /\ session[s].pid # p)
      BY <1>1, <1>2, <1>5, <2>3 DEF Registered
    <2>6. CASE s = n
      BY <1>1, <1>9, <2>1, <2>2, <2>3, <2>5, <2>6, OwnedGiven
    <2>7. CASE s = o
      BY <1>1, <1>8, <1>9, <2>1, <2>2, <2>3, <2>5, <2>7, OwnedTaken
    <2>8. CASE s # n /\ s # o
      <3>1. Registered(s)' <=> Registered(s)
        BY <2>5, <2>8 DEF Registered
      <3> QED  BY <1>1, <2>1, <2>2, <2>3, <2>4, <2>8, <3>1, OwnedSame
    <2> QED  BY <2>6, <2>7, <2>8
  <1>16. ASSUME NEW u \in Threads PROVE PidIsHeld(u)'
    <2>1. CASE u = t
      BY <1>3, <1>4, <1>5, <2>1 DEF PidIsHeld
    <2>2. CASE u # t
      BY <1>1, <1>4, <1>5, <2>2, OthersHold
    <2> QED  BY <2>1, <2>2
  <1>17. WhileServing'
    <2> SUFFICES ASSUME stage = "serving" PROVE WhileServing'
      BY <1>1 DEF WhileServing
    <2>1. WhileServing
      BY DEF IInv, Ownership
    <2>2. ASSUME NEW s \in Scoped PROVE TokenIsSound(s)'
      <3>1. \A u \in Threads : Untokens(u, s)' <=> Untokens(u, s)
        BY <1>1, <1>2, <1>3, <1>4, <1>10, OthersRoles DEF Untokens
      <3> QED  BY <1>1, <2>1, <3>1, TokenFrame DEF WhileServing
    <2>3. ASSUME NEW q \in Pids PROVE OrderIsSound(q)'
      <3>1. OrderIsSound(q)
        BY <2>1 DEF WhileServing
      <3>2. /\ Adds(t, q)' <=> o = NoSession /\ q = p
            /\ ~Adds(t, q) /\ ~Removes(t, q) /\ ~Removes(t, q)'
        BY <1>1, <1>3, <1>4 DEF Adds, Removes
      <3>3. \A u \in Threads : u # t => /\ Adds(u, q)' <=> Adds(u, q)
                                        /\ Removes(u, q)' <=> Removes(u, q)
        BY <1>4, OthersRoles
      <3>4. CASE q = p
        <4>1. \A u \in Threads : u # t => ~Adds(u, q) /\ ~Removes(u, q)
          BY <1>1, <3>4 DEF IInv, PidsAreExclusive, Adds, Removes
        <4>2. q \in ToSet(order) <=> o # NoSession
          BY <3>1, <3>2, <3>4, <4>1 DEF OrderIsSound
        <4> QED
          BY <1>1, <1>2, <1>5, <3>2, <3>3, <3>4, <4>1, <4>2 DEF OrderIsSound
      <3>5. CASE q # p
        BY <1>1, <1>5, <3>1, <3>2, <3>3, <3>5, OrderFrame
      <3> QED  BY <3>4, <3>5
    <2>4. \A u \in Threads : call'[u].op # "shutdown"
      BY <1>3, <1>4, <2>1 DEF WhileServing, OthersKept
    <2> QED  BY <1>1, <1>6, <2>1, <2>2, <2>3, <2>4 DEF WhileServing, Distinct
  <1>18. Delivery'
    <2>1. Quiet(t)
      BY <1>1, <1>3, <1>4, <1>6 DEF Quiet
    <2>2. \A v \in Threads : call[v].since \cap Recordings' \subseteq Recordings
      <3>1. ASSUME NEW s \in Scoped, Registered(s)'
            PROVE  Registered(s) \/ s = n
        <4>1. session[s].pid \in Pids
          BY DEF IInv, Ownership, PidsAreSound
        <4> QED  BY <1>1, <1>5, <3>1, <4>1 DEF Registered
      <3>2. \A u \in Threads : call[u].op = "attach" =>
              call'[u].op = "attach" /\ call'[u].target = call[u].target
        BY <1>3, <1>4 DEF OthersKept
      <3> QED  BY <1>1, <1>3, <1>4, <1>6, <3>1, <3>2, RecordingsBegin
    <2> QED  BY <1>1, <1>2, <1>3, <1>4, <2>1, <2>2, QuietStep
  <1> QED
    BY <1>6, <1>7, <1>12, <1>13, <1>14, <1>15, <1>16, <1>17, <1>18
       DEF IInv, Ownership

\* A step that leaves the sessions alone has the right types.
LEMMA TypedMove ==
    ASSUME TypeOK, NEW t \in Threads, NEW c \in Calls,
           call' = [call EXCEPT ![t] = c], session' = session,
           byPid' \in [Pids -> Numbers], byToken' \in [Tokens -> Numbers],
           order' \in Seq(Pids), stage' \in {"serving", "stopping", "stopped"},
           UNCHANGED <<pidLock, orderLock, bus, emits>>
    PROVE  /\ TypeOK' /\ call'[t] = c /\ OthersKept(t)
           /\ SessionsKept /\ OpenKept /\ Sessions' = Sessions /\ Scoped' = Scoped
  <1>1. call'[t] = c /\ OthersKept(t)
    BY CallChanges
  <1>2. SessionsKept /\ OpenKept /\ Sessions' = Sessions /\ Scoped' = Scoped
    BY SessionsKeptWhenSame DEF Scoped
  <1>3. Calls' = Calls /\ call'[t] \in Calls
    BY <1>1, <1>2 DEF Calls, Numbers
  <1>4. call' \in [Threads -> Calls']
    BY <1>1, <1>2, <1>3, CallsTyped, Zenon
  <1>5. TypeOK'
    BY <1>2, <1>4 DEF TypeOK, Numbers
  <1> QED  BY <1>1, <1>2, <1>5

\* attach_order with p the newest.
LEMMA AsNewestProperties ==
    ASSUME TypeOK, NEW p \in Pids
    PROVE  /\ AsNewest(p) \in Seq(Pids)
           /\ ToSet(AsNewest(p)) = ToSet(order) \cup {p}
           /\ Distinct(order) => Distinct(AsNewest(p))
  <1> DEFINE w == Without(p)
  <1>1. /\ w \in Seq(Pids) /\ ToSet(w) = ToSet(order) \ {p}
        /\ Distinct(order) => Distinct(w)
    BY WithoutProperties DEF TypeOK
  <1>2. AsNewest(p) = Append(w, p)
    BY DEF AsNewest
  <1> HIDE DEF w
  <1>3. /\ Append(w, p) \in Seq(Pids)
        /\ DOMAIN Append(w, p) = DOMAIN w \cup {Len(w) + 1}
        /\ \A i \in DOMAIN w : Append(w, p)[i] = w[i]
        /\ Append(w, p)[Len(w) + 1] = p
    BY <1>1
  <1>4. ToSet(Append(w, p)) = ToSet(w) \cup {p}
    BY <1>1, ToSetAppend
  <1>5. \A i \in DOMAIN w : w[i] # p
    BY <1>1 DEF ToSet
  <1>6. Distinct(w) => Distinct(Append(w, p))
    <2> DEFINE a == Append(w, p)
               n == Len(w) + 1
    <2>1. /\ DOMAIN a = DOMAIN w \cup {n}
          /\ \A i \in DOMAIN w : a[i] = w[i] /\ w[i] # p
          /\ a[n] = p
      BY <1>3, <1>5
    <2> HIDE DEF a, n
    <2>2. Distinct(w) => Distinct(a)
      BY <2>1 DEF Distinct
    <2> QED  BY <2>2 DEF a
  <1> QED  BY <1>1, <1>2, <1>3, <1>4, <1>6

\* attach_order without p.
LEMMA WithoutIsSound ==
    ASSUME TypeOK, NEW p \in Pids
    PROVE  /\ Without(p) \in Seq(Pids)
           /\ ToSet(Without(p)) = ToSet(order) \ {p}
           /\ Distinct(order) => Distinct(Without(p))
  BY WithoutProperties DEF TypeOK

\* attach_scoped, attach_order.
LEMMA InsertOrderKeeps ==
    ASSUME IInv, NEW t \in Threads, InsertOrder(t)
    PROVE  IInv'
  <1> DEFINE p == call[t].req.pid
             n == call[t].target
  <1>1. /\ call[t].op = "attach" /\ call[t].at = "order" /\ TypeOK
        /\ UNCHANGED <<session, byPid, byToken, pidLock, orderLock, bus, stage, emits>>
        /\ order' = AsNewest(p) /\ Goto(t, "register")
    BY DEF InsertOrder, At, locks, IInv
  <1>2. /\ Registering(t) /\ AttachIsSound(t) /\ FieldsAreSound(t)
        /\ n \in Scoped /\ n # NoSession /\ p \in Pids
    BY <1>1, Numbering DEF IInv, CallIsSound, AttachIsSound, Registering
  <1>3. PICK c : Moves(t, c, "register", n)
    BY <1>1, GotoMoves DEF Places
  <1>4. /\ order' \in Seq(Pids) /\ ToSet(order)' = ToSet(order) \cup {p}
        /\ Distinct(order) => Distinct(order)'
    <2>1. order' = AsNewest(p)
      BY <1>1
    <2> DEFINE a == AsNewest(p)
    <2>2. /\ a \in Seq(Pids) /\ ToSet(a) = ToSet(order) \cup {p}
          /\ Distinct(order) => Distinct(a)
      BY <1>1, <1>2, AsNewestProperties
    <2> HIDE DEF a
    <2>3. ToSet(order)' = ToSet(a)
      BY <2>1 DEF ToSet, a
    <2>4. Distinct(order)' <=> Distinct(a)
      BY <2>1 DEF Distinct, a
    <2> QED  BY <2>1, <2>2, <2>3, <2>4 DEF a
  <1>5. /\ TypeOK' /\ call'[t] = c /\ OthersKept(t)
        /\ SessionsKept /\ OpenKept /\ Sessions' = Sessions /\ Scoped' = Scoped
    BY <1>1, <1>3, <1>4, TypedMove DEF Moves, TypeOK
  <1>6. /\ call'[t].op = "attach" /\ call'[t].at = "register"
        /\ call'[t].req = call[t].req /\ call'[t].target = n
        /\ call'[t].prev = call[t].prev /\ call'[t].rest = call[t].rest
        /\ call'[t].since = call[t].since
    BY <1>1, <1>3, <1>5 DEF Moves
  <1>7. ~Opening(t)' /\ Registering(t)' /\ ~Closing(t)' /\ ~Finalizing(t)'
        /\ ~Finalizing(t) /\ ~Opening(t) /\ ~Closing(t)
    BY <1>1, <1>6 DEF Opening, Registering, Closing, Finalizing
  <1>8. CallIsSound(t)'
    <2>1. AttachIsSound(t)'
      BY <1>1, <1>2, <1>5, <1>6, <1>7 DEF AttachIsSound
    <2>2. FieldsAreSound(t)'
      BY <1>1, <1>2, <1>6 DEF FieldsAreSound
    <2> QED
      BY <1>6, <2>1, <2>2 DEF CallIsSound, EmitIsSound, DetachIsSound,
         ShutdownIsSound
  <1>9. \A u \in Threads : CallIsSound(u)'
    BY <1>5, <1>8, CallsAreSound
  <1>10. PidsAreExclusive'
    BY <1>1, <1>5, <1>6, ExclusiveFrame DEF IInv, OthersKept
  <1>11. PidsAreSound' /\ TokensAreSound'
    BY <1>1, <1>5 DEF IInv, Ownership, PidsAreSound, TokensAreSound
  <1>12. \A s : /\ Holds(t, s)' <=> Holds(t, s)
                /\ Untokens(t, s)' <=> Untokens(t, s)
    BY <1>1, <1>6, <1>7, <1>2 DEF Holds, Untokens
  <1>13. ASSUME NEW s \in Scoped PROVE Owned(s)'
    <2>1. \A u \in Threads : Holds(u, s)' <=> Holds(u, s)
      BY <1>5, <1>12, OthersRoles
    <2> QED  BY <1>1, <2>1, OwnedSame DEF IInv, Ownership, Registered
  <1>14. ASSUME NEW u \in Threads PROVE PidIsHeld(u)'
    <2>1. CASE u = t
      BY <1>1, <1>2, <1>6, <2>1 DEF PidIsHeld, IInv, Ownership
    <2>2. CASE u # t
      BY <1>1, <1>5, <2>2, OthersHold
    <2> QED  BY <2>1, <2>2
  <1>15. WhileServing'
    <2> SUFFICES ASSUME stage = "serving" PROVE WhileServing'
      BY <1>1 DEF WhileServing
    <2>1. WhileServing
      BY DEF IInv, Ownership
    <2>2. ASSUME NEW s \in Scoped PROVE TokenIsSound(s)'
      <3>1. \A u \in Threads : Untokens(u, s)' <=> Untokens(u, s)
        BY <1>5, <1>12, OthersRoles
      <3> QED  BY <1>1, <2>1, <3>1, TokenFrame DEF WhileServing
    <2>3. ASSUME NEW q \in Pids PROVE OrderIsSound(q)'
      <3>1. ~Adds(t, q)' /\ ~Removes(t, q) /\ ~Removes(t, q)' /\ (Adds(t, q) => q = p)
        BY <1>1, <1>6 DEF Adds, Removes
      <3>2. \A u \in Threads : u # t => /\ Adds(u, q)' <=> Adds(u, q)
                                        /\ Removes(u, q)' <=> Removes(u, q)
        BY <1>5, OthersRoles
      <3>3. CASE q = p
        <4>1. \A u \in Threads : u # t => ~Adds(u, q)
          BY <1>1, <3>3 DEF IInv, PidsAreExclusive, Adds
        <4>2. byPid[p] = n
          BY <1>2 DEF IInv, Ownership, PidIsHeld
        <4> QED
          BY <1>1, <1>2, <1>4, <3>1, <3>2, <3>3, <4>1, <4>2 DEF OrderIsSound
      <3>4. CASE q # p
        <4>1. \A u \in Threads : /\ Adds(u, q)' <=> Adds(u, q)
                                 /\ Removes(u, q)' <=> Removes(u, q)
          BY <3>1, <3>2, <3>4
        <4>2. q \in ToSet(order)' <=> q \in ToSet(order)
          BY <1>4, <3>4
        <4> QED  BY <1>1, <2>1, <4>1, <4>2, OrderFrame DEF WhileServing
      <3> QED  BY <3>3, <3>4
    <2>4. \A u \in Threads : call'[u].op # "shutdown"
      BY <1>5, <1>6, <2>1 DEF WhileServing, OthersKept
    <2> QED  BY <1>1, <1>4, <1>5, <2>1, <2>2, <2>3, <2>4 DEF WhileServing
  <1>16. Delivery'
    <2>1. Quiet(t)
      BY <1>1, <1>5, <1>6 DEF Quiet
    <2>2. \A v \in Threads : call[v].since \cap Recordings' \subseteq Recordings
      <3>1. \A s \in Scoped : Registered(s)' => Registered(s)
        BY <1>1 DEF Registered
      <3>2. \A u \in Threads : call[u].op = "attach" =>
              call'[u].op = "attach" /\ call'[u].target = call[u].target
        BY <1>5, <1>6 DEF OthersKept
      <3> QED  BY <1>1, <1>5, <3>1, <3>2, RecordingsBegin
    <2> QED  BY <1>1, <1>2, <1>6, <2>1, <2>2, QuietStep
  <1> QED
    BY <1>5, <1>9, <1>10, <1>11, <1>13, <1>14, <1>15, <1>16 DEF IInv, Ownership

\* detach_scoped, attach_order.
LEMMA RemoveOrderKeeps ==
    ASSUME IInv, NEW t \in Threads, RemoveOrder(t)
    PROVE  IInv'
  <1> DEFINE p == call[t].req.pid
             n == call[t].target
  <1>1. /\ call[t].op = "detach" /\ call[t].at = "unorder" /\ TypeOK
        /\ UNCHANGED <<session, byPid, byToken, pidLock, orderLock, bus, stage, emits>>
        /\ order' = Without(p) /\ Goto(t, "unregister")
    BY DEF RemoveOrder, At, locks, IInv
  <1>2. /\ DetachIsSound(t) /\ FieldsAreSound(t)
        /\ n \in Scoped /\ n # NoSession /\ p \in Pids
    BY <1>1, Numbering DEF IInv, CallIsSound, DetachIsSound
  <1>3. PICK c : Moves(t, c, "unregister", n)
    BY <1>1, GotoMoves DEF Places
  <1>4. /\ order' \in Seq(Pids) /\ ToSet(order)' = ToSet(order) \ {p}
        /\ Distinct(order) => Distinct(order)'
    <2> DEFINE a == Without(p)
    <2>1. order' = a
      BY <1>1
    <2>2. /\ a \in Seq(Pids) /\ ToSet(a) = ToSet(order) \ {p}
          /\ Distinct(order) => Distinct(a)
      BY <1>1, <1>2, WithoutIsSound
    <2> HIDE DEF a
    <2>3. ToSet(order)' = ToSet(a)
      BY <2>1 DEF ToSet, a
    <2>4. Distinct(order)' <=> Distinct(a)
      BY <2>1 DEF Distinct, a
    <2> QED  BY <2>1, <2>2, <2>3, <2>4 DEF a
  <1>5. /\ TypeOK' /\ call'[t] = c /\ OthersKept(t)
        /\ SessionsKept /\ OpenKept /\ Sessions' = Sessions /\ Scoped' = Scoped
    BY <1>1, <1>3, <1>4, TypedMove DEF Moves, TypeOK
  <1>6. /\ call'[t].op = "detach" /\ call'[t].at = "unregister"
        /\ call'[t].req = call[t].req /\ call'[t].target = n
        /\ call'[t].prev = call[t].prev /\ call'[t].rest = call[t].rest
        /\ call'[t].since = call[t].since
    BY <1>1, <1>3, <1>5 DEF Moves
  <1>7. Closing(t)' /\ ~Finalizing(t)' /\ ~Opening(t)' /\ ~Registering(t)'
        /\ ~Finalizing(t) /\ ~Opening(t) /\ ~Registering(t)
    BY <1>1, <1>6 DEF Opening, Registering, Closing, Finalizing
  <1>8. CallIsSound(t)'
    <2>1. DetachIsSound(t)'
      BY <1>1, <1>2, <1>5, <1>6, <1>7 DEF DetachIsSound
    <2>2. FieldsAreSound(t)'
      BY <1>1, <1>2, <1>6 DEF FieldsAreSound
    <2> QED
      BY <1>6, <2>1, <2>2 DEF CallIsSound, EmitIsSound, AttachIsSound,
         ShutdownIsSound
  <1>9. \A u \in Threads : CallIsSound(u)'
    BY <1>5, <1>8, CallsAreSound
  <1>10. PidsAreExclusive'
    BY <1>1, <1>5, <1>6, ExclusiveFrame DEF IInv, OthersKept
  <1>11. PidsAreSound' /\ TokensAreSound'
    BY <1>1, <1>5 DEF IInv, Ownership, PidsAreSound, TokensAreSound
  <1>12. \A s : /\ Holds(t, s)' <=> Holds(t, s)
                /\ Untokens(t, s)' <=> Untokens(t, s)
    BY <1>1, <1>6, <1>7 DEF Holds, Untokens
  <1>13. ASSUME NEW s \in Scoped PROVE Owned(s)'
    <2>1. \A u \in Threads : Holds(u, s)' <=> Holds(u, s)
      BY <1>5, <1>12, OthersRoles
    <2> QED  BY <1>1, <2>1, OwnedSame DEF IInv, Ownership, Registered
  <1>14. ASSUME NEW u \in Threads PROVE PidIsHeld(u)'
    <2>1. CASE u = t
      BY <1>1, <1>6, <1>7, <2>1 DEF PidIsHeld, IInv, Ownership
    <2>2. CASE u # t
      BY <1>1, <1>5, <2>2, OthersHold
    <2> QED  BY <2>1, <2>2
  <1>15. WhileServing'
    <2> SUFFICES ASSUME stage = "serving" PROVE WhileServing'
      BY <1>1 DEF WhileServing
    <2>1. WhileServing
      BY DEF IInv, Ownership
    <2>2. ASSUME NEW s \in Scoped PROVE TokenIsSound(s)'
      <3>1. \A u \in Threads : Untokens(u, s)' <=> Untokens(u, s)
        BY <1>5, <1>12, OthersRoles
      <3> QED  BY <1>1, <2>1, <3>1, TokenFrame DEF WhileServing
    <2>3. ASSUME NEW q \in Pids PROVE OrderIsSound(q)'
      <3>1. ~Adds(t, q)' /\ ~Adds(t, q) /\ ~Removes(t, q)' /\ (Removes(t, q) => q = p)
        BY <1>1, <1>6 DEF Adds, Removes
      <3>2. \A u \in Threads : u # t => /\ Adds(u, q)' <=> Adds(u, q)
                                        /\ Removes(u, q)' <=> Removes(u, q)
        BY <1>5, OthersRoles
      <3>3. CASE q = p
        <4>1. \A u \in Threads : u # t => ~Removes(u, q)
          BY <1>1, <3>3 DEF IInv, PidsAreExclusive, Removes
        <4>2. byPid[p] = NoSession
          BY <1>1 DEF IInv, Ownership, PidIsHeld
        <4> QED
          BY <1>1, <1>4, <3>1, <3>2, <3>3, <4>1, <4>2 DEF OrderIsSound
      <3>4. CASE q # p
        <4>1. \A u \in Threads : /\ Adds(u, q)' <=> Adds(u, q)
                                 /\ Removes(u, q)' <=> Removes(u, q)
          BY <3>1, <3>2, <3>4
        <4>2. q \in ToSet(order)' <=> q \in ToSet(order)
          BY <1>4, <3>4
        <4> QED  BY <1>1, <2>1, <4>1, <4>2, OrderFrame DEF WhileServing
      <3> QED  BY <3>3, <3>4
    <2>4. \A u \in Threads : call'[u].op # "shutdown"
      BY <1>5, <1>6, <2>1 DEF WhileServing, OthersKept
    <2> QED  BY <1>1, <1>4, <1>5, <2>1, <2>2, <2>3, <2>4 DEF WhileServing
  <1>16. Delivery'
    <2>1. Quiet(t)
      BY <1>1, <1>5, <1>6 DEF Quiet
    <2>2. \A v \in Threads : call[v].since \cap Recordings' \subseteq Recordings
      <3>1. \A s \in Scoped : Registered(s)' => Registered(s)
        BY <1>1 DEF Registered
      <3>2. \A u \in Threads : call[u].op = "attach" =>
              call'[u].op = "attach" /\ call'[u].target = call[u].target
        BY <1>1, <1>5, <1>6 DEF OthersKept
      <3> QED  BY <1>1, <1>5, <3>1, <3>2, RecordingsBegin
    <2> QED  BY <1>1, <1>6, <1>7, <2>1, <2>2, QuietStep
  <1> QED
    BY <1>5, <1>9, <1>10, <1>11, <1>13, <1>14, <1>15, <1>16 DEF IInv, Ownership

\* attach_scoped, by_token: from here on the session is a recording.
LEMMA InsertTokenKeeps ==
    ASSUME IInv, NEW t \in Threads, InsertToken(t)
    PROVE  IInv'
  <1> DEFINE p == call[t].req.pid
             k == call[t].req.token
             n == call[t].target
             o == call[t].prev
  <1>1. /\ call[t].op = "attach" /\ call[t].at = "register" /\ TypeOK
        /\ UNCHANGED <<session, byPid, order, pidLock, orderLock, bus, stage, emits>>
        /\ byToken' = IF k = NoToken THEN byToken ELSE [byToken EXCEPT ![k] = n]
    BY DEF InsertToken, At, locks, IInv
  <1>2. /\ Registering(t) /\ AttachIsSound(t) /\ FieldsAreSound(t)
        /\ n \in Scoped /\ n # NoSession /\ p \in Pids /\ session[n].pid = p
        /\ k \in Tokens \cup {NoToken} /\ session[n].token = k
        /\ o # NoSession => o \in Scoped /\ session[o].pid = p
        /\ o # n /\ call[t].rest = {} /\ n \in Sessions /\ n \in Numbers
        /\ ~Finalizing(t) /\ ~Opening(t)
    <2>1. /\ Registering(t) /\ AttachIsSound(t) /\ FieldsAreSound(t)
          /\ ~Finalizing(t) /\ ~Opening(t) /\ call[t] \in Calls
      BY <1>1 DEF IInv, CallIsSound, Registering, Finalizing, Opening, TypeOK
    <2> QED
      BY <1>1, <2>1, Numbering DEF AttachIsSound, FieldsAreSound, Calls, Args,
         Numbers, Scoped
  <1>3. /\ byToken' \in [Tokens -> Numbers] /\ (k # NoToken => byToken'[k] = n)
        /\ \A j \in Tokens \ {k} : byToken'[j] = byToken[j]
    BY <1>1, <1>2 DEF TypeOK, Numbers
  <1>4. \E c \in Calls : /\ call' = [call EXCEPT ![t] = c]
                         /\ IF o = NoSession
                            THEN c = Idle
                            ELSE /\ c.op = "attach" /\ c.at = "unregister"
                                 /\ c.req = call[t].req /\ c.target = o
                                 /\ c.prev = o /\ c.rest = {}
                                 /\ c.since = call[t].since
    <2>1. CASE o = NoSession
      BY <1>1, <2>1, ReturnEnds DEF InsertToken
    <2>2. CASE o # NoSession
      <3>1. GotoWith(t, "unregister", o) /\ o \in Numbers
        BY <1>2, <2>2 DEF InsertToken, Numbers, Scoped
      <3>2. PICK c : Moves(t, c, "unregister", o)
        BY <1>1, <3>1, GotoWithMoves DEF Places
      <3> QED  BY <1>1, <1>2, <2>2, <3>2 DEF Moves
    <2> QED  BY <2>1, <2>2
  <1>5. PICK c \in Calls : /\ call' = [call EXCEPT ![t] = c]
                           /\ IF o = NoSession
                              THEN c = Idle
                              ELSE /\ c.op = "attach" /\ c.at = "unregister"
                                   /\ c.req = call[t].req /\ c.target = o
                                   /\ c.prev = o /\ c.rest = {}
                                   /\ c.since = call[t].since
    BY <1>4
  <1>6. /\ TypeOK' /\ call'[t] = c /\ OthersKept(t)
        /\ SessionsKept /\ OpenKept /\ Sessions' = Sessions /\ Scoped' = Scoped
    BY <1>1, <1>3, <1>5, TypedMove DEF TypeOK
  <1>7. /\ o = NoSession => call'[t].op = "none" /\ call'[t].at = "idle"
                            /\ call'[t].prev = NoSession /\ call'[t].since = {}
        /\ o # NoSession => /\ call'[t].op = "attach" /\ call'[t].at = "unregister"
                            /\ call'[t].req = call[t].req /\ call'[t].target = o
                            /\ call'[t].prev = o /\ call'[t].since = call[t].since
        /\ call'[t].rest = {}
    BY <1>5, <1>6 DEF Idle
  <1>8. ~Opening(t)' /\ ~Registering(t)' /\ ~Finalizing(t)'
        /\ (o # NoSession => Closing(t)')
    BY <1>7 DEF Opening, Registering, Closing, Finalizing
  <1>9. CallIsSound(t)'
    <2>1. AttachIsSound(t)'
      BY <1>1, <1>2, <1>6, <1>7, <1>8 DEF AttachIsSound
    <2>2. FieldsAreSound(t)'
      BY <1>1, <1>2, <1>7 DEF FieldsAreSound
    <2> QED
      BY <1>7, <2>1, <2>2 DEF CallIsSound, EmitIsSound, DetachIsSound,
         ShutdownIsSound
  <1>10. \A u \in Threads : CallIsSound(u)'
    BY <1>6, <1>9, CallsAreSound
  <1>11. PidsAreExclusive'
    BY <1>1, <1>6, <1>7, ExclusiveFrame DEF IInv, OthersKept
  <1>12. PidsAreSound' /\ TokensAreSound'
    <2>1. PidsAreSound /\ TokensAreSound
      BY DEF IInv, Ownership
    <2>2. PidsAreSound'
      BY <1>1, <1>6, <2>1 DEF PidsAreSound
    <2>3. TokensAreSound'
      BY <1>1, <1>2, <1>3, <1>6, <2>1 DEF TokensAreSound
    <2> QED  BY <2>2, <2>3
  <1>13. \A s \in Scoped : Holds(t, s)' <=> Holds(t, s)
    <2>1. \A s \in Scoped : s # NoSession
      BY <1>1, Numbering
    <2> QED  BY <1>1, <1>2, <1>7, <2>1 DEF Holds
  <1>14. ASSUME NEW s \in Scoped PROVE Owned(s)'
    <2>1. \A u \in Threads : Holds(u, s)' <=> Holds(u, s)
      BY <1>6, <1>13, OthersRoles
    <2> QED  BY <1>1, <2>1, OwnedSame DEF IInv, Ownership, Registered
  <1>15. ASSUME NEW u \in Threads PROVE PidIsHeld(u)'
    <2>1. CASE u = t
      BY <1>7, <1>8, <2>1 DEF PidIsHeld
    <2>2. CASE u # t
      BY <1>1, <1>6, <2>2, OthersHold
    <2> QED  BY <2>1, <2>2
  <1>16. WhileServing'
    <2> SUFFICES ASSUME stage = "serving" PROVE WhileServing'
      BY <1>1 DEF WhileServing
    <2>1. WhileServing /\ TokensAreSound
      BY DEF IInv, Ownership
    <2>2. ASSUME NEW s \in Scoped PROVE TokenIsSound(s)'
      <3>1. TokenIsSound(s)
        BY <2>1 DEF WhileServing
      <3>2. ~Untokens(t, s)' /\ (Untokens(t, s) => s = n)
        BY <1>8 DEF Untokens
      <3>3. CASE s = n
        <4>1. session[n].open
          <5>1. byPid[p] = n
            BY <1>2 DEF IInv, Ownership, PidIsHeld
          <5> QED  BY <1>2, <5>1 DEF IInv, Ownership, Owned, Registered
        <4>2. ASSUME NEW u \in Threads, u # t PROVE ~Untokens(u, s)'
          <5>1. call[u].op \in {"attach", "detach"} => call[u].req.pid # p
            BY <1>1, <4>2 DEF IInv, PidsAreExclusive
          <5>2. ~Untokens(u, s)
            BY <1>2, <3>3, <5>1 DEF Untokens, IInv, CallIsSound, AttachIsSound, DetachIsSound
          <5> QED  BY <1>6, <4>2, <5>2, OthersRoles
        <4> QED  BY <1>1, <1>2, <1>3, <3>2, <3>3, <4>1, <4>2 DEF TokenIsSound
      <3>4. CASE s # n
        <4>1. \A u \in Threads : Untokens(u, s)' <=> Untokens(u, s)
          BY <1>6, <3>2, <3>4, OthersRoles
        <4>2. session[s].token # NoToken => /\ session[s].token # k
                                            /\ session[s].token \in Tokens
          <5>1. s \in Sessions /\ session[s] \in SessionRecords
            BY <1>1, Numbering
          <5> QED
            BY <1>2, <2>1, <3>4, <5>1 DEF TokensAreSound, SessionRecords
        <4> QED  BY <1>1, <1>3, <3>1, <4>1, <4>2, TokenFrame
      <3> QED  BY <3>3, <3>4
    <2>3. ASSUME NEW q \in Pids PROVE OrderIsSound(q)'
      <3>1. ~Adds(t, q)' /\ ~Adds(t, q) /\ ~Removes(t, q)' /\ ~Removes(t, q)
        BY <1>1, <1>7 DEF Adds, Removes
      <3>2. \A u \in Threads : /\ Adds(u, q)' <=> Adds(u, q)
                               /\ Removes(u, q)' <=> Removes(u, q)
        BY <1>6, <3>1, OthersRoles
      <3>3. q \in ToSet(order)' <=> q \in ToSet(order)
        BY <1>1 DEF ToSet
      <3> QED  BY <1>1, <2>1, <3>2, <3>3, OrderFrame DEF WhileServing
    <2>4. \A u \in Threads : call'[u].op # "shutdown"
      BY <1>6, <1>7, <2>1 DEF WhileServing, OthersKept
    <2> QED  BY <1>1, <1>6, <2>1, <2>2, <2>3, <2>4 DEF WhileServing, Distinct
  <1>17. Delivery'
    <2>1. Quiet(t)
      BY <1>1, <1>6, <1>7 DEF Quiet
    <2>2. \A v \in Threads : call[v].since \cap Recordings' \subseteq Recordings
      <3>1. \A s \in Scoped : Registered(s)' => Registered(s)
        BY <1>1 DEF Registered
      <3>2. \A v \in Threads : n \notin call[v].since
        BY <1>2 DEF IInv, Delivery, SinceIsSound
      <3>3. \A u \in Threads : call[u].op = "attach" =>
              \/ call'[u].op = "attach" /\ call'[u].target = call[u].target
              \/ \A v \in Threads : call[u].target \notin call[v].since
        BY <1>6, <3>2 DEF OthersKept
      <3> QED  BY <1>1, <1>6, <3>1, <3>3, RecordingsBegin
    <2> QED  BY <1>1, <1>8, <2>1, <2>2, QuietStep
  <1> QED
    BY <1>6, <1>10, <1>11, <1>12, <1>14, <1>15, <1>16, <1>17 DEF IInv, Ownership

\* The token of the session to finalize is no longer registered.
LEMMA UnregisterStep ==
    ASSUME IInv, NEW t \in Threads, call[t].at = "unregister",
           call[t].op \in {"attach", "detach"},
           byToken' \in [Tokens -> Numbers],
           \A j \in Tokens :
             IF j = session[call[t].target].token
             THEN byToken'[j] # call[t].target /\ byToken'[j] \in {byToken[j], NoSession}
             ELSE byToken'[j] = byToken[j],
           Goto(t, "end"),
           UNCHANGED <<session, byPid, order, pidLock, orderLock, bus, stage, emits>>
    PROVE  IInv'
  <1> DEFINE n == call[t].target
  <1>0. TypeOK
    BY DEF IInv
  <1>1. /\ Closing(t) /\ AttachIsSound(t) /\ DetachIsSound(t) /\ FieldsAreSound(t)
        /\ n \in Scoped /\ n # NoSession /\ call[t].rest = {}
        /\ n \in Sessions
    <2>1. /\ AttachIsSound(t) /\ DetachIsSound(t) /\ FieldsAreSound(t)
          /\ Closing(t)
      BY DEF IInv, CallIsSound, Closing
    <2> QED
      BY <1>0, <2>1, Numbering DEF AttachIsSound, DetachIsSound, FieldsAreSound
  <1>2. PICK c : Moves(t, c, "end", n)
    BY <1>0, GotoMoves DEF Places
  <1>3. /\ TypeOK' /\ call'[t] = c /\ OthersKept(t)
        /\ SessionsKept /\ OpenKept /\ Sessions' = Sessions /\ Scoped' = Scoped
    BY <1>0, <1>2, TypedMove DEF Moves, TypeOK
  <1>4. /\ call'[t].op = call[t].op /\ call'[t].at = "end"
        /\ call'[t].req = call[t].req /\ call'[t].target = n
        /\ call'[t].prev = call[t].prev /\ call'[t].rest = call[t].rest
        /\ call'[t].since = call[t].since
    BY <1>2, <1>3 DEF Moves
  <1>5. Closing(t)' /\ Finalizing(t)' /\ ~Opening(t)' /\ ~Registering(t)'
        /\ ~Finalizing(t) /\ ~Opening(t) /\ ~Registering(t)
    BY <1>4 DEF Opening, Registering, Closing, Finalizing
  <1>6. CallIsSound(t)'
    <2>1. AttachIsSound(t)'
      BY <1>1, <1>3, <1>4, <1>5 DEF AttachIsSound
    <2>2. DetachIsSound(t)'
      BY <1>1, <1>3, <1>4, <1>5 DEF DetachIsSound
    <2>3. FieldsAreSound(t)'
      BY <1>1, <1>4 DEF FieldsAreSound
    <2> QED
      BY <1>4, <2>1, <2>2, <2>3 DEF CallIsSound, EmitIsSound, ShutdownIsSound
  <1>7. \A u \in Threads : CallIsSound(u)'
    BY <1>3, <1>6, CallsAreSound
  <1>8. PidsAreExclusive'
    BY <1>3, <1>4, ExclusiveFrame DEF IInv, OthersKept
  <1>9. PidsAreSound' /\ TokensAreSound'
    <2>1. PidsAreSound /\ TokensAreSound
      BY DEF IInv, Ownership
    <2>2. PidsAreSound'
      BY <1>3, <2>1 DEF PidsAreSound
    <2>3. \A j \in Tokens : byToken'[j] \in {byToken[j], NoSession}
      OBVIOUS
    <2>4. TokensAreSound'
      BY <1>3, <2>1, <2>3 DEF TokensAreSound
    <2> QED  BY <2>2, <2>4
  <1>10. \A s : Holds(t, s)' <=> Holds(t, s)
    BY <1>1, <1>4, <1>5 DEF Holds, AttachIsSound
  <1>11. ASSUME NEW s \in Scoped PROVE Owned(s)'
    <2>1. \A u \in Threads : Holds(u, s)' <=> Holds(u, s)
      BY <1>3, <1>10, OthersRoles
    <2> QED  BY <2>1, OwnedSame DEF IInv, Ownership, Registered
  <1>12. ASSUME NEW u \in Threads PROVE PidIsHeld(u)'
    <2>1. CASE u = t
      BY <1>4, <1>5, <2>1 DEF PidIsHeld, IInv, Ownership
    <2>2. CASE u # t
      BY <1>3, <2>2, OthersHold
    <2> QED  BY <2>1, <2>2
  <1>13. WhileServing'
    <2> SUFFICES ASSUME stage = "serving" PROVE WhileServing'
      BY DEF WhileServing
    <2>1. WhileServing /\ TokensAreSound
      BY DEF IInv, Ownership
    <2>2. ASSUME NEW s \in Scoped PROVE TokenIsSound(s)'
      <3>1. TokenIsSound(s)
        BY <2>1 DEF WhileServing
      <3>2. Untokens(t, s)' <=> s = n
        BY <1>4, <1>5 DEF Untokens
      <3>3. s \in Sessions /\ session[s] \in SessionRecords
        BY <1>0, Numbering
      <3>4. session[s].token # NoToken => session[s].token \in Tokens
        BY <3>3 DEF SessionRecords
      <3>5. CASE s = n
        <4>1. session[s].token # NoToken => byToken'[session[s].token] # s
          BY <3>4, <3>5
        <4> QED  BY <3>2, <3>5, <4>1 DEF TokenIsSound
      <3>6. CASE s # n
        <4>1. ~Untokens(t, s)
          BY <3>6 DEF Untokens
        <4>2. \A u \in Threads : Untokens(u, s)' <=> Untokens(u, s)
          BY <1>3, <3>2, <3>6, <4>1, OthersRoles
        <4>3. session[s].token # NoToken =>
                session[s].token # session[n].token /\ session[s].token \in Tokens
          BY <1>1, <2>1, <3>3, <3>4, <3>6 DEF TokensAreSound
        <4> QED  BY <3>1, <4>2, <4>3, TokenFrame
      <3> QED  BY <3>5, <3>6
    <2>3. ASSUME NEW q \in Pids PROVE OrderIsSound(q)'
      <3>1. ~Adds(t, q)' /\ ~Adds(t, q) /\ ~Removes(t, q)' /\ ~Removes(t, q)
        BY <1>4 DEF Adds, Removes
      <3>2. \A u \in Threads : /\ Adds(u, q)' <=> Adds(u, q)
                               /\ Removes(u, q)' <=> Removes(u, q)
        BY <1>3, <3>1, OthersRoles
      <3>3. q \in ToSet(order)' <=> q \in ToSet(order)
        BY DEF ToSet
      <3> QED  BY <2>1, <3>2, <3>3, OrderFrame DEF WhileServing
    <2>4. \A u \in Threads : call'[u].op # "shutdown"
      BY <1>3, <1>4, <2>1 DEF WhileServing, OthersKept
    <2> QED  BY <1>3, <2>1, <2>2, <2>3, <2>4 DEF WhileServing, Distinct
  <1>14. Delivery'
    <2>1. Quiet(t)
      BY <1>3, <1>4 DEF Quiet
    <2>2. \A v \in Threads : call[v].since \cap Recordings' \subseteq Recordings
      <3>1. \A s \in Scoped : Registered(s)' => Registered(s)
        BY DEF Registered
      <3>2. \A u \in Threads : call[u].op = "attach" =>
              call'[u].op = "attach" /\ call'[u].target = call[u].target
        BY <1>3, <1>4 DEF OthersKept
      <3> QED  BY <1>0, <1>3, <3>1, <3>2, RecordingsBegin
    <2> QED  BY <1>5, <2>1, <2>2, QuietStep
  <1> QED
    BY <1>3, <1>7, <1>8, <1>9, <1>11, <1>12, <1>13, <1>14 DEF IInv, Ownership

\* attach_scoped, the token of the superseded session.
LEMMA DropPrevTokenKeeps ==
    ASSUME IInv, NEW t \in Threads, DropPrevToken(t)
    PROVE  IInv'
  <1> DEFINE n == call[t].target
             k == session[n].token
  <1>1. /\ call[t].op = "attach" /\ call[t].at = "unregister" /\ TypeOK
        /\ UNCHANGED <<session, byPid, order, pidLock, orderLock, bus, stage, emits>>
        /\ byToken' = IF k # NoToken /\ byToken[k] = n
                      THEN [byToken EXCEPT ![k] = NoSession] ELSE byToken
        /\ Goto(t, "end")
    BY DEF DropPrevToken, At, locks, IInv
  <1>2. n \in Scoped /\ n # NoSession
    BY <1>1, Numbering DEF IInv, CallIsSound, AttachIsSound
  <1>3. /\ byToken' \in [Tokens -> Numbers]
        /\ \A j \in Tokens :
             IF j = k THEN byToken'[j] # n /\ byToken'[j] \in {byToken[j], NoSession}
                      ELSE byToken'[j] = byToken[j]
    BY <1>1, <1>2, RouterAssumption DEF TypeOK, Numbers
  <1> QED  BY <1>1, <1>3, UnregisterStep

\* detach_scoped, by_token.
LEMMA RemoveTokenKeeps ==
    ASSUME IInv, NEW t \in Threads, RemoveToken(t)
    PROVE  IInv'
  <1> DEFINE n == call[t].target
             k == session[n].token
  <1>1. /\ call[t].op = "detach" /\ call[t].at = "unregister" /\ TypeOK
        /\ UNCHANGED <<session, byPid, order, pidLock, orderLock, bus, stage, emits>>
        /\ byToken' = IF k = NoToken THEN byToken
                      ELSE [byToken EXCEPT ![k] = NoSession]
        /\ Goto(t, "end")
    BY DEF RemoveToken, At, locks, IInv
  <1>2. n \in Scoped /\ n # NoSession
    BY <1>1, Numbering DEF IInv, CallIsSound, DetachIsSound
  <1>3. /\ byToken' \in [Tokens -> Numbers]
        /\ \A j \in Tokens :
             IF j = k THEN byToken'[j] # n /\ byToken'[j] \in {byToken[j], NoSession}
                      ELSE byToken'[j] = byToken[j]
    BY <1>1, <1>2, RouterAssumption DEF TypeOK, Numbers
  <1> QED  BY <1>1, <1>3, UnregisterStep

\* finalize takes the writer: nobody has the session any more.
LEMMA TakeWriterKeeps ==
    ASSUME IInv, NEW t \in Threads, TakeWriter(t)
    PROVE  IInv'
  <1> DEFINE n == call[t].target
             w == [session[n] EXCEPT !.open = FALSE]
  <1>1. /\ call[t].at = "take" /\ TypeOK
        /\ UNCHANGED <<byPid, byToken, order, pidLock, orderLock, bus, stage, emits>>
        /\ session' = [session EXCEPT ![n] = w]
    BY DEF TakeWriter, registry, locks, IInv
  <1>2. /\ call[t].op \in {"attach", "detach", "shutdown"} /\ n \in Sessions
        /\ Finalizing(t) /\ FieldsAreSound(t) /\ AttachIsSound(t) /\ DetachIsSound(t)
        /\ ShutdownIsSound(t) /\ call[t] \in Calls
        /\ ~Opening(t) /\ ~Registering(t)
    <2>1. CallIsSound(t) /\ call[t] \in Calls
      BY <1>1 DEF IInv, TypeOK
    <2>2. call[t].op \in {"attach", "detach", "shutdown"}
      BY <1>1, <2>1 DEF CallIsSound, EmitIsSound, FieldsAreSound, Calls, Ops
    <2> QED
      BY <1>1, <2>1, <2>2 DEF CallIsSound, AttachIsSound, DetachIsSound,
         ShutdownIsSound, Scoped, Finalizing, Calls, Numbers, Opening, Registering
  <1>3. /\ session' \in Seq(SessionRecords) /\ Sessions' = Sessions /\ Scoped' = Scoped
        /\ SessionsKept /\ ~session'[n].open
        /\ \A s \in Sessions : /\ s # n => session'[s] = session[s]
                               /\ session'[s].log = session[s].log
                               /\ session'[s].pid = session[s].pid
                               /\ session'[s].token = session[s].token
    <2>1. session[n] \in SessionRecords
      BY <1>1, <1>2, Numbering
    <2>2. /\ w \in SessionRecords /\ ~w.open /\ w.log = session[n].log
          /\ w.pid = session[n].pid /\ w.token = session[n].token
      BY <2>1 DEF SessionRecords
    <2> HIDE DEF w, SessionRecords
    <2>3. /\ session' \in Seq(SessionRecords) /\ Sessions' = Sessions
          /\ session'[n] = w /\ \A s \in Sessions : s # n => session'[s] = session[s]
      BY <1>1, <1>2, <2>2 DEF Sessions, TypeOK
    <2>4. \A s \in Sessions : /\ session'[s].log = session[s].log
                              /\ session'[s].pid = session[s].pid
                              /\ session'[s].token = session[s].token
      BY <2>2, <2>3
    <2> QED  BY <2>2, <2>3, <2>4 DEF SessionsKept, Scoped
  <1>4. \E c \in Calls : /\ call' = [call EXCEPT ![t] = c]
                         /\ IF call[t].op = "shutdown"
                            THEN /\ c.op = "shutdown" /\ c.at = "next"
                                 /\ c.target = NoSession /\ c.prev = call[t].prev
                                 /\ c.rest = call[t].rest /\ c.since = call[t].since
                            ELSE c = Idle
    <2>1. CASE call[t].op # "shutdown"
      BY <1>1, <2>1, ReturnEnds DEF TakeWriter
    <2>2. CASE call[t].op = "shutdown"
      <3>1. GotoWith(t, "next", NoSession)
        BY <2>2 DEF TakeWriter
      <3>2. PICK c : Moves(t, c, "next", NoSession)
        BY <1>1, <3>1, GotoWithMoves DEF Places, Numbers
      <3> QED  BY <2>2, <3>2 DEF Moves
    <2> QED  BY <2>1, <2>2
  <1>5. PICK c \in Calls : /\ call' = [call EXCEPT ![t] = c]
                           /\ IF call[t].op = "shutdown"
                              THEN /\ c.op = "shutdown" /\ c.at = "next"
                                   /\ c.target = NoSession /\ c.prev = call[t].prev
                                   /\ c.rest = call[t].rest /\ c.since = call[t].since
                              ELSE c = Idle
    BY <1>4
  <1>6. call'[t] = c /\ OthersKept(t)
    BY <1>1, <1>5, CallChanges
  <1>7. TypeOK'
    <2>1. Calls' = Calls /\ call'[t] \in Calls
      BY <1>3, <1>6 DEF Calls, Numbers
    <2>2. call' \in [Threads -> Calls']
      BY <1>1, <1>3, <1>5, <1>6, <2>1, CallsTyped, Zenon
    <2> QED  BY <1>1, <1>3, <2>2 DEF TypeOK, Numbers
  <1>8. /\ call[t].op = "shutdown" =>
             /\ call'[t].op = "shutdown" /\ call'[t].at = "next"
             /\ call'[t].target = NoSession /\ call'[t].rest = call[t].rest
        /\ call[t].op # "shutdown" =>
             call'[t].op = "none" /\ call'[t].at = "idle" /\ call'[t].rest = {}
        /\ call'[t].prev = NoSession /\ call'[t].since = {}
        /\ call'[t].target = NoSession
    BY <1>2, <1>5, <1>6 DEF Idle, FieldsAreSound
  <1>9. ~Opening(t)' /\ ~Registering(t)' /\ ~Finalizing(t)'
    BY <1>8 DEF Opening, Registering, Finalizing
  <1>10. CallIsSound(t)'
    <2>1. NoSession \notin call'[t].rest
      BY <1>2, <1>8 DEF Calls, NoSession, Sessions
    <2>2. ShutdownIsSound(t)'
      BY <1>8 DEF ShutdownIsSound
    <2>3. FieldsAreSound(t)'
      BY <1>8, <2>1 DEF FieldsAreSound
    <2> QED
      BY <1>8, <2>2, <2>3 DEF CallIsSound, EmitIsSound, AttachIsSound, DetachIsSound
  <1>11. \A u \in Threads : CallIsSound(u)'
    BY <1>3, <1>6, <1>10, CallsAreSound
  <1>12. PidsAreExclusive'
    BY <1>6, <1>8, ExclusiveFrame DEF IInv, OthersKept
  <1>13. PidsAreSound' /\ TokensAreSound'
    <2>1. PidsAreSound /\ TokensAreSound /\ \A s \in Scoped : s \in Sessions
      BY <1>1, Numbering DEF IInv, Ownership
    <2>2. PidsAreSound'
      BY <1>1, <1>3, <2>1, Numbering DEF PidsAreSound
    <2>3. TokensAreSound'
      BY <1>1, <1>3, <2>1, Numbering DEF TokensAreSound
    <2> QED  BY <2>2, <2>3
  <1>14. \A s \in Scoped : /\ Holds(t, s) <=> s = n \/ s \in call[t].rest
                           /\ Holds(t, s)' <=> s \in call[t].rest
                           /\ s # NoSession /\ s \in Sessions
    <2>1. \A s \in Scoped : s # NoSession /\ s \in Sessions
      BY <1>1, Numbering
    <2>2. \A s \in Scoped : Holds(t, s) <=> s = n \/ s \in call[t].rest
      BY <1>1, <1>2, <2>1 DEF Holds, AttachIsSound, FieldsAreSound, Closing
    <2>3. \A s \in Scoped : Holds(t, s)' <=> s \in call[t].rest
      BY <1>2, <1>8, <2>1 DEF Holds, FieldsAreSound
    <2> QED  BY <2>1, <2>2, <2>3
  <1>15. ASSUME NEW s \in Scoped PROVE Owned(s)'
    <2>1. \A u \in Threads : u # t => (Holds(u, s)' <=> Holds(u, s))
      BY <1>6, OthersRoles
    <2>2. Registered(s)' <=> Registered(s)
      BY <1>1, <1>3, <1>14 DEF Registered
    <2>3. CASE s = n
      <3>1. ~Holds(t, s)' /\ Holds(t, s) /\ ~session'[s].open
        BY <1>2, <1>3, <1>14, <2>3 DEF FieldsAreSound
      <3> QED  BY <2>1, <2>2, <3>1, OwnedClosed DEF IInv, Ownership
    <2>4. CASE s # n
      <3>1. /\ \A u \in Threads : Holds(u, s)' <=> Holds(u, s)
            /\ session'[s].open = session[s].open
        BY <1>3, <1>14, <2>1, <2>4
      <3> QED  BY <2>2, <3>1, OwnedSame DEF IInv, Ownership
    <2> QED  BY <2>3, <2>4
  <1>16. ASSUME NEW u \in Threads PROVE PidIsHeld(u)'
    <2>1. CASE u = t
      BY <1>8, <1>9, <2>1 DEF PidIsHeld
    <2>2. CASE u # t
      <3>1. call'[u] = call[u] /\ (Registering(u)' <=> Registering(u)) /\ PidIsHeld(u)
        BY <1>6, <2>2, OthersRoles DEF IInv, Ownership
      <3> QED  BY <1>1, <3>1 DEF PidIsHeld
    <2> QED  BY <2>1, <2>2
  <1>17. WhileServing'
    <2> SUFFICES ASSUME stage = "serving" PROVE WhileServing'
      BY <1>1 DEF WhileServing
    <2>1. WhileServing /\ call[t].op \in {"attach", "detach"}
      BY <1>2 DEF IInv, Ownership, WhileServing
    <2>2. ASSUME NEW s \in Scoped PROVE TokenIsSound(s)'
      <3>1. TokenIsSound(s)
        BY <2>1 DEF WhileServing
      <3>2. ~Untokens(t, s)' /\ (Untokens(t, s) <=> s = n)
        BY <1>2, <1>9, <2>1 DEF Untokens
      <3>3. session'[s].token = session[s].token
        BY <1>3, <1>14
      <3>4. CASE s = n
        BY <1>1, <1>3, <3>1, <3>2, <3>3, <3>4 DEF TokenIsSound
      <3>5. CASE s # n
        <4>1. \A u \in Threads : Untokens(u, s)' <=> Untokens(u, s)
          BY <1>6, <3>2, <3>5, OthersRoles
        <4>2. session'[s].open = session[s].open
          BY <1>3, <1>14, <3>5
        <4> QED  BY <1>1, <3>1, <3>3, <4>1, <4>2, TokenFrame
      <3> QED  BY <3>4, <3>5
    <2>3. ASSUME NEW q \in Pids PROVE OrderIsSound(q)'
      <3>1. ~Adds(t, q)' /\ ~Adds(t, q) /\ ~Removes(t, q)' /\ ~Removes(t, q)
        BY <1>1, <1>8 DEF Adds, Removes
      <3>2. \A u \in Threads : /\ Adds(u, q)' <=> Adds(u, q)
                               /\ Removes(u, q)' <=> Removes(u, q)
        BY <1>6, <3>1, OthersRoles
      <3>3. q \in ToSet(order)' <=> q \in ToSet(order)
        BY <1>1 DEF ToSet
      <3> QED  BY <1>1, <2>1, <3>2, <3>3, OrderFrame DEF WhileServing
    <2>4. \A u \in Threads : call'[u].op # "shutdown"
      BY <1>6, <1>8, <2>1 DEF WhileServing, OthersKept
    <2> QED  BY <1>1, <1>3, <2>1, <2>2, <2>3, <2>4 DEF WhileServing, Distinct
  <1>18. Delivery'
    <2>1. Quiet(t)
      BY <1>1, <1>3, <1>6, <1>8 DEF Quiet
    <2>2. \A v \in Threads : call[v].since \cap Recordings' \subseteq Recordings
      <3>1. \A s \in Scoped : Registered(s)' => Registered(s)
        BY <1>1, <1>3, <1>14 DEF Registered
      <3>2. call[t].op = "attach" => ~Registered(n)
        BY <1>14, <1>2 DEF IInv, Ownership, Owned, AttachIsSound
      <3>3. \A u \in Threads : call[u].op = "attach" =>
              \/ call'[u].op = "attach" /\ call'[u].target = call[u].target
              \/ ~Registered(call[u].target)
        BY <1>6, <3>2 DEF OthersKept
      <3> QED  BY <1>1, <1>3, <3>1, <3>3, RecordingsBegin
    <2> QED  BY <1>1, <1>9, <2>1, <2>2, QuietStep
  <1> QED
    BY <1>3, <1>7, <1>11, <1>12, <1>13, <1>15, <1>16, <1>17, <1>18
       DEF IInv, Ownership

\* A thread that is in no call.
LEMMA IdleFields ==
    /\ Idle \in Calls /\ Idle.op = "none" /\ Idle.at = "idle"
    /\ Idle.target = NoSession /\ Idle.prev = NoSession
    /\ Idle.rest = {} /\ Idle.since = {}
  BY DEF Idle, Calls, Args, NoRequest, Numbers, Ops, Places

\* detach_scoped, by_pid: the session goes from the registry to the thread.
LEMMA DetachScopedKeeps ==
    ASSUME IInv, NEW t \in Threads, NEW p \in Launched, DetachScoped(t, p)
    PROVE  IInv'
  <1> DEFINE o == byPid[p]
             r == [NoRequest EXCEPT !.pid = p]
             c == [Idle EXCEPT !.op = "detach", !.at = "unorder", !.req = r,
                               !.target = o]
  <1>1. /\ ~Busy(p) /\ o # NoSession /\ call[t] = Idle /\ TypeOK
        /\ byPid' = [byPid EXCEPT ![p] = NoSession]
        /\ call' = [call EXCEPT ![t] = c]
        /\ UNCHANGED <<session, byToken, order, pidLock, orderLock, bus, stage, emits>>
    BY DEF DetachScoped, Begin, locks, IInv
  <1>2. p \in Pids /\ o \in Scoped /\ session[o].pid = p /\ o \in Numbers /\ Registered(o)
    BY <1>1, RouterAssumption DEF IInv, Ownership, PidsAreSound, TypeOK, Registered
  <1>3. /\ c \in Calls /\ c.op = "detach" /\ c.at = "unorder" /\ c.req.pid = p
        /\ c.target = o /\ c.prev = NoSession /\ c.rest = {} /\ c.since = {}
    <2>1. r \in Args /\ r.pid = p
      BY <1>2 DEF Args, NoRequest
    <2> HIDE DEF r
    <2>2. /\ c.op = "detach" /\ c.at = "unorder" /\ c.req = r /\ c.target = o
          /\ c.prev = NoSession /\ c.rest = {} /\ c.since = {}
      BY DEF Idle
    <2>3. c \in Calls
      BY <1>2, <2>1, IdleFields DEF Calls, Ops, Places
    <2> HIDE DEF c
    <2> QED  BY <2>1, <2>2, <2>3
  <1> HIDE DEF c
  <1>4. /\ byPid' \in [Pids -> Numbers] /\ byPid'[p] = NoSession
        /\ \A q \in Pids \ {p} : byPid'[q] = byPid[q]
    BY <1>1, <1>2 DEF TypeOK, Numbers
  <1>5. /\ TypeOK' /\ call'[t] = c /\ OthersKept(t)
        /\ SessionsKept /\ OpenKept /\ Sessions' = Sessions /\ Scoped' = Scoped
    BY <1>1, <1>3, <1>4, TypedMove DEF TypeOK
  <1>6. /\ call[t].op = "none" /\ call[t].at = "idle" /\ call[t].rest = {}
        /\ call[t].since = {}
    BY <1>1, IdleFields
  <1>7. ~Opening(t)' /\ ~Registering(t)' /\ ~Closing(t)' /\ ~Finalizing(t)'
    BY <1>3, <1>5 DEF Opening, Registering, Closing, Finalizing
  <1>8. CallIsSound(t)'
    <2>1. DetachIsSound(t)'
      BY <1>1, <1>2, <1>3, <1>5 DEF DetachIsSound
    <2>2. FieldsAreSound(t)'
      BY <1>3, <1>5 DEF FieldsAreSound
    <2> QED
      BY <1>3, <1>5, <2>1, <2>2 DEF CallIsSound, EmitIsSound, AttachIsSound,
         ShutdownIsSound
  <1>9. \A u \in Threads : CallIsSound(u)'
    BY <1>5, <1>8, CallsAreSound
  <1>10. PidsAreExclusive'
    BY <1>1, <1>3, <1>5, ExclusiveBegin DEF IInv
  <1>11. PidsAreSound' /\ TokensAreSound'
    <2>1. PidsAreSound /\ TokensAreSound
      BY DEF IInv, Ownership
    <2>2. PidsAreSound'
      BY <1>1, <1>4, <1>5, <2>1 DEF PidsAreSound
    <2>3. TokensAreSound'
      BY <1>1, <1>5, <2>1 DEF TokensAreSound
    <2> QED  BY <2>2, <2>3
  <1>12. ASSUME NEW s \in Scoped PROVE Owned(s)'
    <2>1. \A u \in Threads : u # t => (Holds(u, s)' <=> Holds(u, s))
      BY <1>5, OthersRoles
    <2>2. (Holds(t, s)' <=> s = o) /\ ~Holds(t, s)
      BY <1>3, <1>5, <1>6 DEF Holds
    <2>3. s # NoSession /\ Owned(s) /\ session[s].pid \in Pids
      BY <1>1, Numbering DEF IInv, Ownership, PidsAreSound
    <2>4. Registered(s)' <=> Registered(s) /\ session[s].pid # p
      BY <1>1, <1>2, <1>4, <2>3 DEF Registered
    <2>5. CASE s = o
      BY <1>1, <1>2, <2>1, <2>2, <2>3, <2>4, <2>5, OwnedTaken
    <2>6. CASE s # o
      <3>1. Registered(s)' <=> Registered(s)
        BY <2>4, <2>6 DEF Registered
      <3> QED  BY <1>1, <2>1, <2>2, <2>3, <2>6, <3>1, OwnedSame
    <2> QED  BY <2>5, <2>6
  <1>13. ASSUME NEW u \in Threads PROVE PidIsHeld(u)'
    <2>1. CASE u = t
      BY <1>3, <1>4, <1>5, <1>7, <2>1 DEF PidIsHeld
    <2>2. CASE u # t
      <3>1. call'[u] = call[u] /\ (Registering(u)' <=> Registering(u)) /\ PidIsHeld(u)
        BY <1>5, <2>2, OthersRoles DEF IInv, Ownership
      <3>2. call[u].op \in {"attach", "detach"} =>
              call[u].req.pid \in Pids /\ call[u].req.pid # p
        BY <1>1 DEF Busy, IInv, CallIsSound, AttachIsSound, DetachIsSound
      <3> QED  BY <1>1, <1>4, <3>1, <3>2 DEF PidIsHeld, Registering
    <2> QED  BY <2>1, <2>2
  <1>14. WhileServing'
    <2> SUFFICES ASSUME stage = "serving" PROVE WhileServing'
      BY <1>1 DEF WhileServing
    <2>1. WhileServing
      BY DEF IInv, Ownership
    <2>2. ASSUME NEW s \in Scoped PROVE TokenIsSound(s)'
      <3>1. ~Untokens(t, s)' /\ ~Untokens(t, s)
        BY <1>6, <1>7 DEF Untokens
      <3>2. \A u \in Threads : Untokens(u, s)' <=> Untokens(u, s)
        BY <1>5, <3>1, OthersRoles
      <3> QED  BY <1>1, <2>1, <3>2, TokenFrame DEF WhileServing
    <2>3. ASSUME NEW q \in Pids PROVE OrderIsSound(q)'
      <3>1. ~Adds(t, q)' /\ ~Adds(t, q) /\ ~Removes(t, q) /\ (Removes(t, q)' <=> q = p)
        BY <1>3, <1>5, <1>6 DEF Adds, Removes
      <3>2. \A u \in Threads : u # t => /\ Adds(u, q)' <=> Adds(u, q)
                                        /\ Removes(u, q)' <=> Removes(u, q)
        BY <1>5, OthersRoles
      <3>3. q \in ToSet(order)' <=> q \in ToSet(order)
        BY <1>1 DEF ToSet
      <3>4. OrderIsSound(q)
        BY <2>1 DEF WhileServing
      <3>5. CASE q = p
        <4>1. \A u \in Threads : ~Adds(u, q)
          BY <1>1, <3>5 DEF Busy, Adds
        <4>2. q \in ToSet(order)
          BY <1>1, <3>4, <3>5, <4>1 DEF OrderIsSound
        <4> QED  BY <3>1, <3>3, <3>5, <4>2 DEF OrderIsSound
      <3>6. CASE q # p
        <4>1. \A u \in Threads : /\ Adds(u, q)' <=> Adds(u, q)
                                 /\ Removes(u, q)' <=> Removes(u, q)
          BY <3>1, <3>2, <3>6
        <4> QED  BY <1>4, <3>3, <3>4, <3>6, <4>1, OrderFrame
      <3> QED  BY <3>5, <3>6
    <2>4. \A u \in Threads : call'[u].op # "shutdown"
      BY <1>3, <1>5, <2>1 DEF WhileServing, OthersKept
    <2> QED  BY <1>1, <1>5, <2>1, <2>2, <2>3, <2>4 DEF WhileServing, Distinct
  <1>15. Delivery'
    <2>1. Quiet(t)
      BY <1>1, <1>3, <1>5, <1>6 DEF Quiet
    <2>2. \A v \in Threads : call[v].since \cap Recordings' \subseteq Recordings
      <3>1. ASSUME NEW s \in Scoped, Registered(s)' PROVE Registered(s)
        <4>1. session[s].pid \in Pids /\ s # NoSession
          BY <1>1, Numbering DEF IInv, Ownership, PidsAreSound
        <4> QED  BY <1>1, <1>4, <3>1, <4>1 DEF Registered
      <3>2. \A u \in Threads : call[u].op = "attach" =>
              call'[u].op = "attach" /\ call'[u].target = call[u].target
        BY <1>5, <1>6 DEF OthersKept
      <3> QED  BY <1>1, <1>5, <3>1, <3>2, RecordingsBegin
    <2> QED  BY <1>1, <1>7, <2>1, <2>2, QuietStep
  <1> QED
    BY <1>5, <1>9, <1>10, <1>11, <1>12, <1>13, <1>14, <1>15 DEF IInv, Ownership

\* finalize_all, by_pid: every registered session goes to the thread.
LEMMA FinalizeAllKeeps ==
    ASSUME IInv, NEW t \in Threads, FinalizeAll(t)
    PROVE  IInv'
  <1> DEFINE R == {byPid[p] : p \in Pids} \ {NoSession}
             c == [Idle EXCEPT !.op = "shutdown", !.at = "clear", !.rest = R]
  <1>1. /\ call[t] = Idle /\ TypeOK /\ stage' = "stopping"
        /\ byPid' = [p \in Pids |-> NoSession]
        /\ call' = [call EXCEPT ![t] = c]
        /\ UNCHANGED <<session, byToken, order, pidLock, orderLock, bus, emits>>
    BY DEF FinalizeAll, Begin, locks, IInv
  <1>2. /\ R \subseteq Scoped /\ NoSession \notin R
        /\ \A s \in Scoped : s \in R <=> Registered(s)
    <2>1. PidsAreSound /\ \A s \in Scoped : s # NoSession
      BY <1>1, Numbering DEF IInv, Ownership
    <2> QED  BY <2>1 DEF PidsAreSound, Registered
  <1> HIDE DEF R
  <1>3. /\ c \in Calls /\ c.op = "shutdown" /\ c.at = "clear" /\ c.target = NoSession
        /\ c.prev = NoSession /\ c.rest = R /\ c.since = {}
    <2>1. /\ c.op = "shutdown" /\ c.at = "clear" /\ c.target = NoSession
          /\ c.prev = NoSession /\ c.rest = R /\ c.since = {}
      BY DEF Idle
    <2>2. R \in SUBSET (Sessions \ {Ambient})
      BY <1>2 DEF Scoped
    <2>3. c \in Calls
      BY <2>2, IdleFields DEF Calls, Ops, Places
    <2> HIDE DEF c
    <2> QED  BY <2>1, <2>3
  <1> HIDE DEF c
  <1>4. byPid' \in [Pids -> Numbers] /\ \A p \in Pids : byPid'[p] = NoSession
    BY <1>1 DEF Numbers
  <1>5. /\ TypeOK' /\ call'[t] = c /\ OthersKept(t)
        /\ SessionsKept /\ OpenKept /\ Sessions' = Sessions /\ Scoped' = Scoped
    BY <1>1, <1>3, <1>4, TypedMove DEF TypeOK
  <1>6. /\ call[t].op = "none" /\ call[t].at = "idle" /\ call[t].rest = {}
        /\ call[t].since = {}
    BY <1>1, IdleFields
  <1>7. ~Opening(t)' /\ ~Registering(t)'
    BY <1>3, <1>5 DEF Opening, Registering
  <1>8. CallIsSound(t)'
    <2>1. ShutdownIsSound(t)' /\ FieldsAreSound(t)'
      BY <1>2, <1>3, <1>5 DEF ShutdownIsSound, FieldsAreSound
    <2> QED
      BY <1>3, <1>5, <2>1 DEF CallIsSound, EmitIsSound, AttachIsSound, DetachIsSound
  <1>9. \A u \in Threads : CallIsSound(u)'
    BY <1>5, <1>8, CallsAreSound
  <1>10. PidsAreExclusive'
    BY <1>3, <1>5, <1>6, ExclusiveFrame DEF IInv, OthersKept
  <1>11. PidsAreSound' /\ TokensAreSound'
    BY <1>1, <1>4, <1>5 DEF IInv, Ownership, PidsAreSound, TokensAreSound
  <1>12. ASSUME NEW s \in Scoped PROVE Owned(s)' /\ ~Registered(s)'
    <2>1. \A u \in Threads : u # t => (Holds(u, s)' <=> Holds(u, s))
      BY <1>5, OthersRoles
    <2>2. s # NoSession /\ Owned(s) /\ session[s].pid \in Pids
      BY <1>1, Numbering DEF IInv, Ownership, PidsAreSound
    <2>3. (Holds(t, s)' <=> Registered(s)) /\ ~Holds(t, s)
      BY <1>2, <1>3, <1>5, <1>6, <2>2 DEF Holds
    <2>4. ~Registered(s)'
      BY <1>1, <1>4, <2>2 DEF Registered
    <2>5. CASE Registered(s)
      BY <1>1, <2>1, <2>2, <2>3, <2>4, <2>5, OwnedTaken
    <2>6. CASE ~Registered(s)
      BY <1>1, <2>1, <2>2, <2>3, <2>4, <2>6, OwnedSame
    <2> QED  BY <2>4, <2>5, <2>6
  <1>13. ASSUME NEW u \in Threads PROVE PidIsHeld(u)'
    <2>1. call'[u].op = "detach" => call'[u].req.pid \in Pids
      BY <1>9 DEF CallIsSound, DetachIsSound
    <2> QED  BY <1>1, <1>4, <2>1 DEF PidIsHeld
  <1>14. WhileServing'
    BY <1>1 DEF WhileServing
  <1>15. Delivery'
    <2>1. Quiet(t)
      BY <1>1, <1>3, <1>5, <1>6 DEF Quiet
    <2>2. \A v \in Threads : call[v].since \cap Recordings' \subseteq Recordings
      <3>1. Recordings' = {}
        BY <1>5, <1>12 DEF Recordings, Registered, Scoped
      <3> QED  BY <3>1
    <2> QED  BY <1>1, <1>7, <2>1, <2>2, QuietStep
  <1> QED
    BY <1>5, <1>9, <1>10, <1>11, <1>12, <1>13, <1>14, <1>15 DEF IInv, Ownership

\* A step of the shutdown after which t has the same sessions to finalize.
LEMMA ShutdownSame ==
    ASSUME IInv, NEW t \in Threads, NEW c \in Calls, call' = [call EXCEPT ![t] = c],
           call[t].op = "shutdown", call[t].at \in {"clear", "next"},
           c.op \in {"none", "shutdown"}, c.prev = NoSession, c.since = {},
           c.at # "publish", c.target \notin c.rest,
           c.op = "none" => c.at = "idle",
           c.op = "shutdown" =>
             \/ c.at \in {"clear", "next"} /\ c.target = NoSession
             \/ c.at = "end" /\ c.target # NoSession,
           c.op = "none" => c.rest = {},
           \A s \in Scoped : (c.op = "shutdown" /\ c.target = s) \/ s \in c.rest
                               <=> s \in call[t].rest,
           byToken' \in [Tokens -> Numbers],
           \A k \in Tokens : byToken'[k] \in {byToken[k], NoSession},
           stage' \in {stage, "stopped"},
           UNCHANGED <<session, byPid, order, pidLock, orderLock, bus, emits>>
    PROVE  IInv'
  <1>0. TypeOK
    BY DEF IInv
  <1>1. /\ TypeOK' /\ call'[t] = c /\ OthersKept(t)
        /\ SessionsKept /\ OpenKept /\ Sessions' = Sessions /\ Scoped' = Scoped
    BY <1>0, TypedMove DEF TypeOK
  <1>2. ~Opening(t)' /\ ~Registering(t)'
    BY <1>1 DEF Opening, Registering
  <1>3. stage # "serving" /\ stage' # "serving"
    BY DEF IInv, Ownership, WhileServing
  <1>4. CallIsSound(t)'
    BY <1>1 DEF CallIsSound, EmitIsSound, AttachIsSound, DetachIsSound,
       ShutdownIsSound, FieldsAreSound, Finalizing
  <1>5. \A u \in Threads : CallIsSound(u)'
    BY <1>1, <1>4, CallsAreSound
  <1>6. PidsAreExclusive'
    BY <1>1, ExclusiveFrame DEF IInv, OthersKept
  <1>7. PidsAreSound' /\ TokensAreSound'
    BY <1>1 DEF IInv, Ownership, PidsAreSound, TokensAreSound
  <1>8. ASSUME NEW s \in Scoped PROVE Owned(s)'
    <2>1. call[t].prev = NoSession /\ call[t].target = NoSession /\ s # NoSession
      BY <1>0, Numbering DEF IInv, CallIsSound, FieldsAreSound, ShutdownIsSound
    <2>2. Holds(t, s)' <=> Holds(t, s)
      BY <1>1, <2>1 DEF Holds
    <2>3. \A u \in Threads : Holds(u, s)' <=> Holds(u, s)
      BY <1>1, <2>2, OthersRoles
    <2> QED  BY <2>3, OwnedSame DEF IInv, Ownership, Registered
  <1>9. ASSUME NEW u \in Threads PROVE PidIsHeld(u)'
    <2>1. CASE u = t
      BY <1>1, <1>3, <2>1 DEF PidIsHeld
    <2>2. CASE u # t
      <3>1. call'[u] = call[u] /\ PidIsHeld(u)
        BY <1>1, <2>2, OthersRoles DEF IInv, Ownership
      <3> QED  BY <1>3, <3>1 DEF PidIsHeld
    <2> QED  BY <2>1, <2>2
  <1>10. WhileServing'
    BY <1>3 DEF WhileServing
  <1>11. Delivery'
    <2>1. Quiet(t)
      BY <1>1 DEF Quiet
    <2>2. \A v \in Threads : call[v].since \cap Recordings' \subseteq Recordings
      <3>1. \A s \in Scoped : Registered(s)' => Registered(s)
        BY DEF Registered
      <3>2. \A u \in Threads : call[u].op = "attach" =>
              call'[u].op = "attach" /\ call'[u].target = call[u].target
        BY <1>1 DEF OthersKept
      <3> QED  BY <1>0, <1>1, <3>1, <3>2, RecordingsBegin
    <2> QED  BY <1>2, <1>3, <2>1, <2>2, QuietStep
  <1> QED
    BY <1>1, <1>5, <1>6, <1>7, <1>8, <1>9, <1>10, <1>11 DEF IInv, Ownership

\* What the shutdown is about between two sessions.
LEMMA ShutdownFields ==
    ASSUME IInv, NEW t \in Threads, call[t].op = "shutdown",
           call[t].at \in {"clear", "next"}
    PROVE  /\ call[t].target = NoSession /\ call[t].prev = NoSession
           /\ call[t].since = {} /\ call[t].rest \subseteq Scoped
           /\ Ambient \in Sessions /\ \A s \in Scoped : s # NoSession /\ s # Ambient
           /\ NoSession \notin call[t].rest /\ Ambient \notin call[t].rest
  <1>1. TypeOK /\ CallIsSound(t) /\ call[t] \in Calls
    BY DEF IInv, TypeOK
  <1>2. call[t].rest \subseteq Scoped
    BY <1>1 DEF Calls, Scoped
  <1> QED
    BY <1>1, <1>2, Numbering DEF CallIsSound, ShutdownIsSound, FieldsAreSound, Scoped

\* finalize_all, by_token.
LEMMA ClearTokensKeeps ==
    ASSUME IInv, NEW t \in Threads, ClearTokens(t)
    PROVE  IInv'
  <1>1. /\ call[t].op = "shutdown" /\ call[t].at = "clear" /\ TypeOK
        /\ UNCHANGED <<session, byPid, order, pidLock, orderLock, bus, stage, emits>>
        /\ byToken' = [k \in Tokens |-> NoSession] /\ Goto(t, "next")
    BY DEF ClearTokens, At, locks, IInv
  <1>2. PICK c : Moves(t, c, "next", call[t].target)
    BY <1>1, GotoMoves DEF Places
  <1>3. /\ call[t].target = NoSession /\ call[t].prev = NoSession
        /\ call[t].since = {} /\ NoSession \notin call[t].rest
        /\ \A s \in Scoped : s # NoSession
    BY <1>1, ShutdownFields
  <1>4. /\ byToken' \in [Tokens -> Numbers]
        /\ \A k \in Tokens : byToken'[k] \in {byToken[k], NoSession}
    BY <1>1 DEF Numbers
  <1>5. /\ c \in Calls /\ call' = [call EXCEPT ![t] = c] /\ c.op = "shutdown"
        /\ c.at = "next" /\ c.target = NoSession /\ c.prev = NoSession
        /\ c.since = {} /\ c.rest = call[t].rest
    BY <1>1, <1>2, <1>3 DEF Moves
  <1> QED  BY <1>1, <1>3, <1>4, <1>5, ShutdownSame

\* finalize_all, the next session, or the end.
LEMMA FinalizeNextKeeps ==
    ASSUME IInv, NEW t \in Threads, FinalizeNext(t)
    PROVE  IInv'
  <1>1. /\ call[t].op = "shutdown" /\ call[t].at = "next" /\ TypeOK
        /\ UNCHANGED <<session, byPid, byToken, order, pidLock, orderLock, bus, emits>>
        /\ byToken \in [Tokens -> Numbers] /\ call[t] \in Calls
    BY DEF FinalizeNext, At, registry, locks, IInv, TypeOK
  <1>2. /\ call[t].target = NoSession /\ call[t].prev = NoSession
        /\ call[t].since = {} /\ call[t].rest \subseteq Scoped
        /\ Ambient \in Sessions /\ \A s \in Scoped : s # NoSession /\ s # Ambient
        /\ NoSession \notin call[t].rest /\ Ambient \notin call[t].rest
    BY <1>1, ShutdownFields
  <1>3. ASSUME NEW s \in call[t].rest, stage' = stage,
               call' = [call EXCEPT ![t].at = "end", ![t].target = s,
                                    ![t].rest = @ \ {s}]
        PROVE  IInv'
    <2> DEFINE c == [call[t] EXCEPT !.at = "end", !.target = s,
                                    !.rest = call[t].rest \ {s}]
    <2>1. call' = [call EXCEPT ![t] = c]
      BY <1>3
    <2>2. /\ c \in Calls /\ c.op = "shutdown" /\ c.at = "end" /\ c.target = s
          /\ c.prev = NoSession /\ c.since = {} /\ c.rest = call[t].rest \ {s}
      BY <1>1, <1>2 DEF Calls, Places, Numbers, Scoped
    <2> HIDE DEF c
    <2>3. s \in Scoped /\ s # NoSession
      BY <1>2
    <2> QED  BY <1>1, <1>3, <2>1, <2>2, <2>3, ShutdownSame
  <1>4. ASSUME call[t].rest = {}, GotoWith(t, "end", Ambient), stage' = stage
        PROVE  IInv'
    <2>1. PICK c : Moves(t, c, "end", Ambient)
      BY <1>1, <1>2, <1>4, GotoWithMoves DEF Places, Numbers
    <2>2. Ambient # NoSession
      BY DEF Ambient, NoSession
    <2>3. /\ c \in Calls /\ call' = [call EXCEPT ![t] = c] /\ c.op = "shutdown"
          /\ c.at = "end" /\ c.target = Ambient /\ c.prev = NoSession
          /\ c.since = {} /\ c.rest = {}
      BY <1>1, <1>2, <1>4, <2>1 DEF Moves
    <2> QED  BY <1>1, <1>2, <1>4, <2>2, <2>3, ShutdownSame
  <1>5. ASSUME call[t].rest = {}, Return(t), stage' = "stopped"
        PROVE  IInv'
    <2>1. call' = [call EXCEPT ![t] = Idle]
      BY <1>5 DEF Return
    <2> QED  BY <1>1, <1>2, <1>5, <2>1, IdleFields, ShutdownSame
  <1> QED  BY <1>3, <1>4, <1>5 DEF FinalizeNext

\* attach_scoped: a session is opened, and the thread has it.
LEMMA AttachScopedKeeps ==
    ASSUME IInv, NEW t \in Threads, NEW p \in Launched,
           NEW k \in Tokens \cup {NoToken}, AttachScoped(t, p, k)
    PROVE  IInv'
  <1> DEFINE n == Len(session) + 1
             w == [pid |-> p, token |-> k, open |-> TRUE, log |-> <<"started">>]
             r == [mark |-> FALSE, pid |-> p, token |-> k]
             c == [Idle EXCEPT !.op = "attach", !.at = "publish", !.pos = 1,
                               !.req = r, !.target = n, !.then = "insert"]
  <1>1. /\ ~Busy(p) /\ call[t] = Idle /\ TypeOK
        /\ k # NoToken => \A s \in Sessions : session[s].token # k
        /\ session' = Append(session, w)
        /\ call' = [call EXCEPT ![t] = c]
        /\ UNCHANGED <<byPid, byToken, order, pidLock, orderLock, bus, stage, emits>>
    BY DEF AttachScoped, Begin, registry, locks, IInv
  <1>2. p \in Pids /\ session \in Seq(SessionRecords) /\ n \in Nat
        /\ n # Ambient /\ n # NoSession /\ n \notin Sessions /\ Ambient \in Sessions
    BY <1>1, Numbering, RouterAssumption DEF TypeOK, Ambient, NoSession, Sessions
  <1>3. /\ w \in SessionRecords /\ w.pid = p /\ w.token = k /\ w.open
        /\ DOMAIN w.log = {1}
    BY <1>2 DEF SessionRecords, Kinds
  <1>4. /\ session' \in Seq(SessionRecords) /\ Sessions' = Sessions \cup {n}
        /\ session'[n] = w /\ \A s \in Sessions : session'[s] = session[s]
    <2> HIDE DEF w, SessionRecords
    <2> QED  BY <1>1, <1>2, <1>3 DEF Sessions
  <1>5. /\ c.op = "attach" /\ c.at = "publish" /\ c.req.pid = p /\ c.req.token = k
        /\ c.target = n /\ c.prev = NoSession /\ c.rest = {} /\ c.pos = 1
        /\ c.then = "insert" /\ c.since = {} /\ c \in Calls'
    <2>1. r \in Args /\ r.pid = p /\ r.token = k
      BY <1>2 DEF Args
    <2> HIDE DEF r
    <2>2. /\ c.op = "attach" /\ c.at = "publish" /\ c.req = r
          /\ c.target = n /\ c.prev = NoSession /\ c.rest = {} /\ c.pos = 1
          /\ c.then = "insert" /\ c.since = {}
      BY DEF Idle
    <2>3. c \in Calls'
      <3>1. n \in Numbers' /\ NoSession \in Numbers'
        BY <1>4 DEF Numbers
      <3> HIDE DEF n
      <3> QED  BY <2>1, <3>1 DEF Idle, Calls, Ops, Places
    <2> HIDE DEF c
    <2> QED  BY <2>1, <2>2, <2>3
  <1> HIDE DEF c, w, n
  <1>6. call'[t] = c /\ OthersKept(t)
    BY <1>1, CallChanges
  <1>7. SessionsKept /\ Scoped' = Scoped \cup {n}
    BY <1>2, <1>4 DEF SessionsKept, Scoped
  <1>8. TypeOK'
    <2>1. call' \in [Threads -> Calls']
      BY <1>1, <1>4, <1>5, <1>6, CallsTyped, Zenon
    <2>2. Numbers \subseteq Numbers' /\ Ambient \in Sessions'
      BY <1>2, <1>4 DEF Numbers
    <2>3. byPid' \in [Pids -> Numbers'] /\ byToken' \in [Tokens -> Numbers']
      BY <1>1, <2>2 DEF TypeOK
    <2>4. bus' \subseteq Sessions' \X Nat
      BY <1>1, <1>4 DEF TypeOK
    <2> QED  BY <1>1, <1>4, <2>1, <2>2, <2>3, <2>4 DEF TypeOK
  <1>9. /\ call[t].op = "none" /\ call[t].at = "idle" /\ call[t].rest = {}
        /\ call[t].since = {}
    BY <1>1, IdleFields
  <1>10. Opening(t)' /\ ~Registering(t)' /\ ~Closing(t)' /\ ~Finalizing(t)'
    BY <1>5, <1>6 DEF Opening, Registering, Closing, Finalizing
  <1>11. CallIsSound(t)'
    <2>1. AttachIsSound(t)'
      BY <1>2, <1>3, <1>4, <1>5, <1>6, <1>7, <1>10 DEF AttachIsSound
    <2>2. FieldsAreSound(t)'
      BY <1>3, <1>4, <1>5, <1>6 DEF FieldsAreSound
    <2> QED
      BY <1>5, <1>6, <2>1, <2>2 DEF CallIsSound, EmitIsSound, DetachIsSound,
         ShutdownIsSound
  <1>12. \A u \in Threads : CallIsSound(u)'
    BY <1>6, <1>7, <1>11, CallsAreSound
  <1>13. PidsAreExclusive'
    BY <1>1, <1>5, <1>6, ExclusiveBegin DEF IInv
  <1>14. \A s \in Scoped : s \in Sessions /\ s # NoSession /\ s # n
    BY <1>1, <1>2, Numbering
  <1>15. PidsAreSound' /\ TokensAreSound'
    <2>1. PidsAreSound /\ TokensAreSound
      BY DEF IInv, Ownership
    <2>2. PidsAreSound'
      BY <1>1, <1>2, <1>3, <1>4, <1>7, <1>14, <2>1 DEF PidsAreSound
    <2>3. TokensAreSound'
      <3>1. session'[Ambient].token = NoToken
        BY <1>2, <1>4, <2>1 DEF TokensAreSound
      <3>2. \A j \in Tokens : byToken'[j] # NoSession =>
              byToken'[j] \in Scoped' /\ session'[byToken'[j]].token = j
        BY <1>1, <1>4, <1>7, <1>14, <2>1 DEF TokensAreSound
      <3>3. session'[n].token = k
        BY <1>3, <1>4
      <3>4. \A q, s \in Sessions' : session'[q].token = session'[s].token
                                     /\ session'[q].token # NoToken => q = s
        <4> SUFFICES ASSUME NEW q \in Sessions', NEW s \in Sessions',
                            session'[q].token = session'[s].token,
                            session'[q].token # NoToken
                     PROVE  q = s
          OBVIOUS
        <4>1. CASE q \in Sessions /\ s \in Sessions
          BY <1>4, <2>1, <4>1 DEF TokensAreSound
        <4>2. CASE q = n \/ s = n
          BY <1>1, <1>4, <3>3, <4>2
        <4> QED  BY <1>4, <4>1, <4>2
      <3> QED  BY <3>1, <3>2, <3>4 DEF TokensAreSound
    <2> QED  BY <2>2, <2>3
  <1>16. ASSUME NEW u \in Threads, u # t
         PROVE  /\ call[u].target \in Numbers /\ call[u].prev \in Numbers
                /\ call[u].rest \subseteq Sessions /\ call[u].since \subseteq Sessions
    <2>1. call[u] \in Calls
      BY <1>1 DEF TypeOK
    <2> QED  BY <2>1 DEF Calls
  <1>17. n \notin Numbers
    BY <1>2 DEF Numbers
  <1>18. ASSUME NEW s \in Scoped PROVE Owned(s)'
    <2>1. \A u \in Threads : u # t => (Holds(u, s)' <=> Holds(u, s))
      BY <1>6, OthersRoles
    <2>2. ~Holds(t, s)' /\ ~Holds(t, s)
      BY <1>5, <1>6, <1>9, <1>14 DEF Holds
    <2>3. (Registered(s)' <=> Registered(s)) /\ session'[s].open = session[s].open
      BY <1>1, <1>4, <1>14 DEF Registered
    <2> QED  BY <2>1, <2>2, <2>3, OwnedSame DEF IInv, Ownership
  <1>19. ASSUME NEW s, s = n PROVE Owned(s)'
    <2>1. \A u \in Threads : u # t => ~Holds(u, s)'
      BY <1>2, <1>6, <1>16, <1>17, <1>19 DEF Holds, OthersKept
    <2>2. Holds(t, s)'
      BY <1>5, <1>6, <1>19 DEF Holds
    <2>3. ~Registered(s)'
      <3>1. byPid[p] \in Numbers
        BY <1>1, <1>2 DEF TypeOK
      <3>2. session'[s].pid = p
        BY <1>3, <1>4, <1>19
      <3>3. byPid'[session'[s].pid] # s
        BY <1>1, <1>17, <1>19, <3>1, <3>2
      <3> QED  BY <3>3 DEF Registered
    <2> QED  BY <1>3, <1>4, <1>19, <2>1, <2>2, <2>3 DEF Owned
  <1>20. ASSUME NEW u \in Threads PROVE PidIsHeld(u)'
    <2>1. CASE u = t
      BY <1>5, <1>6, <1>10, <2>1 DEF PidIsHeld
    <2>2. CASE u # t
      <3>1. call'[u] = call[u] /\ (Registering(u)' <=> Registering(u)) /\ PidIsHeld(u)
        BY <1>6, <2>2, OthersRoles DEF IInv, Ownership
      <3> QED  BY <1>1, <3>1 DEF PidIsHeld
    <2> QED  BY <2>1, <2>2
  <1>21. WhileServing'
    <2> SUFFICES ASSUME stage = "serving" PROVE WhileServing'
      BY <1>1 DEF WhileServing
    <2>1. WhileServing
      BY DEF IInv, Ownership
    <2>2. ASSUME NEW s \in Scoped PROVE TokenIsSound(s)'
      <3>1. ~Untokens(t, s)' /\ ~Untokens(t, s)
        BY <1>5, <1>6, <1>9, <1>14 DEF Untokens
      <3>2. \A u \in Threads : Untokens(u, s)' <=> Untokens(u, s)
        BY <1>6, <3>1, OthersRoles
      <3> QED  BY <1>1, <1>4, <1>14, <2>1, <3>2, TokenFrame DEF WhileServing
    <2>3. ASSUME NEW s, s = n PROVE TokenIsSound(s)'
      <3>1. Untokens(t, s)'
        BY <1>5, <1>6, <1>10, <2>3 DEF Untokens
      <3>2. k \in Tokens => byToken'[k] # n
        BY <1>1, <1>17 DEF TypeOK
      <3> QED  BY <1>3, <1>4, <2>3, <3>1, <3>2 DEF TokenIsSound
    <2>4. ASSUME NEW q \in Pids PROVE OrderIsSound(q)'
      <3>1. ~Adds(t, q)' /\ ~Adds(t, q) /\ ~Removes(t, q)' /\ ~Removes(t, q)
        BY <1>5, <1>6, <1>9 DEF Adds, Removes
      <3>2. \A u \in Threads : /\ Adds(u, q)' <=> Adds(u, q)
                               /\ Removes(u, q)' <=> Removes(u, q)
        BY <1>6, <3>1, OthersRoles
      <3>3. q \in ToSet(order)' <=> q \in ToSet(order)
        BY <1>1 DEF ToSet
      <3> QED  BY <1>1, <2>1, <3>2, <3>3, OrderFrame DEF WhileServing
    <2>5. \A u \in Threads : call'[u].op # "shutdown"
      BY <1>5, <1>6, <2>1 DEF WhileServing, OthersKept
    <2> QED
      BY <1>1, <1>7, <2>1, <2>2, <2>3, <2>4, <2>5 DEF WhileServing, Distinct
  <1>22. SinceIsSound'
    <2> SUFFICES ASSUME NEW v \in Threads, NEW s \in call'[v].since, NEW u \in Threads,
                        Opening(u)' \/ Registering(u)'
                 PROVE  call'[u].target # s
      BY DEF SinceIsSound
    <2>1. v # t /\ s \in call[v].since /\ s \in Sessions
      BY <1>5, <1>6, <1>16 DEF OthersKept
    <2>2. CASE u = t
      BY <1>2, <1>5, <1>6, <2>1, <2>2
    <2>3. CASE u # t
      BY <1>6, <2>1, <2>3, OthersRoles DEF IInv, Delivery, SinceIsSound
    <2> QED  BY <2>2, <2>3
  <1>23. Recordings' \subseteq Recordings
    <2> SUFFICES ASSUME NEW s \in Recordings' PROVE s \in Recordings
      OBVIOUS
    <2>1. /\ s \in Scoped' /\ byPid'[session'[s].pid] = s
          /\ \A u \in Threads : call'[u].op = "attach" => call'[u].target # s
      BY DEF Recordings, Scoped
    <2>2. s \in Scoped /\ s # n
      BY <1>5, <1>6, <1>7, <2>1
    <2>3. byPid[session[s].pid] = s
      BY <1>1, <1>4, <1>14, <2>1, <2>2
    <2>4. \A u \in Threads : call[u].op = "attach" => call[u].target # s
      BY <1>6, <1>9, <2>1 DEF OthersKept
    <2> QED  BY <2>2, <2>3, <2>4 DEF Recordings, Scoped
  <1>24. \A u \in Threads : RouteIsSound(u)'
    <2>1. RouteIsSound(t)'
      BY <1>5, <1>6 DEF RouteIsSound
    <2> QED  BY <1>1, <1>6, <1>7, <1>23, <2>1, RoutesAreSound
  <1>25. PublishedOnce' /\ FeedMatchesStore'
    <2>1. ~Stored(n, 1)
      BY <1>2 DEF Stored
    <2>2. ASSUME NEW s, NEW i
          PROVE  Stored(s, i)' <=> Stored(s, i) \/ (s = n /\ i = 1)
      <3>1. CASE s = n
        BY <1>2, <1>3, <1>4, <3>1 DEF Stored
      <3>2. CASE s # n
        BY <1>4, <3>2 DEF Stored
      <3> QED  BY <3>1, <3>2
    <2>3. /\ call[t].at # "publish" /\ call'[t].at = "publish"
          /\ call'[t].target = n /\ call'[t].pos = 1
      BY <1>5, <1>6, <1>9
    <2> QED
      BY <1>1, <1>6, <2>1, <2>2, <2>3, PublishedIsStored, FeedWritten
         DEF IInv, Delivery
  <1> QED
    BY <1>7, <1>8, <1>12, <1>13, <1>15, <1>18, <1>19, <1>20, <1>21, <1>22, <1>24,
       <1>25 DEF IInv, Ownership, Delivery

-----------------------------------------------------------------------------
(* The invariant.                                                          *)

\* It holds when the daemon starts.
LEMMA InitIInv == Init => IInv
  <1> SUFFICES ASSUME Init PROVE IInv
    OBVIOUS
  <1>1. /\ Len(session) = 1 /\ Sessions = {1} /\ Scoped = {}
        /\ session[1].pid = NoPid /\ session[1].token = NoToken
        /\ DOMAIN session[1].log = {1} /\ session \in Seq(SessionRecords)
    BY DEF Init, Sessions, Scoped, Ambient, SessionRecords, Kinds
  <1>2. \A t \in Threads : call[t] = Idle
    BY DEF Init
  <1>3. \A t \in Threads : /\ call[t].op = "none" /\ call[t].at = "idle"
                           /\ call[t].target = NoSession /\ call[t].prev = NoSession
                           /\ call[t].rest = {} /\ call[t].since = {}
    BY <1>2, IdleFields
  <1>4. TypeOK
    BY <1>1, IdleFields DEF Init, TypeOK, Numbers, Ambient
  <1>5. \A t \in Threads : CallIsSound(t)
    BY <1>3 DEF CallIsSound, EmitIsSound, AttachIsSound, DetachIsSound,
       ShutdownIsSound, FieldsAreSound
  <1>6. PidsAreExclusive
    BY <1>3 DEF PidsAreExclusive
  <1>7. Ownership
    <2>1. PidsAreSound /\ TokensAreSound
      BY <1>1 DEF Init, PidsAreSound, TokensAreSound, Ambient
    <2>2. \A t \in Threads : PidIsHeld(t)
      BY <1>3 DEF PidIsHeld, Registering
    <2>3. \A p \in Pids : OrderIsSound(p)
      BY <1>3 DEF Init, OrderIsSound, ToSet, Removes
    <2>4. Distinct(order)
      BY DEF Init, Distinct
    <2> QED  BY <1>1, <1>3, <2>1, <2>2, <2>3, <2>4 DEF Ownership, WhileServing
  <1>8. Delivery
    <2>1. SinceIsSound /\ PublishedOnce /\ \A t \in Threads : RouteIsSound(t)
      BY <1>3 DEF SinceIsSound, PublishedOnce, RouteIsSound
    <2>2. Feed
      BY <1>1, <1>3 DEF Init, Feed, Stored, Withheld, Ambient
    <2> QED  BY <2>1, <2>2, FeedElements DEF Delivery
  <1> QED  BY <1>4, <1>5, <1>6, <1>7, <1>8 DEF IInv

\* Every step keeps it.
LEMMA NextIInv ==
    ASSUME IInv, [Next]_vars
    PROVE  IInv'
  <1>1. CASE Next
    <2>1. PICK t \in Threads : Start(t) \/ Continue(t)
      BY <1>1 DEF Next
    <2>2. CASE Start(t)
      BY <2>2, EmitKeeps, AttachScopedKeeps, DetachScopedKeeps, FinalizeAllKeeps,
         FlushAllKeeps DEF Start
    <2>3. CASE Route(t)
      BY <2>3, RouteByTokenKeeps, RouteByPidKeeps, LockOrderKeeps,
         RouteToNewestKeeps DEF Route
    <2>4. CASE AttachStep(t) \/ DetachStep(t)
      BY <2>4, InsertPidKeeps, InsertOrderKeeps, InsertTokenKeeps,
         DropPrevTokenKeeps, RemoveOrderKeeps, RemoveTokenKeeps
         DEF AttachStep, DetachStep
    <2>5. CASE ShutdownStep(t)
      BY <2>5, ClearTokensKeeps, FinalizeNextKeeps DEF ShutdownStep
    <2>6. CASE WriteEvent(t) \/ Publish(t) \/ WriteEnded(t) \/ TakeWriter(t)
                 \/ FlushDone(t)
      BY <2>6, WriteEventKeeps, PublishKeeps, WriteEndedKeeps, TakeWriterKeeps,
         FlushDoneKeeps
    <2> QED  BY <2>1, <2>2, <2>3, <2>4, <2>5, <2>6 DEF Continue
  <1>2. CASE UNCHANGED vars
    <2>1. UNCHANGED <<session, byPid, byToken, order, pidLock, orderLock, call,
                      bus, stage, emits>>
      BY <1>2 DEF vars, registry, locks
    <2>2. \A t \in Threads : CallIsSound(t)'
      <3>1. SessionsKept
        BY <2>1, SessionsKeptWhenSame
      <3> QED  BY <2>1, <3>1, CallFrame DEF IInv
    <2>3. Ownership'
      <3>1. \A t \in Threads : SameRole(t)
        BY <2>1, SameRoleWhenKept DEF RegistryKept
      <3> QED
        BY <2>1, <3>1, SessionsKeptWhenSame, OwnershipFrame DEF IInv, RegistryKept
    <2>4. Delivery'
      <3>1. Recordings' = Recordings
        BY <2>1 DEF Recordings, Sessions
      <3>2. \A t \in Threads : RouteIsSound(t)'
        BY <2>1, <3>1, SessionsKeptWhenSame, RouteFrame DEF IInv, Delivery
      <3>3. SinceIsSound'
        BY <2>1, SinceFrame DEF IInv, Delivery, Opening, Registering
      <3>4. PublishedOnce' /\ FeedMatchesStore'
        BY <2>1, SessionsKeptWhenSame, FeedFrame DEF IInv, Delivery
      <3> QED  BY <3>2, <3>3, <3>4 DEF Delivery
    <2>5. TypeOK'
      BY <2>1 DEF IInv, TypeOK, Sessions, Numbers, Calls
    <2>6. PidsAreExclusive'
      BY <2>1 DEF IInv, PidsAreExclusive
    <2> QED  BY <2>2, <2>3, <2>4, <2>5, <2>6 DEF IInv
  <1> QED  BY <1>1, <1>2

\* The router is always in a state the invariant describes.
THEOREM Invariant == Spec => []IInv
  <1>1. IInv /\ [Next]_vars => IInv'
    BY NextIInv
  <1> QED  BY InitIInv, <1>1, PTL DEF Spec

\* Owned, counted.
LEMMA OwnedIsOneOwner ==
    ASSUME NEW s \in Scoped, Owned(s)
    PROVE  LET holders == {t \in Threads : Holds(t, s)}
               registered == byPid[session[s].pid] = s
           IN  IF session[s].open
               THEN \/ registered /\ holders = {}
                    \/ ~registered /\ Cardinality(holders) = 1
               ELSE ~registered /\ holders = {}
  <1> DEFINE holders == {t \in Threads : Holds(t, s)}
  <1>1. CASE \E t \in Threads : Holds(t, s)
    <2>1. PICK t \in Threads : Holds(t, s)
      BY <1>1
    <2>2. holders = {t}
      BY <2>1 DEF Owned
    <2>3. Cardinality(holders) = 1
      BY <2>2, FS_Singleton
    <2> QED  BY <2>1, <2>3 DEF Owned, Registered
  <1>2. CASE ~\E t \in Threads : Holds(t, s)
    <2>1. holders = {}
      BY <1>2
    <2> QED  BY <1>2, <2>1 DEF Owned, Registered
  <1> QED  BY <1>1, <1>2

\* While its pid is in no call a session is in none either.
LEMMA CallsOfPid ==
    ASSUME IInv, stage = "serving", NEW p \in Pids, ~Busy(p)
    PROVE  /\ \A t \in Threads : ~Adds(t, p) /\ ~Removes(t, p)
           /\ \A s \in Scoped : session[s].pid = p =>
                \A t \in Threads : ~Holds(t, s) /\ ~Untokens(t, s)
  <1>1. \A t \in Threads : ~Adds(t, p) /\ ~Removes(t, p)
    BY DEF Busy, Adds, Removes
  <1>2. ASSUME NEW s \in Scoped, session[s].pid = p, NEW t \in Threads
        PROVE  ~Holds(t, s) /\ ~Untokens(t, s)
    <2>1. /\ AttachIsSound(t) /\ DetachIsSound(t) /\ FieldsAreSound(t)
          /\ call[t].op # "shutdown" /\ s # NoSession
      BY Numbering DEF IInv, CallIsSound, Ownership, WhileServing
    <2>2. call[t].op \in {"attach", "detach"} => call[t].req.pid # p
      BY DEF Busy
    <2> QED
      BY <1>2, <2>1, <2>2 DEF Holds, Untokens, AttachIsSound, DetachIsSound,
         FieldsAreSound
  <1> QED  BY <1>1, <1>2

\* A scoped session is in one hand until it is finalized and in none after,
\* and before the shutdown the registry is right about every pid whose client
\* is in no call (session_router.rs: attach_scoped, detach_scoped,
\* finalize_all).
THEOREM SessionsAreOwnedHolds == Spec => []SessionsAreOwned
  <1>1. IInv => SessionsAreOwned
    <2> SUFFICES ASSUME IInv PROVE SessionsAreOwned
      OBVIOUS
    <2>1. OneOwner
      BY OwnedIsOneOwner DEF OneOwner, IInv, Ownership, Scoped
    <2>2. RegistryIsSound
      <3> SUFFICES ASSUME stage = "serving" PROVE RegistryIsSound
        BY DEF RegistryIsSound
      <3>1. WhileServing
        BY DEF IInv, Ownership
      <3>2. \A p \in Pids : ~Busy(p) => (p \in ToSet(order) <=> byPid[p] # NoSession)
        BY <3>1, CallsOfPid DEF WhileServing, OrderIsSound
      <3>3. ASSUME NEW s \in Scoped, ~Busy(session[s].pid)
            PROVE  /\ session[s].open <=> byPid[session[s].pid] = s
                   /\ session[s].token # NoToken =>
                        (byToken[session[s].token] = s <=> session[s].open)
        <4>1. Owned(s) /\ TokenIsSound(s) /\ session[s].pid \in Pids
          BY <3>1 DEF IInv, Ownership, PidsAreSound, WhileServing
        <4>2. \A t \in Threads : ~Holds(t, s) /\ ~Untokens(t, s)
          BY <3>3, <4>1, CallsOfPid
        <4> QED  BY <4>1, <4>2 DEF Owned, Registered, TokenIsSound
      <3> QED
        BY <3>1, <3>2, <3>3 DEF RegistryIsSound, WhileServing, Distinct, Scoped
    <2> QED  BY <2>1, <2>2 DEF SessionsAreOwned
  <1> QED  BY Invariant, <1>1, PTL

\* An event reaches the recording it is of, and subscribers get what the
\* sessions hold (session_router.rs: route_for, append_internal).
THEOREM EventsGoHomeHolds == Spec => []EventsGoHome
  <1>1. IInv => EventsGoHome
    <2> SUFFICES ASSUME IInv PROVE EventsGoHome
      OBVIOUS
    <2>1. NoEventStrays
      BY DEF IInv, Delivery, RouteIsSound, NoEventStrays, Lasting, Matches, At
    <2> QED  BY <2>1 DEF EventsGoHome, IInv, Delivery
  <1> QED  BY Invariant, <1>1, PTL

=============================================================================
