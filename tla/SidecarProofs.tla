----------------------------- MODULE SidecarProofs -----------------------------
(***************************************************************************)
(* Proofs about the Python client: every event arrives once or is counted, *)
(* and none waits for a wake-up that nobody sends (SidecarClient); the     *)
(* program's handlers run as they would without it, and an instrumented    *)
(* library is patched however it is imported (SidecarHooks).               *)
(* Attribution: what its calls and evals are charged with.  The sweep      *)
(* keeps the calls that may still cover a time, in the order of entering,  *)
(* so its top is the innermost one; the tree's parents come before their   *)
(* children, so it holds each call once, and with it each buffer's time.   *)
(***************************************************************************)
EXTENDS SidecarClient, SidecarHooks, Attribution, FiniteSetTheorems, SequenceTheorems, WellFoundedInduction, TLAPS

Distinct(s) == \A i, j \in DOMAIN s : s[i] = s[j] => i = j

\* What is written together.
Written(w) == w = <<Report>> \/ w \in Seq(Events)

Queued == ToSet(queue)
Carried == ToSet(EventsOf(batch))
Arrived == ToSet(delivered)

SenderPlaces == {"none", "exited", "open", "hello", "sleep", "top", "take", "empty", "exchange",
                 "ack", "idle", "recheck", "select", "awake"}
EmitPlaces == {"out", "room", "append", "look", "wake"}
CloserPlaces == {"out", "wake", "join", "rejoin", "end", "count", "clear", "closed"}

PlacesOK ==
    /\ opened \in BOOLEAN /\ stopping \in BOOLEAN
    /\ droppedEmit \in Nat /\ droppedSend \in Nat
    /\ sender \in SenderPlaces /\ closer \in CloserPlaces
    /\ unread \in Nat /\ acks \in Nat
    /\ idle \in BOOLEAN /\ wake \in BOOLEAN
ContentsOK ==
    /\ queue \in Seq(Events) /\ delivered \in Seq(Events)
    /\ Written(batch) /\ Written(frames)
EmittersOK ==
    /\ emitter \in [Emitters -> [at : EmitPlaces, event : Events \cup {NoEvent}]]
    /\ \A t \in Emitters : emitter[t].at # "out" => emitter[t].event \in Events
    /\ emitted \in 0 .. MaxEvents
    /\ settled \subseteq Events
SidecarTypeOK == PlacesOK /\ ContentsOK /\ EmittersOK

\* Between room and append an event is the emitter's alone.
Pending(t) == emitter[t].at \in {"room", "append"}

\* An event is in one place: pending, queued, in the batch, or delivered, but
\* for the batch whose answers are read.
OnceInv ==
    /\ Distinct(queue) /\ Distinct(EventsOf(batch)) /\ Distinct(delivered)
    /\ Queued \cap Carried = {} /\ Queued \cap Arrived = {}
    /\ sender # "ack" => Carried \cap Arrived = {}
    /\ \A e \in Queued \cup Carried \cup Arrived : e <= emitted
    /\ \A t \in Emitters : Pending(t) =>
          /\ emitter[t].event \in 1 .. emitted
          /\ emitter[t].event \notin Queued \cup Carried \cup Arrived
    /\ \A t, u \in Emitters :
          Pending(t) /\ Pending(u) /\ emitter[t].event = emitter[u].event => t = u

\* The daemon has yet to read the rest of the batch, unless the connection is
\* cut; of the others the sender has read the Acks, or will.
ExchangeInv ==
    /\ Distinct(EventsOf(frames)) /\ ToSet(EventsOf(frames)) \subseteq Carried
    /\ ToSet(EventsOf(frames)) \cap Arrived = {}
    /\ sender \notin {"exchange", "ack"} => batch = <<>>
    /\ sender # "ack" => frames = <<>> /\ acks = 0
    /\ sender = "ack" =>
          /\ acks <= unread /\ unread <= Len(batch)
          /\ batch # <<Report>> =>
                \A i \in 1 .. Len(batch) - unread + acks : batch[i] \in Arrived
          /\ frames # <<>> =>
                /\ Len(frames) + acks = unread
                /\ \A i \in 1 .. Len(frames) : frames[i] = batch[Len(batch) - Len(frames) + i]

\* Events that close() has to account for, and those that are where they should
\* be; from the count of the queue to its end, an event in it is counted.
Due == settled \cup IF closer = "out"
                    THEN {emitter[t].event : t \in {u \in Emitters :
                             emitter[u].at \in {"look", "wake"}}}
                    ELSE {}
Safe == Carried \cup Arrived \cup IF closer = "clear" THEN {} ELSE Queued
CountInv == Due \subseteq Events /\ Cardinality(Due \ Safe) <= dropped

\* The sender is idle from SetIdle to Awake; a close() that has to wake it has
\* told it to stop.
WakeInv ==
    /\ idle <=> sender \in {"recheck", "select", "awake"}
    /\ closer \in {"wake", "join", "rejoin"} => stopping
    /\ NoLostWakeup

SidecarInv == SidecarTypeOK /\ OnceInv /\ ExchangeInv /\ CountInv /\ WakeInv

-----------------------------------------------------------------------------
(* Sequences.                                                              *)

\* Induction up to n, for a set: the least number outside it would have a
\* predecessor in it.
LEMMA InductionUpTo ==
  ASSUME NEW n \in Nat, NEW G, 0 \in G,
         \A m \in 0 .. n : m # n /\ m \in G => m + 1 \in G
  PROVE  0 .. n \subseteq G
<1> DEFINE T == (0 .. n) \ G
<1> SUFFICES ASSUME T # {} PROVE FALSE
  OBVIOUS
<1>1. T \subseteq Nat
  OBVIOUS
<1> HIDE DEF T
<1>2. PICK m \in T : \A k \in T : <<k, m>> \notin OpToRel(<, Nat)
  BY <1>1, WFMin, NatLessThanWellFounded, Zenon
<1>3. \A k \in T : ~(k < m)
  <2> SUFFICES ASSUME NEW k \in T PROVE ~(k < m)
    OBVIOUS
  <2> QED
    BY <1>1, <1>2, Zenon DEF OpToRel
<1>4. m \in 0 .. n /\ m \notin G
  BY DEF T
<1>5. m - 1 \in 0 .. n /\ m - 1 # n /\ (m - 1) + 1 = m /\ m - 1 < m
  BY ONLY <1>4, n \in Nat, 0 \in G
<1>6. m - 1 \in G
  BY <1>3, <1>5 DEF T
<1> QED
  BY <1>4, <1>5, <1>6

\* The empty sequence has nothing in it.
LEMMA NothingInEmpty ==
  ASSUME NEW S, NEW s \in Seq(S), Len(s) = 0
  PROVE  ToSet(s) = {} /\ Distinct(s)
<1>1. DOMAIN s = {}
  OBVIOUS
<1>2. ToSet(s) = {}
  BY <1>1 DEF ToSet
<1>3. Distinct(s)
  BY <1>1 DEF Distinct
<1> QED
  BY <1>2, <1>3

\* A sequence of elements of a set has elements of the set.
LEMMA ToSetOf ==
  ASSUME NEW S, NEW s \in Seq(S)
  PROVE  /\ ToSet(s) \subseteq S
         /\ \A i \in 1 .. Len(s) : s[i] \in ToSet(s)
         /\ \A e \in ToSet(s) : \E i \in 1 .. Len(s) : s[i] = e
<1>1. DOMAIN s = 1 .. Len(s) /\ \A i \in DOMAIN s : s[i] \in S
  OBVIOUS
<1> QED
  BY <1>1 DEF ToSet

\* What two sequences have in them, one after the other.
LEMMA Concatenated ==
  ASSUME NEW S, NEW s \in Seq(S), NEW r \in Seq(S)
  PROVE  /\ s \o r \in Seq(S)
         /\ ToSet(s \o r) = ToSet(s) \cup ToSet(r)
         /\ Distinct(s) /\ Distinct(r) /\ ToSet(s) \cap ToSet(r) = {} => Distinct(s \o r)
<1> DEFINE q == s \o r
<1>1. /\ q \in Seq(S) /\ Len(q) = Len(s) + Len(r) /\ Len(s) \in Nat /\ Len(r) \in Nat
      /\ \A i \in 1 .. Len(s) : q[i] = s[i]
      /\ \A i \in 1 .. Len(r) : q[Len(s) + i] = r[i]
      /\ \A i \in 1 .. Len(q) : i \in 1 .. Len(s) \/ i - Len(s) \in 1 .. Len(r)
      /\ DOMAIN q = 1 .. Len(q) /\ DOMAIN s = 1 .. Len(s) /\ DOMAIN r = 1 .. Len(r)
  OBVIOUS
<1> HIDE DEF q
<1>2. ToSet(s) \cup ToSet(r) \subseteq ToSet(q)
  <2>1. \A i \in 1 .. Len(s) : i \in 1 .. Len(q)
    BY <1>1
  <2>2. \A i \in 1 .. Len(r) : Len(s) + i \in 1 .. Len(q)
    BY <1>1
  <2> QED
    BY <1>1, <2>1, <2>2 DEF ToSet
<1>3. \A i \in 1 .. Len(q) : \/ i \in 1 .. Len(s) /\ q[i] = s[i]
                             \/ i - Len(s) \in 1 .. Len(r) /\ q[i] = r[i - Len(s)]
  <2> TAKE i \in 1 .. Len(q)
  <2>1. CASE i \in 1 .. Len(s)
    BY <2>1, <1>1
  <2>2. CASE i - Len(s) \in 1 .. Len(r)
    <3>1. Len(s) + (i - Len(s)) = i
      BY <1>1
    <3> QED
      BY <2>2, <3>1, <1>1
  <2> QED
    BY <2>1, <2>2, <1>1
<1>4. ToSet(q) \subseteq ToSet(s) \cup ToSet(r)
  BY <1>1, <1>3 DEF ToSet
<1>5. ASSUME Distinct(s), Distinct(r), ToSet(s) \cap ToSet(r) = {}
      PROVE  Distinct(q)
  <2> SUFFICES ASSUME NEW i \in 1 .. Len(q), NEW j \in 1 .. Len(q), q[i] = q[j]
               PROVE  i = j
    BY <1>1 DEF Distinct
  <2>1. CASE i \in 1 .. Len(s) /\ j \in 1 .. Len(s)
    BY <2>1, <1>1, <1>5 DEF Distinct
  <2>2. CASE i - Len(s) \in 1 .. Len(r) /\ j - Len(s) \in 1 .. Len(r)
    <3>1. q[i] = r[i - Len(s)] /\ q[j] = r[j - Len(s)]
      BY <2>2, <1>1, <1>3
    <3>2. i - Len(s) = j - Len(s)
      BY <2>2, <3>1, <1>1, <1>5 DEF Distinct
    <3> QED
      BY <3>2, <1>1
  <2>3. ~(\E k \in 1 .. Len(s), l \in 1 .. Len(r) : s[k] = r[l])
    BY <1>1, <1>5 DEF ToSet
  <2>4. CASE i \in 1 .. Len(s) /\ j - Len(s) \in 1 .. Len(r)
    <3>1. q[i] = s[i] /\ q[j] = r[j - Len(s)]
      BY <2>4, <1>1, <1>3
    <3> QED
      BY <2>3, <2>4, <3>1
  <2>5. CASE i - Len(s) \in 1 .. Len(r) /\ j \in 1 .. Len(s)
    <3>1. q[j] = s[j] /\ q[i] = r[i - Len(s)]
      BY <2>5, <1>1, <1>3
    <3> QED
      BY <2>3, <2>5, <3>1
  <2> QED
    BY <1>1, <2>1, <2>2, <2>4, <2>5
<1> QED
  BY <1>1, <1>2, <1>4, <1>5 DEF q

\* One more element.
LEMMA Appended ==
  ASSUME NEW S, NEW s \in Seq(S), NEW e \in S
  PROVE  /\ Append(s, e) \in Seq(S)
         /\ ToSet(Append(s, e)) = ToSet(s) \cup {e}
         /\ Distinct(s) /\ e \notin ToSet(s) => Distinct(Append(s, e))
<1> DEFINE r == Append(s, e)
<1>1. /\ r \in Seq(S) /\ DOMAIN r = DOMAIN s \cup {Len(s) + 1} /\ r[Len(s) + 1] = e
      /\ Len(s) + 1 \notin DOMAIN s
      /\ \A i \in DOMAIN s : r[i] = s[i]
  OBVIOUS
<1> HIDE DEF r
<1> QED
  BY <1>1 DEF ToSet, Distinct, r

\* The first k elements and the others.
LEMMA CutInTwo ==
  ASSUME NEW S, NEW s \in Seq(S), NEW k \in 0 .. Len(s)
  PROVE  LET first == SubSeq(s, 1, k)
             rest == SubSeq(s, k + 1, Len(s))
         IN  /\ first \in Seq(S) /\ rest \in Seq(S) /\ Len(first) = k
             /\ \A i \in 1 .. k : first[i] = s[i]
             /\ ToSet(s) = ToSet(first) \cup ToSet(rest)
             /\ Distinct(s) => /\ Distinct(first) /\ Distinct(rest)
                               /\ ToSet(first) \cap ToSet(rest) = {}
<1> DEFINE first == SubSeq(s, 1, k)
           rest == SubSeq(s, k + 1, Len(s))
<1>1. /\ first \in Seq(S) /\ Len(first) = k /\ DOMAIN first = 1 .. k
      /\ \A i \in 1 .. k : first[i] = s[i]
      /\ k \in Nat /\ Len(s) \in Nat /\ k <= Len(s) /\ DOMAIN s = 1 .. Len(s)
  OBVIOUS
<1>2. /\ rest \in Seq(S) /\ DOMAIN rest = 1 .. Len(s) - k
      /\ \A i \in 1 .. Len(s) - k : rest[i] = s[k + i]
  <2>1. CASE k = Len(s)
    BY <2>1
  <2>2. CASE k < Len(s)
    <3>1. /\ k + 1 \in Int /\ Len(s) \in Int /\ k + 1 <= Len(s)
          /\ \A i \in k + 1 .. Len(s) : s[i] \in S
      BY <1>1, <2>2
    <3>2. /\ rest \in Seq(S) /\ Len(rest) = Len(s) - (k + 1) + 1
          /\ \A i \in 1 .. Len(s) - (k + 1) + 1 : rest[i] = s[k + 1 + i - 1]
      BY <3>1, SubSeqProperties
    <3>3. Len(s) - (k + 1) + 1 = Len(s) - k /\ \A i \in Nat : k + 1 + i - 1 = k + i
      BY <1>1
    <3> HIDE DEF rest
    <3>4. DOMAIN rest = 1 .. Len(s) - k
      BY <3>2, <3>3
    <3> QED
      BY <3>2, <3>3, <3>4
  <2>3. k = Len(s) \/ k < Len(s)
    <3>1. k \in Nat /\ Len(s) \in Nat /\ k <= Len(s)
      BY <1>1
    <3> QED
      BY ONLY <3>1
  <2> HIDE DEF rest
  <2> QED
    BY <2>1, <2>2, <2>3
<1> HIDE DEF first, rest
<1>3. ASSUME NEW i \in 1 .. Len(s), i \notin 1 .. k
      PROVE  \E j \in 1 .. Len(s) - k : i = k + j
  <2>1. i - k \in 1 .. Len(s) - k /\ i = k + (i - k)
    BY <1>1, <1>3
  <2> QED
    BY <2>1
<1>4. \A i \in 1 .. Len(s) - k : k + i \in 1 .. Len(s) /\ k + i \notin 1 .. k
  BY <1>1
<1>5. \A i \in 1 .. k : i \in 1 .. Len(s)
  BY <1>1
<1>6. ToSet(s) = ToSet(first) \cup ToSet(rest)
  <2>1. ToSet(first) \cup ToSet(rest) \subseteq ToSet(s)
    BY <1>1, <1>2, <1>4, <1>5 DEF ToSet
  <2>2. ASSUME NEW i \in 1 .. Len(s) PROVE s[i] \in ToSet(first) \cup ToSet(rest)
    <3>1. CASE i \in 1 .. k
      BY <3>1, <1>1 DEF ToSet
    <3>2. CASE i \notin 1 .. k
      <4>1. PICK j \in 1 .. Len(s) - k : i = k + j
        BY <3>2, <1>3
      <4>2. rest[j] = s[i] /\ j \in DOMAIN rest
        BY <4>1, <1>2
      <4> QED
        BY <4>2 DEF ToSet
    <3> QED
      BY <3>1, <3>2
  <2> QED
    BY <2>1, <2>2, <1>1 DEF ToSet
<1>7. ASSUME Distinct(s)
      PROVE  /\ Distinct(first) /\ Distinct(rest) /\ ToSet(first) \cap ToSet(rest) = {}
  <2>1. Distinct(first)
    BY <1>1, <1>5, <1>7 DEF Distinct
  <2>2. Distinct(rest)
    <3> SUFFICES ASSUME NEW i \in 1 .. Len(s) - k, NEW j \in 1 .. Len(s) - k, rest[i] = rest[j]
                 PROVE  i = j
      BY <1>2 DEF Distinct
    <3>1. s[k + i] = s[k + j] /\ k + i \in DOMAIN s /\ k + j \in DOMAIN s
      BY <1>1, <1>2, <1>4
    <3>2. k + i = k + j
      BY <3>1, <1>7 DEF Distinct
    <3> QED
      BY <3>2, <1>1
  <2>3. ASSUME NEW i \in 1 .. k, NEW j \in 1 .. Len(s) - k, first[i] = rest[j]
        PROVE  FALSE
    <3>1. i \in DOMAIN s /\ k + j \in DOMAIN s /\ s[i] = s[k + j]
      BY <2>3, <1>1, <1>2, <1>4, <1>5
    <3>2. i = k + j
      BY <3>1, <1>7 DEF Distinct
    <3> QED
      BY <3>2, <1>4
  <2> QED
    BY <1>1, <1>2, <2>1, <2>2, <2>3 DEF ToSet
<1> QED
  BY <1>1, <1>2, <1>6, <1>7 DEF first, rest

\* A sequence has no more elements than its length.
LEMMA CountOfSeq ==
  ASSUME NEW S, NEW s \in Seq(S)
  PROVE  IsFiniteSet(ToSet(s)) /\ Cardinality(ToSet(s)) <= Len(s) /\ Cardinality(ToSet(s)) \in Nat
<1>1. s \in Surjection(1 .. Len(s), ToSet(s))
  BY DEF ToSet, Surjection
<1>2. IsFiniteSet(1 .. Len(s)) /\ Cardinality(1 .. Len(s)) = Len(s)
  <2>1. Len(s) \in Nat
    OBVIOUS
  <2> QED
    BY <2>1, FS_Interval
<1>3. IsFiniteSet(ToSet(s)) /\ Cardinality(ToSet(s)) <= Len(s)
  BY <1>1, <1>2, FS_Surjection
<1> QED
  BY <1>3, FS_CardinalityType

\* What is missing now was missing before, or is counted now.
LEMMA CountGrows ==
  ASSUME NEW A, NEW B, NEW C, NEW m \in Nat, NEW n \in Nat,
         IsFiniteSet(A), IsFiniteSet(C), B \subseteq A \cup C,
         Cardinality(A) <= m, Cardinality(C) <= n
  PROVE  Cardinality(B) <= m + n
<1>1. /\ IsFiniteSet(A \cup C)
      /\ Cardinality(A \cup C) = Cardinality(A) + Cardinality(C) - Cardinality(A \cap C)
  BY FS_Union
<1>2. IsFiniteSet(A \cap C) /\ IsFiniteSet(B) /\ Cardinality(B) <= Cardinality(A \cup C)
  BY <1>1, FS_Subset
<1>3. /\ Cardinality(A) \in Nat /\ Cardinality(C) \in Nat /\ Cardinality(A \cap C) \in Nat
      /\ Cardinality(B) \in Nat /\ Cardinality(A \cup C) \in Nat
  BY <1>1, <1>2, FS_CardinalityType
<1> QED
  BY <1>1, <1>2, <1>3

-----------------------------------------------------------------------------
(* The client's sequences.                                                 *)

\* What could not be encoded is left out, the rest is in order.
LEMMA EncodedProperties ==
    ASSUME NEW S, Taken \in Seq(S), NEW bad
    PROVE  /\ Encoded(bad) \in Seq(S)
           /\ ToSet(Encoded(bad)) = ToSet(Taken) \ bad
           /\ Distinct(Taken) => Distinct(Encoded(bad))
<1> DEFINE n == Len(Taken)
           Kept(g, i) == IF i = 0 THEN <<>>
                         ELSE IF Taken[i] \in bad THEN g[i - 1]
                              ELSE Append(g[i - 1], Taken[i])
           K == CHOOSE g : g = [i \in 0 .. n |-> Kept(g, i)]
<1>1. Encoded(bad) = K[n]
  BY DEF Encoded
<1>2. n \in Nat
  OBVIOUS
<1>3. \E g : g = [i \in 0 .. n |-> Kept(g, i)]
  <2> DEFINE G == {m \in 0 .. n : \E g : g = [i \in 0 .. m |-> Kept(g, i)]}
  <2>1. 0 \in G
    <3> DEFINE g == [i \in 0 .. 0 |-> <<>>]
    <3>1. g = [i \in 0 .. 0 |-> Kept(g, i)]
      OBVIOUS
    <3>2. 0 \in 0 .. n
      BY <1>2
    <3> QED  BY <3>1, <3>2, Zenon
  <2>2. ASSUME NEW m \in 0 .. n, m # n, m \in G PROVE m + 1 \in G
    <3>1. PICK g : g = [i \in 0 .. m |-> Kept(g, i)]
      BY <2>2, Zenon
    <3> DEFINE h == [i \in 0 .. m + 1 |-> Kept(g, i)]
    <3>2. ASSUME NEW i \in 0 .. m + 1 PROVE Kept(g, i) = Kept(h, i)
      <4>1. CASE i = 0
        BY <4>1, Zenon
      <4>2. CASE i # 0
        <5>1. i - 1 \in 0 .. m /\ i - 1 \in 0 .. m + 1
          BY <4>2
        <5>2. h[i - 1] = Kept(g, i - 1)
          BY <5>1, Zenon
        <5>3. g[i - 1] = Kept(g, i - 1)
          BY <3>1, <5>1, Zenon
        <5> QED  BY <5>2, <5>3, Zenon
      <4> QED  BY <4>1, <4>2
    <3>3. h = [i \in 0 .. m + 1 |-> Kept(h, i)]
      BY <3>2, Zenon
    <3>4. m + 1 \in 0 .. n
      BY <2>2, <1>2
    <3> QED  BY <3>3, <3>4, Zenon
  <2>3. 0 .. n \subseteq G
    <3> HIDE DEF G
    <3> QED  BY <2>1, <2>2, <1>2, InductionUpTo
  <2>4. n \in 0 .. n
    BY <1>2
  <2> QED  BY <2>3, <2>4, Zenon
<1>4. K = [i \in 0 .. n |-> Kept(K, i)]
  BY <1>3, Zenon
<1> HIDE DEF K
<1>5. \A i \in 0 .. n : K[i] = Kept(K, i)
  BY <1>4, Zenon
<1>6. /\ K[0] = <<>>
      /\ \A i \in 1 .. n : K[i] = IF Taken[i] \in bad THEN K[i - 1]
                                  ELSE Append(K[i - 1], Taken[i])
  <2>1. 0 \in 0 .. n /\ \A i \in 1 .. n : i \in 0 .. n /\ i # 0
    BY <1>2
  <2> QED  BY <1>5, <2>1, Zenon
<1> DEFINE Good(i) ==
      /\ K[i] \in Seq(S)
      /\ ToSet(K[i]) = {Taken[j] : j \in 1 .. i} \ bad
      /\ Distinct(Taken) => Distinct(K[i])
           G == {m \in 0 .. n : Good(m)}
<1>7. 0 \in G
  <2>1. 0 \in 0 .. n /\ 1 .. 0 = {}
    BY <1>2
  <2>2. Good(0)
    <3>1. K[0] = <<>> /\ ToSet(<<>>) = {} /\ Distinct(<<>>) /\ <<>> \in Seq(S)
      BY <1>6 DEF ToSet, Distinct
    <3> QED  BY <3>1, <2>1
  <2> QED  BY <2>1, <2>2, Zenon
<1>8. ASSUME NEW m \in 0 .. n, m # n, m \in G PROVE m + 1 \in G
  <2> DEFINE s == K[m]
  <2>1. /\ m + 1 \in 1 .. n /\ (m + 1) - 1 = m /\ m + 1 \in 0 .. n
        /\ 1 .. m + 1 = (1 .. m) \cup {m + 1} /\ m + 1 \notin 1 .. m
    <3> HIDE DEF G
    <3> QED  BY <1>2, <1>8
  <2>2. s \in Seq(S) /\ ToSet(s) = {Taken[j] : j \in 1 .. m} \ bad
        /\ (Distinct(Taken) => Distinct(s))
    BY <1>8, Zenon
  <2>3. K[m + 1] = IF Taken[m + 1] \in bad THEN s ELSE Append(s, Taken[m + 1])
    BY <2>1, <1>6
  <2>4. Taken[m + 1] \in S
    BY <2>1
  <2> HIDE DEF s
  <2>5. {Taken[j] : j \in 1 .. m + 1}
          = {Taken[j] : j \in 1 .. m} \cup {Taken[m + 1]}
    BY <2>1
  <2>6. CASE Taken[m + 1] \in bad
    <3>1. Good(m + 1)
      BY <2>2, <2>3, <2>5, <2>6
    <3> QED  BY <3>1, <2>1
  <2>7. CASE Taken[m + 1] \notin bad
    <3>1. K[m + 1] = Append(s, Taken[m + 1])
      BY <2>3, <2>7
    <3>2. K[m + 1] \in Seq(S)
      BY <3>1, <2>2, <2>4
    <3>3. ToSet(K[m + 1]) = ToSet(s) \cup {Taken[m + 1]}
      BY <3>1, <2>2, <2>4, Appended
    <3>4. ToSet(K[m + 1]) = {Taken[j] : j \in 1 .. m + 1} \ bad
      BY <2>2, <2>7, <2>5, <3>3
    <3>5. ASSUME Distinct(Taken) PROVE Distinct(K[m + 1])
      <4>1. \A j \in DOMAIN s : s[j] # Taken[m + 1]
        <5> SUFFICES ASSUME NEW j \in DOMAIN s, s[j] = Taken[m + 1]
                     PROVE  FALSE
          OBVIOUS
        <5>1. s[j] \in ToSet(s)
          BY DEF ToSet
        <5>2. PICK k \in 1 .. m : Taken[k] = Taken[m + 1]
          BY <5>1, <2>2
        <5>3. k # m + 1 /\ k \in DOMAIN Taken /\ m + 1 \in DOMAIN Taken
          BY <2>1
        <5> QED  BY <5>2, <5>3, <3>5 DEF Distinct
      <4>2. Distinct(s)
        BY <2>2, <3>5
      <4> QED  BY <4>1, <4>2, <3>1, <2>2, <2>4 DEF Distinct
    <3> QED  BY <3>2, <3>4, <3>5, <2>1, Zenon
  <2> QED  BY <2>6, <2>7
<1>9. 0 .. n \subseteq G
  <2> HIDE DEF G
  <2> QED  BY <1>2, <1>7, <1>8, InductionUpTo
<1>10. Good(n)
  <2>1. n \in 0 .. n
    BY <1>2
  <2> QED  BY <2>1, <1>9, Zenon
<1>11. ToSet(Taken) = {Taken[j] : j \in 1 .. n}
  BY DEF ToSet
<1> QED  BY <1>1, <1>10, <1>11

\* The Report is not an event.
LEMMA ReportIsNoEvent == <<Report>> \notin Seq(Events)
<1> SUFFICES ASSUME <<Report>> \in Seq(Events) PROVE FALSE
  OBVIOUS
<1>1. Report \in Events
  OBVIOUS
<1> QED
  BY <1>1, SidecarAssumption DEF Events

\* What is written together has events in it, or none.
LEMMA EventsWritten ==
  ASSUME NEW w, Written(w)
  PROVE  /\ EventsOf(w) \in Seq(Events) /\ Len(EventsOf(w)) <= Len(w)
         /\ w # <<Report>> => w \in Seq(Events) /\ EventsOf(w) = w
         /\ w = <<Report>> => EventsOf(w) = <<>>
BY ReportIsNoEvent DEF Written, EventsOf

\* Events that are read of what was written come after those delivered before:
\* none twice if none of those written had been delivered.
LEMMA Delivers ==
  ASSUME NEW w, Written(w), NEW read \in Prefixes(w),
         delivered \in Seq(Events), delivered' = delivered \o EventsOf(read)
  PROVE  /\ delivered' \in Seq(Events)
         /\ Arrived \subseteq Arrived' /\ Arrived' \subseteq Arrived \cup ToSet(EventsOf(w))
         /\ /\ Distinct(delivered) /\ Distinct(EventsOf(w))
            /\ Arrived \cap ToSet(EventsOf(w)) = {}
            => Distinct(delivered')
<1>1. PICK k \in 0 .. Len(w) : read = SubSeq(w, 1, k)
  BY DEF Prefixes
<1>2. /\ EventsOf(read) \in Seq(Events) /\ ToSet(EventsOf(read)) \subseteq ToSet(EventsOf(w))
      /\ Distinct(EventsOf(w)) => Distinct(EventsOf(read))
  <2>1. CASE w # <<Report>>
    <3>1. w \in Seq(Events) /\ EventsOf(w) = w
      BY <2>1, EventsWritten
    <3>2. /\ read \in Seq(Events) /\ ToSet(read) \subseteq ToSet(w)
          /\ Distinct(w) => Distinct(read)
      BY <1>1, <3>1, CutInTwo
    <3>3. EventsOf(read) = read
      BY <3>2, ReportIsNoEvent DEF EventsOf
    <3> QED
      BY <3>1, <3>2, <3>3
  <2>2. CASE w = <<Report>>
    <3>1. w \in Seq({Report}) /\ Len(w) = 1 /\ w[1] = Report
      BY <2>2
    <3>2. read \in Seq({Report}) /\ Len(read) \in {0, 1} /\ (Len(read) = 1 => read[1] = Report)
      BY <1>1, <3>1, CutInTwo
    <3>5. read = <<Report>> \/ read = <<>>
      BY <3>2
    <3>3. EventsOf(read) = <<>>
      BY <3>5 DEF EventsOf
    <3>4. <<>> \in Seq(Events) /\ Len(<<>>) = 0
      OBVIOUS
    <3> QED
      BY <3>3, <3>4, NothingInEmpty
  <2> QED
    BY <2>1, <2>2
<1> QED
  BY <1>2, Concatenated DEF Arrived

\* What may have been delivered of what was written.
DeliversOf(w) ==
    /\ delivered' \in Seq(Events)
    /\ Arrived \subseteq Arrived' /\ Arrived' \subseteq Arrived \cup ToSet(EventsOf(w))
    /\ /\ Distinct(delivered) /\ Distinct(EventsOf(w))
       /\ Arrived \cap ToSet(EventsOf(w)) = {}
       => Distinct(delivered')

\* Nothing written, nothing delivered.
LEMMA NothingWritten ==
  /\ Written(<<>>) /\ EventsOf(<<>>) = <<>>
  /\ ToSet(EventsOf(<<>>)) = {} /\ Distinct(EventsOf(<<>>))
<1>1. <<>> \in Seq(Events) /\ Len(<<>>) = 0
  OBVIOUS
<1>2. EventsOf(<<>>) = <<>>
  BY DEF EventsOf
<1> QED
  BY <1>1, <1>2, NothingInEmpty DEF Written

\* A socket that is dropped delivers a part of what was written to it.
LEMMA SocketDropped ==
  ASSUME delivered \in Seq(Events), NEW w, Written(w), DropSocket(w)
  PROVE  DeliversOf(w) /\ frames' = <<>> /\ acks' = 0
<1>1. CASE peer /\ smeltrd = "up"
  BY <1>1, Delivers DEF DropSocket, DeliversOf
<1>2. CASE ~(peer /\ smeltrd = "up")
  <2>1. DeliversOf(<<>>)
    BY <1>2, Delivers, NothingWritten DEF DropSocket, DeliversOf
  <2> QED
    BY <2>1, NothingWritten DEF DropSocket, DeliversOf
<1> QED
  BY <1>1, <1>2

\* close() that shuts the socket down, too.
LEMMA SocketShutDown ==
  ASSUME delivered \in Seq(Events), Written(frames), Join
  PROVE  DeliversOf(frames)
<1>1. CASE UNCHANGED connection
  <2>1. delivered' = delivered
    BY <1>1 DEF connection
  <2> QED
    BY <2>1 DEF DeliversOf, Arrived
<1>2. CASE \E read \in Prefixes(IF smeltrd = "up" THEN frames ELSE <<>>) :
               delivered' = delivered \o EventsOf(read)
  <2>1. CASE smeltrd = "up"
    BY <1>2, <2>1, Delivers DEF DeliversOf
  <2>2. CASE smeltrd # "up"
    <3>1. DeliversOf(<<>>)
      BY <1>2, <2>2, Delivers, NothingWritten DEF DeliversOf
    <3> QED
      BY <3>1, NothingWritten DEF DeliversOf
  <2> QED
    BY <2>1, <2>2
<1> QED
  BY <1>1, <1>2 DEF Join

\* The daemon takes the frame at the head.
LEMMA FrameServed ==
  ASSUME delivered \in Seq(Events), Written(frames), Serve
  PROVE  /\ DeliversOf(frames) /\ Written(frames')
         /\ Distinct(EventsOf(frames)) =>
               /\ Distinct(EventsOf(frames')) /\ ToSet(EventsOf(frames')) \cap Arrived' \subseteq Arrived
         /\ ToSet(EventsOf(frames')) \subseteq ToSet(EventsOf(frames))
         /\ Len(frames) \in Nat \ {0} /\ Len(frames') = Len(frames) - 1
         /\ \A i \in 1 .. Len(frames') : frames'[i] = frames[i + 1]
         /\ frames # <<Report>> => frames[1] \in Arrived'
<1>1. frames # <<>> /\ frames' = Tail(frames) /\ delivered' = delivered \o EventsOf(<<Head(frames)>>)
  BY DEF Serve
<1>2. CASE frames = <<Report>>
  <2>1. /\ Head(frames) = Report /\ Tail(frames) = <<>> /\ Len(frames) = 1 /\ Len(<<>>) = 0
        /\ <<>> \in Seq(Events)
    BY <1>2
  <2>2. EventsOf(<<Head(frames)>>) = <<>> /\ EventsOf(frames) = <<>>
    BY <1>2, <2>1 DEF EventsOf
  <2>3. delivered' = delivered
    BY <1>1, <2>2
  <2>4. DeliversOf(frames)
    BY <2>3 DEF DeliversOf, Arrived
  <2>5. frames' = <<>> /\ Len(frames') = 0 /\ Len(frames) = 1
    BY <1>1, <2>1
  <2>6. /\ Written(frames') /\ ToSet(EventsOf(frames')) = {} /\ Distinct(EventsOf(frames'))
    BY <2>5, NothingWritten
  <2> QED
    BY <1>2, <2>4, <2>5, <2>6
<1>3. CASE frames # <<Report>>
  <2>1. frames \in Seq(Events) /\ EventsOf(frames) = frames
    BY <1>3, EventsWritten
  <2>2. /\ Head(frames) \in Events /\ Head(frames) = frames[1] /\ Tail(frames) \in Seq(Events)
        /\ Len(frames) \in Nat \ {0} /\ Len(Tail(frames)) = Len(frames) - 1
        /\ \A i \in 1 .. Len(Tail(frames)) : Tail(frames)[i] = frames[i + 1]
    BY <1>1, <2>1, HeadTailProperties
  <2> DEFINE one == <<Head(frames)>>
  <2>3. /\ one \in Seq(Events) /\ ToSet(one) = {Head(frames)} /\ Distinct(one)
        /\ EventsOf(one) = one
    <3>1. /\ one \in Seq(Events) /\ DOMAIN one = {1} /\ one[1] = Head(frames)
      BY <2>2
    <3> HIDE DEF one
    <3> QED
      BY <3>1, ReportIsNoEvent DEF ToSet, Distinct, EventsOf
  <2>4. EventsOf(Tail(frames)) = Tail(frames)
    BY <2>2, ReportIsNoEvent DEF EventsOf
  <2> DEFINE r == Tail(frames)
  <2>5. /\ ToSet(r) \subseteq ToSet(frames) /\ frames[1] \in ToSet(frames)
        /\ Distinct(frames) => Distinct(r) /\ frames[1] \notin ToSet(r)
    <3>1. /\ DOMAIN r = 1 .. Len(r) /\ DOMAIN frames = 1 .. Len(frames)
          /\ Len(r) = Len(frames) - 1 /\ Len(frames) \in Nat \ {0}
          /\ \A i \in 1 .. Len(r) : r[i] = frames[i + 1]
      BY <2>1, <2>2
    <3> HIDE DEF r
    <3>2. \A i \in 1 .. Len(r) : i + 1 \in DOMAIN frames /\ i + 1 # 1
      BY <3>1
    <3>3. 1 \in DOMAIN frames
      BY <3>1
    <3>4. ToSet(r) \subseteq ToSet(frames) /\ frames[1] \in ToSet(frames)
      BY <3>1, <3>2, <3>3 DEF ToSet
    <3>5. ASSUME Distinct(frames) PROVE Distinct(r)
      <4> SUFFICES ASSUME NEW i \in 1 .. Len(r), NEW j \in 1 .. Len(r), r[i] = r[j]
                   PROVE  i = j
        BY <3>1 DEF Distinct
      <4>1. i + 1 = j + 1
        BY <3>1, <3>2, <3>5 DEF Distinct
      <4> QED
        BY <4>1
    <3>6. ASSUME Distinct(frames) PROVE frames[1] \notin ToSet(r)
      BY <3>1, <3>2, <3>3, <3>6 DEF Distinct, ToSet
    <3> QED
      BY <3>4, <3>5, <3>6
  <2>6. /\ delivered' \in Seq(Events) /\ Arrived' = Arrived \cup {frames[1]}
        /\ Distinct(delivered) /\ frames[1] \notin Arrived => Distinct(delivered')
    <3>1. delivered' = delivered \o one /\ frames[1] = Head(frames)
      BY <1>1, <2>2, <2>3
    <3> HIDE DEF one
    <3>2. /\ delivered' \in Seq(Events)
          /\ ToSet(delivered') = ToSet(delivered) \cup ToSet(one)
          /\ Distinct(delivered) /\ Distinct(one) /\ ToSet(delivered) \cap ToSet(one) = {}
             => Distinct(delivered')
      BY <2>3, <3>1, Concatenated
    <3> QED
      BY <2>3, <3>1, <3>2 DEF Arrived
  <2>7. DeliversOf(frames)
    BY <2>1, <2>5, <2>6 DEF DeliversOf
  <2>8. frames' = r /\ Written(frames') /\ EventsOf(frames') = r
    BY <1>1, <2>2, <2>4 DEF Written
  <2>9. Len(frames') = Len(frames) - 1 /\ \A i \in 1 .. Len(frames') : frames'[i] = frames[i + 1]
    BY <2>2, <2>8
  <2>10. Distinct(frames) => ToSet(r) \cap Arrived' \subseteq Arrived
    BY <2>5, <2>6
  <2> HIDE DEF r
  <2> QED
    BY <1>3, <2>1, <2>2, <2>5, <2>6, <2>7, <2>8, <2>9, <2>10
<1> QED
  BY <1>2, <1>3

\* What the sender takes off the queue, and what it leaves.
LEMMA QueueCut ==
  ASSUME queue \in Seq(Events)
  PROVE  LET left == SubSeq(queue, Len(Taken) + 1, Len(queue))
         IN  /\ Taken \in Seq(Events) /\ left \in Seq(Events)
             /\ Queued = ToSet(Taken) \cup ToSet(left)
             /\ Distinct(queue) => /\ Distinct(Taken) /\ Distinct(left)
                                   /\ ToSet(Taken) \cap ToSet(left) = {}
<1> DEFINE k == IF Len(queue) < BatchMax THEN Len(queue) ELSE BatchMax
<1>1. k \in 0 .. Len(queue)
  BY SidecarAssumption
<1> HIDE DEF k
<1>2. Taken = SubSeq(queue, 1, k)
  BY DEF Taken, k
<1>3. Len(Taken) = k
  BY <1>1, <1>2, CutInTwo
<1> QED
  BY <1>1, <1>2, <1>3, CutInTwo DEF Queued

-----------------------------------------------------------------------------
(* Types.                                                                  *)

\* The steps of a thread that emits.
LEMMA EmittersTyped ==
  ASSUME EmittersOK, [SidecarNext]_sidecarVars
  PROVE  EmittersOK'
<1> USE SidecarAssumption DEF EmittersOK
<1>1. ASSUME UNCHANGED <<emitter, emitted, settled>> PROVE EmittersOK'
  BY <1>1
<1>2. ASSUME NEW t \in Emitters, emitter[t].at \in EmitPlaces, emitter[t].at # "out",
             NEW place \in EmitPlaces \ {"out"}, Goto(t, place),
             UNCHANGED <<emitted, settled>>
      PROVE  EmittersOK'
  BY <1>2 DEF Goto
<1>3. ASSUME NEW t \in Emitters, emitter[t].at # "out", Return(t), UNCHANGED emitted
      PROVE  EmittersOK'
  BY <1>3 DEF Return, Quiet, EmitPlaces
<1>4. ASSUME NEW t \in Emitters, Emit(t) PROVE EmittersOK'
  <2>1. emitted' \in Events /\ emitted' \in 0 .. MaxEvents /\ emitted' = emitted + 1
    BY <1>4 DEF Emit, Events
  <2>2. emitter' = [emitter EXCEPT ![t] = [at |-> "room", event |-> emitted']]
        /\ settled' = settled
    BY <1>4, <2>1 DEF Emit
  <2> QED
    BY <2>1, <2>2 DEF EmitPlaces
<1>5. ASSUME NEW t \in Emitters, EmitStep(t) PROVE EmittersOK'
  <2>1. CASE CheckRoom(t)
    BY <2>1, <1>2, <1>3 DEF CheckRoom, EmitPlaces
  <2>2. CASE AppendEvent(t)
    BY <2>2, <1>2 DEF AppendEvent, EmitPlaces
  <2>3. CASE Look(t)
    BY <2>3, <1>2, <1>3 DEF Look, EmitPlaces
  <2>4. CASE Wake(t)
    BY <2>4, <1>3 DEF Wake, EmitPlaces
  <2> QED
    BY <1>5, <2>1, <2>2, <2>3, <2>4 DEF EmitStep
<1>6. CASE SenderStep
  BY <1>6, <1>1 DEF SenderStep, SenderRest, users, Open, HelloOk, HelloFails, Sleep, Top, TakeBatch, Empty,
     NoSocket, WriteFrames, WriteFails, ReadAck, LastAck, ReadFails, SetIdle, Recheck, Select, Awake
<1>7. CASE Hello \/ CloseBegin \/ CloseStep \/ Serve \/ Die \/ Restart
  BY <1>7, <1>1 DEF Hello, users, CloseBegin, CloseRest, CloseStep, CloseWake, Join, EndClose,
     CountQueue, ClearQueue, Serve, Die, Restart, DaemonRest
<1>8. CASE UNCHANGED sidecarVars
  BY <1>8, <1>1 DEF sidecarVars, users
<1> QED
  BY <1>4, <1>5, <1>6, <1>7, <1>8 DEF SidecarNext

\* Flags, counters and places.
LEMMA PlacesTyped ==
  ASSUME SidecarTypeOK, [SidecarNext]_sidecarVars
  PROVE  PlacesOK'
<1>0. PlacesOK /\ Len(batch) \in Nat /\ Len(queue) \in Nat /\ Len(EventsOf(batch)) \in Nat
  <2>1. Len(batch) \in Nat
    BY DEF SidecarTypeOK, ContentsOK, Written
  <2>2. Len(EventsOf(batch)) \in Nat
    BY EventsWritten DEF SidecarTypeOK, ContentsOK
  <2> QED
    BY <2>1, <2>2 DEF SidecarTypeOK, ContentsOK
<1> USE <1>0 DEF PlacesOK
<1>1. CASE UNCHANGED sidecarVars
  BY <1>1 DEF sidecarVars, flags, counters, senderVars, signal, connection, users
<1>2. ASSUME NEW t \in Emitters, Emit(t) \/ EmitStep(t)
      PROVE  PlacesOK'
  <2> USE DEF flags, counters, senderVars, signal, connection, SenderPlaces
  <2>1. CASE Emit(t)
    BY <2>1 DEF Emit
  <2>2. CASE CheckRoom(t)
    BY <2>2 DEF CheckRoom
  <2>3. CASE AppendEvent(t)
    BY <2>3 DEF AppendEvent
  <2>4. CASE Look(t)
    BY <2>4 DEF Look
  <2>5. CASE Wake(t)
    BY <2>5 DEF Wake
  <2> QED
    BY <1>2, <2>1, <2>2, <2>3, <2>4, <2>5 DEF EmitStep
<1>3. CASE SenderStep
  <2> USE DEF SenderRest, flags, counters, signal, connection, users, At, Step, SenderPlaces
  <2>1. CASE Open \/ HelloOk \/ Sleep \/ Top \/ Empty
    BY <2>1 DEF Open, HelloOk, Sleep, Empty, Top
  <2>2. CASE HelloFails
    BY <2>2 DEF HelloFails, DropSocket
  <2>3. CASE TakeBatch
    <3>1. PICK bad \in SUBSET ToSet(Taken) : droppedSend' = droppedSend + Cardinality(bad)
      BY <2>3 DEF TakeBatch
    <3>2. Cardinality(bad) \in Nat
      BY <3>1, QueueCut, CountOfSeq, FS_Subset, FS_CardinalityType DEF SidecarTypeOK, ContentsOK
    <3> QED
      BY <2>3, <3>1, <3>2 DEF TakeBatch
  <2>4. CASE NoSocket
    BY <2>4 DEF NoSocket, GiveUp
  <2>5. CASE WriteFails
    BY <2>5 DEF WriteFails, GiveUp, DropSocket
  <2>6. CASE ReadFails
    BY <2>6 DEF ReadFails, GiveUp, DropSocket
  <2>7. CASE WriteFrames \/ ReadAck \/ LastAck
    BY <2>7 DEF WriteFrames, ReadAck, LastAck
  <2>8. CASE SetIdle \/ Recheck \/ Select \/ Awake
    BY <2>8 DEF SetIdle, Recheck, Select, Awake
  <2> QED
    BY <1>3, <2>1, <2>2, <2>3, <2>4, <2>5, <2>6, <2>7, <2>8 DEF SenderStep
<1>4. CASE Hello
  BY <1>4 DEF Hello, DropSocket, flags, counters, senderVars, signal, users
<1>5. CASE CloseBegin \/ CloseStep
  <2> USE DEF CloseRest, flags, counters, senderVars, signal, connection, CloserPlaces, CloserAt
  <2>1. CASE CloseBegin \/ CloseWake \/ EndClose
    BY <2>1 DEF CloseBegin, CloseWake, EndClose
  <2>2. CASE Join
    BY <2>2 DEF Join
  <2>3. CASE CountQueue
    BY <2>3 DEF CountQueue
  <2>4. CASE ClearQueue
    BY <2>4 DEF ClearQueue, DropSocket
  <2> QED
    BY <1>5, <2>1, <2>2, <2>3, <2>4 DEF CloseStep
<1>6. CASE Serve \/ Die \/ Restart
  BY <1>6 DEF Serve, Die, Restart, DaemonRest, flags, counters, senderVars, signal, users
<1> QED
  BY <1>1, <1>2, <1>3, <1>4, <1>5, <1>6 DEF SidecarNext

\* What is queued, in the batch, unread and delivered.  The daemon has nothing to
\* read before the sender has written.
LEMMA ContentsTyped ==
  ASSUME SidecarTypeOK, ExchangeInv, [SidecarNext]_sidecarVars
  PROVE  ContentsOK'
<1>0. queue \in Seq(Events) /\ delivered \in Seq(Events) /\ Written(batch) /\ Written(frames)
      /\ Written(<<>>)
  BY NothingWritten DEF SidecarTypeOK, ContentsOK
<1>1. ASSUME queue' \in Seq(Events), delivered' \in Seq(Events), batch' \in {batch, <<>>, <<Report>>},
             frames' \in {frames, <<>>, batch}
      PROVE  ContentsOK'
  BY <1>0, <1>1 DEF ContentsOK, Written
<1>2. CASE UNCHANGED sidecarVars
  BY <1>0, <1>1, <1>2 DEF sidecarVars, senderVars, connection
<1>3. ASSUME NEW t \in Emitters, Emit(t) \/ EmitStep(t)
      PROVE  ContentsOK'
  <2>1. CASE AppendEvent(t)
    <3>1. emitter[t].event \in Events
      BY <2>1 DEF AppendEvent, SidecarTypeOK, EmittersOK
    <3> QED
      BY <2>1, <3>1, <1>0, <1>1, Appended DEF AppendEvent, senderVars, connection
  <2>2. CASE Emit(t) \/ CheckRoom(t) \/ Look(t) \/ Wake(t)
    BY <2>2, <1>0, <1>1 DEF Emit, CheckRoom, Look, Wake, senderVars, connection
  <2> QED
    BY <1>3, <2>1, <2>2 DEF EmitStep
<1>4. CASE SenderStep
  <2>1. CASE Open \/ HelloOk \/ Sleep \/ Top \/ Empty \/ SetIdle \/ Recheck \/ Select \/ Awake
    BY <2>1, <1>0, <1>1 DEF Open, HelloOk, Sleep, Top, Empty, SetIdle, Recheck, Select, Awake, connection
  <2>2. CASE TakeBatch
    <3>1. PICK bad \in SUBSET ToSet(Taken) : batch' = Encoded(bad)
      BY <2>2 DEF TakeBatch
    <3>2. batch' \in Seq(Events) /\ queue' \in Seq(Events)
      BY <2>2, <3>1, <1>0, QueueCut, EncodedProperties DEF TakeBatch
    <3> QED
      BY <2>2, <3>2, <1>0 DEF TakeBatch, connection, ContentsOK, Written
  <2>3. CASE NoSocket \/ WriteFails \/ ReadFails
    <3>1. GiveUp /\ frames' \in {frames, <<>>} /\ delivered' \in Seq(Events)
      BY <2>3, <1>0, SocketDropped DEF NoSocket, WriteFails, ReadFails, DeliversOf
    <3> QED
      BY <3>1, <1>0, <1>1 DEF GiveUp
  <2>4. CASE HelloFails
    BY <2>4, <1>0, <1>1, SocketDropped DEF HelloFails, DeliversOf
  <2>5. CASE WriteFrames
    <3>1. frames' = batch
      BY <2>5, <1>0 DEF WriteFrames, ExchangeInv, Written, At
    <3> QED
      BY <2>5, <3>1, <1>0, <1>1 DEF WriteFrames
  <2>6. CASE ReadAck \/ LastAck
    BY <2>6, <1>0, <1>1 DEF ReadAck, LastAck
  <2> QED
    BY <1>4, <2>1, <2>2, <2>3, <2>4, <2>5, <2>6 DEF SenderStep
<1>5. CASE Hello
  <2>1. CASE ~sock
    BY <1>5, <2>1, <1>0, <1>1 DEF Hello, senderVars
  <2>2. CASE sock
    BY <1>5, <2>2, <1>0, <1>1, SocketDropped DEF Hello, DeliversOf, senderVars
  <2> QED
    BY <2>1, <2>2
<1>6. CASE CloseBegin \/ CloseStep
  <2>1. CASE CloseBegin \/ CloseWake \/ EndClose \/ CountQueue
    BY <2>1, <1>0, <1>1 DEF CloseBegin, CloseWake, EndClose, CountQueue, CloseRest, senderVars, connection
  <2>2. CASE Join
    BY <2>2, <1>0, <1>1, SocketShutDown DEF Join, DeliversOf, CloseRest, senderVars, connection
  <2>3. CASE ClearQueue
    BY <2>3, <1>0, <1>1, SocketDropped DEF ClearQueue, DeliversOf, CloseRest, senderVars
  <2> QED
    BY <1>6, <2>1, <2>2, <2>3 DEF CloseStep
<1>7. CASE Serve
  BY <1>7, <1>0, FrameServed DEF Serve, DeliversOf, DaemonRest, senderVars, ContentsOK
<1>8. CASE Die \/ Restart
  BY <1>8, <1>0, <1>1 DEF Die, Restart, DaemonRest, senderVars
<1> QED
  BY <1>2, <1>3, <1>4, <1>5, <1>6, <1>7, <1>8 DEF SidecarNext

-----------------------------------------------------------------------------
(* Each event once.                                                        *)

\* The queue changes when an event is appended, when the sender takes from it,
\* and when close() clears it; the batch is taken, given up or acknowledged.
LEMMA QueueAndBatch ==
  ASSUME [SidecarNext]_sidecarVars
  PROVE  /\ \/ queue' = queue \/ queue' = <<>> \/ TakeBatch
            \/ \E t \in Emitters : AppendEvent(t)
         /\ \/ TakeBatch \/ Carried' = {}
            \/ batch' = batch /\ (sender = "ack" => sender' = "ack")
<1>0. batch' \in {<<>>, <<Report>>} => Carried' = {}
  BY NothingWritten DEF Carried, EventsOf
<1>1. CASE UNCHANGED sidecarVars
  BY <1>1 DEF sidecarVars, senderVars
<1>2. ASSUME NEW t \in Emitters, Emit(t) \/ EmitStep(t)
      PROVE  /\ queue' = queue \/ AppendEvent(t)
             /\ batch' = batch /\ (sender = "ack" => sender' = "ack")
  BY <1>2 DEF Emit, EmitStep, CheckRoom, AppendEvent, Look, Wake, senderVars
<1>3. CASE SenderStep
  <2>1. CASE Open \/ HelloOk \/ HelloFails \/ Sleep \/ Empty \/ SetIdle \/ Recheck \/ Select \/ Awake
    BY <2>1 DEF Open, HelloOk, HelloFails, Sleep, Empty, SetIdle, Recheck, Select, Awake, At
  <2>2. CASE Top
    BY <1>0, <2>2 DEF Top, At
  <2>3. CASE NoSocket \/ WriteFails \/ ReadFails
    BY <1>0, <2>3 DEF NoSocket, WriteFails, ReadFails, GiveUp
  <2>4. CASE WriteFrames \/ ReadAck \/ LastAck
    BY <1>0, <2>4 DEF WriteFrames, ReadAck, LastAck, Step
  <2> QED
    BY <1>3, <2>1, <2>2, <2>3, <2>4 DEF SenderStep
<1>4. CASE Hello \/ CloseBegin \/ CloseStep \/ Serve \/ Die \/ Restart
  BY <1>4 DEF Hello, CloseBegin, CloseStep, CloseWake, Join, EndClose, CountQueue, ClearQueue, Serve, Die,
     Restart, CloseRest, DaemonRest, senderVars
<1> QED
  BY <1>1, <1>2, <1>3, <1>4 DEF SidecarNext

\* What the daemon takes is in the batch, and had not arrived before.
LEMMA Deliveries ==
  ASSUME SidecarTypeOK, OnceInv, ExchangeInv, [SidecarNext]_sidecarVars
  PROVE  /\ Distinct(delivered') /\ Arrived \subseteq Arrived'
         /\ Arrived' \subseteq Arrived \cup Carried
         /\ sender = "ack" \/ WriteFails \/ Arrived' = Arrived
<1>0. delivered \in Seq(Events) /\ Written(batch) /\ Written(frames) /\ Distinct(delivered)
  BY DEF SidecarTypeOK, ContentsOK, OnceInv
<1>1. ASSUME delivered' = delivered PROVE Distinct(delivered') /\ Arrived' = Arrived
  BY <1>0, <1>1 DEF Distinct, Arrived
<1>2. ASSUME DeliversOf(frames)
      PROVE  /\ Distinct(delivered') /\ Arrived \subseteq Arrived'
             /\ Arrived' \subseteq Arrived \cup Carried
             /\ sender = "ack" \/ Arrived' = Arrived
  BY <1>0, <1>2, NothingWritten DEF DeliversOf, ExchangeInv
<1>3. ASSUME DeliversOf(<<>>) PROVE Distinct(delivered') /\ Arrived' = Arrived
  BY <1>0, <1>3, NothingWritten DEF DeliversOf
<1>4. CASE UNCHANGED sidecarVars
  BY <1>1, <1>4 DEF sidecarVars, connection
<1>5. ASSUME NEW t \in Emitters, Emit(t) \/ EmitStep(t)
      PROVE  delivered' = delivered
  BY <1>5 DEF Emit, EmitStep, CheckRoom, AppendEvent, Look, Wake, connection
<1>6. CASE SenderStep
  <2>1. CASE Open \/ HelloOk \/ Sleep \/ Top \/ TakeBatch \/ Empty \/ NoSocket \/ WriteFrames
             \/ ReadAck \/ LastAck \/ SetIdle \/ Recheck \/ Select \/ Awake
    BY <1>1, <2>1 DEF Open, HelloOk, Sleep, Top, TakeBatch, Empty, NoSocket, WriteFrames, ReadAck, LastAck,
       SetIdle, Recheck, Select, Awake, connection
  <2>2. CASE HelloFails
    BY <1>0, <1>3, <2>2, NothingWritten, SocketDropped DEF HelloFails
  <2>3. CASE WriteFails
    <3>1. DeliversOf(batch) /\ sender = "exchange"
      BY <1>0, <2>3, SocketDropped DEF WriteFails, At
    <3> QED
      BY <1>0, <2>3, <3>1 DEF DeliversOf, OnceInv, Carried
  <2>4. CASE ReadFails
    BY <1>0, <1>2, <2>4, SocketDropped DEF ReadFails
  <2> QED
    BY <1>6, <2>1, <2>2, <2>3, <2>4 DEF SenderStep
<1>7. CASE Hello
  <2>1. CASE ~sock
    BY <1>1, <1>7, <2>1 DEF Hello
  <2>2. CASE sock
    BY <1>0, <1>3, <1>7, <2>2, NothingWritten, SocketDropped DEF Hello
  <2> QED
    BY <2>1, <2>2
<1>8. CASE CloseBegin \/ CloseStep
  <2>1. CASE CloseBegin \/ CloseWake \/ EndClose \/ CountQueue
    BY <1>1, <2>1 DEF CloseBegin, CloseWake, EndClose, CountQueue, connection
  <2>2. CASE Join
    BY <1>0, <1>2, <2>2, SocketShutDown
  <2>3. CASE ClearQueue
    BY <1>0, <1>2, <2>3, SocketDropped DEF ClearQueue
  <2> QED
    BY <1>8, <2>1, <2>2, <2>3 DEF CloseStep
<1>9. CASE Serve
  BY <1>0, <1>2, <1>9, FrameServed
<1>10. CASE Die \/ Restart
  BY <1>1, <1>10 DEF Die, Restart
<1> QED
  BY <1>1, <1>4, <1>5, <1>6, <1>7, <1>8, <1>9, <1>10 DEF SidecarNext

\* Between its number and its place in the queue an event stays the emitter's.
LEMMA PendingKept ==
  ASSUME SidecarTypeOK, [SidecarNext]_sidecarVars
  PROVE  \/ \E t \in Emitters : Emit(t)
         \/ /\ emitted' = emitted
            /\ \A t \in Emitters : Pending(t)' => Pending(t) /\ emitter'[t].event = emitter[t].event
<1> USE DEF Pending
<1>0. \A t \in Emitters : emitter[t] \in [at : EmitPlaces, event : Events \cup {NoEvent}]
      /\ DOMAIN emitter = Emitters
  BY DEF SidecarTypeOK, EmittersOK
<1>1. ASSUME UNCHANGED <<emitter, emitted>>
      PROVE  /\ emitted' = emitted
             /\ \A t \in Emitters : Pending(t)' => Pending(t) /\ emitter'[t].event = emitter[t].event
  BY <1>1
<1>2. ASSUME NEW t \in Emitters, EmitStep(t)
      PROVE  /\ emitted' = emitted
             /\ \A u \in Emitters : Pending(u)' => Pending(u) /\ emitter'[u].event = emitter[u].event
  <2>1. ASSUME NEW place \in EmitPlaces, Goto(t, place), NEW u \in Emitters
        PROVE  /\ emitter'[u].event = emitter[u].event
               /\ emitter'[u].at = IF u = t THEN place ELSE emitter[u].at
    BY <1>0, <2>1 DEF Goto
  <2>2. ASSUME Return(t), NEW u \in Emitters
        PROVE  IF u = t THEN emitter'[u].at = "out" ELSE emitter'[u] = emitter[u]
    BY <1>0, <2>2 DEF Return, Quiet
  <2>3. CASE CheckRoom(t)
    BY <2>1, <2>2, <2>3 DEF CheckRoom, EmitPlaces
  <2>4. CASE AppendEvent(t)
    BY <2>1, <2>4 DEF AppendEvent, EmitPlaces
  <2>5. CASE Look(t)
    BY <2>1, <2>2, <2>5 DEF Look, EmitPlaces
  <2>6. CASE Wake(t)
    BY <2>2, <2>6 DEF Wake
  <2> QED
    BY <1>2, <2>3, <2>4, <2>5, <2>6 DEF EmitStep
<1>3. CASE SenderStep
  BY <1>3, <1>1 DEF SenderStep, SenderRest, users, Open, HelloOk, HelloFails, Sleep, Top, TakeBatch, Empty,
     NoSocket, WriteFrames, WriteFails, ReadAck, LastAck, ReadFails, SetIdle, Recheck, Select, Awake
<1>4. CASE Hello \/ CloseBegin \/ CloseStep \/ Serve \/ Die \/ Restart
  BY <1>4, <1>1 DEF Hello, users, CloseBegin, CloseRest, CloseStep, CloseWake, Join, EndClose,
     CountQueue, ClearQueue, Serve, Die, Restart, DaemonRest
<1>5. CASE UNCHANGED sidecarVars
  BY <1>5, <1>1 DEF sidecarVars, users
<1> QED
  BY <1>2, <1>3, <1>4, <1>5 DEF SidecarNext

\* Each event stays in one place.
LEMMA OnceKept ==
  ASSUME SidecarTypeOK, OnceInv, ExchangeInv, [SidecarNext]_sidecarVars
  PROVE  OnceInv'
<1>0. /\ queue \in Seq(Events) /\ Written(batch) /\ emitted \in Nat
      /\ Distinct(delivered') /\ Arrived \subseteq Arrived' /\ Arrived' \subseteq Arrived \cup Carried
      /\ sender = "ack" \/ WriteFails \/ Arrived' = Arrived
  BY Deliveries DEF SidecarTypeOK, ContentsOK, EmittersOK
<1>1. CASE TakeBatch
  <2>1. PICK bad \in SUBSET ToSet(Taken) : batch' = Encoded(bad)
    BY <1>1 DEF TakeBatch
  <2>2. /\ Taken \in Seq(Events) /\ queue' \in Seq(Events) /\ Queued = ToSet(Taken) \cup Queued'
        /\ Distinct(Taken) /\ Distinct(queue') /\ ToSet(Taken) \cap Queued' = {}
    BY <1>0, <1>1, QueueCut DEF TakeBatch, OnceInv, Queued
  <2>3. /\ batch' \in Seq(Events) /\ ToSet(batch') \subseteq ToSet(Taken) /\ Distinct(batch')
    BY <2>1, <2>2, EncodedProperties
  <2>4. EventsOf(batch') = batch'
    BY <2>3, ReportIsNoEvent DEF EventsOf
  <2>5. Arrived' = Arrived /\ emitter' = emitter /\ emitted' = emitted /\ Distinct(delivered')
    BY <1>0, <1>1 DEF TakeBatch, SenderRest, users, connection, Arrived
  <2>6. Carried' \subseteq ToSet(Taken)
    BY <2>3, <2>4 DEF Carried
  <2> QED
    BY <2>2, <2>3, <2>4, <2>5, <2>6 DEF OnceInv, Pending
<1>2. ASSUME NEW t \in Emitters, Emit(t)
      PROVE  OnceInv'
  <2>1. /\ emitted' = emitted + 1 /\ emitter' = [emitter EXCEPT ![t] = [at |-> "room", event |-> emitted']]
        /\ queue' = queue /\ batch' = batch /\ delivered' = delivered /\ sender' = sender
    BY <1>2 DEF Emit, senderVars, connection
  <2>2. Queued' = Queued /\ Carried' = Carried /\ Arrived' = Arrived
    BY <2>1 DEF Queued, Carried, Arrived
  <2>3. Queued \subseteq Int /\ Carried \subseteq Int /\ Arrived \subseteq Int
    <3>1. EventsOf(batch) \in Seq(Events) /\ delivered \in Seq(Events)
      BY <1>0, EventsWritten DEF SidecarTypeOK, ContentsOK
    <3>2. Queued \subseteq Events /\ Carried \subseteq Events /\ Arrived \subseteq Events
      BY <1>0, <3>1, ToSetOf DEF Queued, Carried, Arrived
    <3>3. Events \subseteq Int
      BY DEF Events
    <3> QED
      BY <3>2, <3>3
  <2>4. \A e \in Queued \cup Carried \cup Arrived : e # emitted' /\ e <= emitted'
    BY <1>0, <2>1, <2>3 DEF OnceInv
  <2>5. ASSUME NEW u \in Emitters
        PROVE  IF u = t THEN emitter'[u].event = emitted' ELSE emitter'[u] = emitter[u]
    BY <2>1 DEF SidecarTypeOK, EmittersOK
  <2>6. ASSUME NEW u \in Emitters, u # t, Pending(u)'
        PROVE  /\ Pending(u) /\ emitter'[u].event = emitter[u].event
               /\ emitter[u].event # emitted' /\ emitter[u].event \in 1 .. emitted'
    BY <1>0, <2>1, <2>5, <2>6 DEF OnceInv, Pending
  <2>7. \A u \in Emitters : Pending(u)' =>
           /\ emitter'[u].event \in 1 .. emitted'
           /\ emitter'[u].event \notin Queued \cup Carried \cup Arrived
    <3> TAKE u \in Emitters
    <3>1. CASE u = t
      BY <1>0, <2>1, <2>4, <2>5, <3>1
    <3>2. CASE u # t
      BY <2>6, <3>2 DEF OnceInv
    <3> QED
      BY <3>1, <3>2
  <2>8. \A u, v \in Emitters :
          Pending(u)' /\ Pending(v)' /\ emitter'[u].event = emitter'[v].event => u = v
    BY <2>5, <2>6 DEF OnceInv
  <2> QED
    BY <2>1, <2>2, <2>4, <2>7, <2>8 DEF OnceInv
<1>3. ASSUME NEW t \in Emitters, AppendEvent(t)
      PROVE  OnceInv'
  <2> DEFINE e == emitter[t].event
  <2>1. /\ Pending(t) /\ queue' = Append(queue, e) /\ emitted' = emitted
        /\ batch' = batch /\ delivered' = delivered /\ sender' = sender
    BY <1>3 DEF AppendEvent, Pending, senderVars, connection
  <2>2. e \in Events /\ e \in 1 .. emitted /\ e \notin Queued \cup Carried \cup Arrived
    BY <1>3, <2>1 DEF OnceInv, SidecarTypeOK, EmittersOK, AppendEvent
  <2>3. Queued' = Queued \cup {e} /\ Distinct(queue') /\ Carried' = Carried /\ Arrived' = Arrived
    BY <1>0, <2>1, <2>2, Appended DEF OnceInv, Queued, Carried, Arrived
  <2>4. ~(Pending(t)')
    BY <1>3 DEF AppendEvent, Goto, Pending, SidecarTypeOK, EmittersOK
  <2>5. ASSUME NEW u \in Emitters, Pending(u)'
        PROVE  u # t /\ Pending(u) /\ emitter'[u].event = emitter[u].event
    BY <1>3, <2>4, <2>5 DEF AppendEvent, Goto, Pending, SidecarTypeOK, EmittersOK
  <2> HIDE DEF e
  <2>6. \A x \in Queued' \cup Carried' \cup Arrived' : x <= emitted'
    BY <2>1, <2>2, <2>3 DEF OnceInv
  <2>7. ASSUME NEW u \in Emitters, Pending(u)'
        PROVE  /\ emitter'[u].event \in 1 .. emitted'
               /\ emitter'[u].event \notin Queued' \cup Carried' \cup Arrived'
    BY <2>1, <2>3, <2>5, <2>7 DEF OnceInv, e
  <2>8. \A u, v \in Emitters :
          Pending(u)' /\ Pending(v)' /\ emitter'[u].event = emitter'[v].event => u = v
    BY <2>5 DEF OnceInv
  <2> QED
    BY <2>1, <2>2, <2>3, <2>6, <2>7, <2>8 DEF OnceInv
<1>4. CASE ~TakeBatch /\ ~\E t \in Emitters : Emit(t) \/ AppendEvent(t)
  <2>1. /\ queue' = queue \/ queue' = <<>>
        /\ Carried' = {} \/ (batch' = batch /\ (sender = "ack" => sender' = "ack"))
    BY <1>4, QueueAndBatch
  <2>2. /\ emitted' = emitted
        /\ \A t \in Emitters : Pending(t)' => Pending(t) /\ emitter'[t].event = emitter[t].event
    BY <1>4, PendingKept
  <2>3. Queued' \subseteq Queued /\ Distinct(queue')
    <3>1. CASE queue' = queue
      BY <3>1 DEF Queued, OnceInv, Distinct
    <3>2. CASE queue' = <<>>
      <4>1. <<>> \in Seq(Events) /\ Len(<<>>) = 0
        OBVIOUS
      <4> QED
        BY <3>2, <4>1, NothingInEmpty DEF Queued
    <3> QED
      BY <2>1, <3>1, <3>2
  <2>4. Carried' \subseteq Carried /\ Distinct(EventsOf(batch'))
    <3>1. CASE batch' = batch
      BY <3>1 DEF Carried, OnceInv, Distinct
    <3>2. CASE Carried' = {}
      BY <3>2 DEF Carried, ToSet, Distinct
    <3> QED
      BY <2>1, <3>1, <3>2
  <2>5. sender' # "ack" => Carried' \cap Arrived' = {}
    <3>1. ASSUME WriteFails PROVE Carried' = {}
      BY <3>1, NothingWritten DEF WriteFails, GiveUp, Carried
    <3> QED
      BY <1>0, <2>1, <2>4, <3>1 DEF OnceInv
  <2>6. Queued' \cap Carried' = {} /\ Queued' \cap Arrived' = {}
    BY <1>0, <2>3, <2>4 DEF OnceInv
  <2>7. \A e \in Queued' \cup Carried' \cup Arrived' : e <= emitted'
    BY <1>0, <2>2, <2>3, <2>4 DEF OnceInv
  <2>8. \A t \in Emitters : Pending(t)' =>
          /\ emitter'[t].event \in 1 .. emitted'
          /\ emitter'[t].event \notin Queued' \cup Carried' \cup Arrived'
    BY <1>0, <2>2, <2>3, <2>4 DEF OnceInv
  <2>9. \A t, u \in Emitters :
          Pending(t)' /\ Pending(u)' /\ emitter'[t].event = emitter'[u].event => t = u
    BY <2>2 DEF OnceInv
  <2> QED
    BY <1>0, <2>3, <2>4, <2>5, <2>6, <2>7, <2>8, <2>9 DEF OnceInv
<1> QED
  BY <1>1, <1>2, <1>3, <1>4

-----------------------------------------------------------------------------
(* The exchange.                                                           *)

\* Nothing is in flight outside an exchange.
LEMMA NothingInFlight ==
  ASSUME sender' \notin {"exchange", "ack"}, batch' = <<>>, frames' = <<>>, acks' = 0
  PROVE  ExchangeInv'
BY NothingWritten, NothingInEmpty DEF ExchangeInv, Carried

\* Acks that have come are no more than the frames read, and the frames are the
\* end of the batch.
LEMMA ExchangeKept ==
  ASSUME SidecarTypeOK, OnceInv, ExchangeInv, [SidecarNext]_sidecarVars
  PROVE  ExchangeInv'
<1>0. /\ Written(batch) /\ Written(frames) /\ unread \in Nat /\ acks \in Nat
      /\ Len(batch) \in Nat /\ Len(frames) \in Nat
      /\ Arrived \subseteq Arrived'
      /\ sender = "ack" \/ WriteFails \/ Arrived' = Arrived
  <2>1. Written(batch) /\ Written(frames) /\ unread \in Nat /\ acks \in Nat
    BY DEF SidecarTypeOK, ContentsOK, PlacesOK
  <2>2. Len(batch) \in Nat /\ Len(frames) \in Nat
    BY <2>1 DEF Written
  <2> QED
    BY <2>1, <2>2, Deliveries
<1>1. ASSUME UNCHANGED <<batch, unread, frames, acks>>, delivered' = delivered,
             \/ sender' = sender
             \/ sender' \notin {"exchange", "ack"} /\ sender \notin {"exchange", "ack"}
      PROVE  ExchangeInv'
  <2>1. Carried' = Carried /\ Arrived' = Arrived
    BY <1>1 DEF Carried, Arrived
  <2>2. CASE sender' = sender
    BY <1>1, <2>1, <2>2 DEF ExchangeInv, Distinct
  <2>3. CASE sender' \notin {"exchange", "ack"} /\ sender \notin {"exchange", "ack"}
    BY <1>1, <2>3, NothingInFlight DEF ExchangeInv
  <2> QED
    BY <1>1, <2>2, <2>3
<1>2. ASSUME UNCHANGED <<batch, unread>>, frames' = <<>>, acks' \in {0, acks}, sender' = sender
      PROVE  ExchangeInv'
  <2>1. Carried' = Carried /\ acks' \in Nat /\ acks' <= acks
    BY <1>0, <1>2 DEF Carried
  <2>2. CASE sender # "ack"
    <3>1. acks' = 0 /\ (sender' = "ack" => FALSE)
      BY <1>2, <2>2 DEF ExchangeInv
    <3> QED
      BY <1>2, <2>1, <2>2, <3>1, NothingWritten DEF ExchangeInv
  <2>3. CASE sender = "ack"
    <3>1. acks' <= unread' /\ unread' <= Len(batch')
      BY <1>0, <1>2, <2>1, <2>3 DEF ExchangeInv
    <3>2. ASSUME batch' # <<Report>>
          PROVE  \A i \in 1 .. Len(batch') - unread' + acks' : batch'[i] \in Arrived'
      <4>1. \A i \in 1 .. Len(batch) - unread + acks : batch[i] \in Arrived
        BY <1>2, <2>3, <3>2 DEF ExchangeInv
      <4>2. \A i \in 1 .. Len(batch) - unread + acks' : i \in 1 .. Len(batch) - unread + acks
        BY <1>0, <2>1
      <4> QED
        BY <1>0, <1>2, <4>1, <4>2
    <3> QED
      BY <1>2, <2>3, <3>1, <3>2, NothingWritten DEF ExchangeInv
  <2> QED
    BY <2>2, <2>3
<1>3. ASSUME NEW t \in Emitters, Emit(t) \/ EmitStep(t)
      PROVE  ExchangeInv'
  <2>1. UNCHANGED <<batch, unread, frames, acks, delivered>>
    BY <1>3 DEF Emit, EmitStep, CheckRoom, AppendEvent, Look, Wake, senderVars, connection
  <2>2. sender' = sender \/ (sender = "none" /\ sender' = "top")
    BY <1>3 DEF Emit, EmitStep, CheckRoom, AppendEvent, Look, Wake, senderVars
  <2> QED
    BY <1>1, <2>1, <2>2
<1>4. CASE SenderStep
  <2>1. CASE Open \/ HelloOk \/ Sleep \/ Empty \/ SetIdle \/ Recheck \/ Select \/ Awake
    <3>1. UNCHANGED <<batch, unread, frames, acks, delivered>>
      BY <2>1 DEF Open, HelloOk, Sleep, Empty, SetIdle, Recheck, Select, Awake, connection
    <3>2. sender' \notin {"exchange", "ack"} /\ sender \notin {"exchange", "ack"}
      BY <2>1 DEF Open, HelloOk, Sleep, Empty, SetIdle, Recheck, Select, Awake, At, Step
    <3> QED
      BY <1>1, <3>1, <3>2
  <2>2. CASE HelloFails
    <3>1. sender' = "sleep" /\ sender = "hello" /\ batch' = batch /\ frames' = <<>> /\ acks' = 0
      BY <2>2 DEF HelloFails, At, Step, DropSocket
    <3> QED
      BY <3>1, NothingInFlight DEF ExchangeInv
  <2>3. CASE Top \/ TakeBatch
    <3>1. sender \in {"top", "take"} /\ frames' = frames /\ acks' = acks
      BY <2>3 DEF Top, TakeBatch, At, connection
    <3>2. frames' = <<>> /\ acks' = 0 /\ batch = <<>>
      BY <3>1 DEF ExchangeInv
    <3>3. sender' \notin {"exchange", "ack"} => batch' = <<>>
      BY <2>3, <3>2 DEF Top, TakeBatch, Step
    <3>4. sender' # "ack"
      BY <2>3 DEF Top, TakeBatch, Step
    <3> QED
      BY <3>2, <3>3, <3>4, NothingWritten DEF ExchangeInv
  <2>4. CASE NoSocket \/ WriteFails \/ ReadFails
    <3>1. sender' = "top" /\ batch' = <<>>
      BY <2>4 DEF NoSocket, WriteFails, ReadFails, GiveUp, Step
    <3>2. frames' = <<>> /\ acks' = 0
      BY <2>4 DEF NoSocket, WriteFails, ReadFails, DropSocket, ExchangeInv, At
    <3> QED
      BY <3>1, <3>2, NothingInFlight
  <2>5. CASE WriteFrames
    <3>1. /\ sender = "exchange" /\ sender' = "ack" /\ unread' = Len(batch) /\ batch' = batch
          /\ frames' = frames \o batch /\ acks' = acks /\ delivered' = delivered
      BY <2>5 DEF WriteFrames, At, Step
    <3>2. frames' = batch /\ acks' = 0
      BY <1>0, <3>1 DEF ExchangeInv, Written
    <3>3. Carried' = Carried /\ Arrived' = Arrived
      BY <3>1 DEF Carried, Arrived
    <3>4. Len(frames') + acks' = unread' /\ acks' <= unread' /\ unread' <= Len(batch')
      BY <1>0, <3>1, <3>2
    <3>5. \A i \in 1 .. Len(frames') : frames'[i] = batch'[Len(batch') - Len(frames') + i]
      <4>1. \A i \in 1 .. Len(batch) : Len(batch) - Len(batch) + i = i
        BY <1>0
      <4> QED
        BY <3>1, <3>2, <4>1
    <3>6. 1 .. Len(batch') - unread' + acks' = {}
      BY <1>0, <3>1, <3>2
    <3>7. Distinct(EventsOf(batch)) /\ Carried \cap Arrived = {}
      BY <3>1 DEF OnceInv
    <3>8. Distinct(EventsOf(frames')) /\ ToSet(EventsOf(frames')) = Carried'
      BY <3>1, <3>2, <3>7 DEF Carried
    <3> QED
      BY <3>1, <3>3, <3>4, <3>5, <3>6, <3>7, <3>8 DEF ExchangeInv
  <2>6. CASE ReadAck
    <3>1. /\ acks > 0 /\ unread > 1 /\ acks' = acks - 1 /\ unread' = unread - 1 /\ sender = "ack"
          /\ UNCHANGED <<sender, batch, frames, delivered>>
      BY <2>6 DEF ReadAck, At
    <3>2. Carried' = Carried /\ Arrived' = Arrived
      BY <3>1 DEF Carried, Arrived
    <3>3. /\ acks' <= unread' /\ unread' <= Len(batch')
          /\ Len(batch') - unread' + acks' = Len(batch) - unread + acks
          /\ Len(frames) + acks = unread => Len(frames') + acks' = unread'
      BY <1>0, <3>1 DEF ExchangeInv
    <3> QED
      BY <3>1, <3>2, <3>3 DEF ExchangeInv, Distinct
  <2>7. CASE LastAck
    <3>1. /\ acks > 0 /\ unread = 1 /\ acks' = acks - 1 /\ sender = "ack" /\ sender' = "top"
          /\ batch' = <<>> /\ frames' = frames
      BY <2>7 DEF LastAck, At, Step
    <3>2. acks' = 0
      BY <1>0, <3>1 DEF ExchangeInv
    <3>3. frames = <<>>
      <4> SUFFICES ASSUME frames # <<>> PROVE FALSE
        OBVIOUS
      <4>1. Len(frames) + acks = unread
        BY <3>1 DEF ExchangeInv
      <4>2. Len(frames) > 0
        BY <1>0 DEF Written
      <4> QED
        BY <1>0, <3>1, <4>1, <4>2
    <3> QED
      BY <3>1, <3>2, <3>3, NothingInFlight
  <2> QED
    BY <1>4, <2>1, <2>2, <2>3, <2>4, <2>5, <2>6, <2>7 DEF SenderStep
<1>5. CASE Hello
  <2>1. UNCHANGED <<batch, unread, sender>>
    BY <1>5 DEF Hello, senderVars
  <2>2. CASE ~sock
    BY <1>1, <1>5, <2>1, <2>2 DEF Hello
  <2>3. CASE sock
    BY <1>2, <1>5, <2>1, <2>3 DEF Hello, DropSocket
  <2> QED
    BY <2>2, <2>3
<1>6. CASE CloseBegin \/ CloseStep
  <2>1. UNCHANGED <<batch, unread, sender>>
    BY <1>6 DEF CloseBegin, CloseStep, CloseWake, Join, EndClose, CountQueue, ClearQueue, CloseRest, senderVars
  <2>2. CASE CloseBegin \/ CloseWake \/ EndClose \/ CountQueue
    BY <1>1, <2>1, <2>2 DEF CloseBegin, CloseWake, EndClose, CountQueue, connection
  <2>3. CASE Join
    BY <1>1, <1>2, <2>1, <2>3 DEF Join, connection
  <2>4. CASE ClearQueue
    BY <1>2, <2>1, <2>4 DEF ClearQueue, DropSocket
  <2> QED
    BY <1>6, <2>2, <2>3, <2>4 DEF CloseStep
<1>7. CASE Serve
  <2>1. /\ frames # <<>> /\ acks' = acks + 1 /\ UNCHANGED <<batch, unread, sender>>
        /\ sender = "ack"
    BY <1>7 DEF Serve, DaemonRest, senderVars, ExchangeInv
  <2>2. /\ Distinct(EventsOf(frames'))
        /\ ToSet(EventsOf(frames')) \cap Arrived' \subseteq Arrived
        /\ ToSet(EventsOf(frames')) \subseteq ToSet(EventsOf(frames))
        /\ Len(frames) \in Nat \ {0} /\ Len(frames') = Len(frames) - 1
        /\ \A i \in 1 .. Len(frames') : frames'[i] = frames[i + 1]
        /\ frames # <<Report>> => frames[1] \in Arrived'
    BY <1>0, <1>7, FrameServed DEF ExchangeInv, SidecarTypeOK, ContentsOK
  <2>3. Carried' = Carried
    BY <2>1 DEF Carried
  <2>4. /\ Len(frames) + acks = unread /\ unread <= Len(batch)
        /\ \A i \in 1 .. Len(frames) : frames[i] = batch[Len(batch) - Len(frames) + i]
    BY <2>1 DEF ExchangeInv
  <2> DEFINE b == Len(batch)
             f == Len(frames)
             g == Len(frames')
  <2>0. /\ b \in Nat /\ f \in Nat /\ f > 0 /\ g = f - 1 /\ f + acks = unread /\ unread <= b
        /\ acks \in Nat /\ unread \in Nat
    BY <1>0, <2>2, <2>4
  <2> HIDE DEF b, f, g
  <2>5. Len(frames') + acks' = unread' /\ acks' <= unread' /\ unread' <= Len(batch')
    <3>1. g + (acks + 1) = unread /\ acks + 1 <= unread /\ unread <= b
      BY ONLY <2>0
    <3> QED
      BY <2>1, <3>1 DEF b, g
  <2>6. ASSUME NEW i \in 1 .. Len(frames')
        PROVE  frames'[i] = batch'[Len(batch') - Len(frames') + i]
    <3>1. i + 1 \in 1 .. Len(frames) /\ Len(batch) - Len(frames) + (i + 1) = Len(batch) - Len(frames') + i
      BY <1>0, <2>2
    <3> QED
      BY <2>1, <2>2, <2>4, <3>1
  <2>7. ASSUME batch' # <<Report>>, NEW i \in 1 .. Len(batch') - unread' + acks'
        PROVE  batch'[i] \in Arrived'
    <3>1. CASE i \in 1 .. Len(batch) - unread + acks
      BY <1>0, <2>1, <2>7, <3>1 DEF ExchangeInv
    <3>2. CASE i \notin 1 .. Len(batch) - unread + acks
      <4>0. i \in 1 .. b - unread + (acks + 1) /\ i \notin 1 .. b - unread + acks
        BY <2>1, <2>7, <3>2 DEF b
      <4>1. i = b - f + 1 /\ 1 \in 1 .. f
        BY ONLY <2>0, <4>0
      <4>2. batch[i] = frames[1]
        BY <2>4, <4>1 DEF b, f
      <4>3. frames # <<Report>>
        <5> SUFFICES ASSUME frames = <<Report>> PROVE FALSE
          OBVIOUS
        <5>1. batch \in Seq(Events)
          BY <1>0, <2>1, <2>7 DEF Written
        <5>2. i \in 1 .. Len(batch) /\ batch[i] = Report
          <6>1. i \in 1 .. b
            BY ONLY <2>0, <4>1
          <6> QED
            BY <4>2, <6>1 DEF b
        <5>3. Report \in Events
          BY <5>1, <5>2
        <5> QED
          BY <5>3, SidecarAssumption DEF Events
      <4> QED
        BY <2>1, <2>2, <4>2, <4>3
    <3> QED
      BY <3>1, <3>2
  <2>8. /\ ToSet(EventsOf(frames')) \subseteq Carried'
        /\ ToSet(EventsOf(frames')) \cap Arrived' = {}
    BY <2>2, <2>3 DEF ExchangeInv
  <2> QED
    BY <2>1, <2>2, <2>5, <2>6, <2>7, <2>8 DEF ExchangeInv
<1>8. CASE Die \/ Restart
  BY <1>1, <1>2, <1>8 DEF Die, Restart, DaemonRest, senderVars
<1>9. CASE UNCHANGED sidecarVars
  BY <1>1, <1>9 DEF sidecarVars, senderVars, connection
<1> QED
  BY <1>3, <1>4, <1>5, <1>6, <1>7, <1>8, <1>9 DEF SidecarNext

-----------------------------------------------------------------------------
(* The count of the events that did not arrive.                            *)

\* A step that loses no more than it counts.
LEMMA CountKeptBy ==
  ASSUME CountInv, dropped \in Nat, Due' \subseteq Events,
         NEW n \in Nat, dropped' = dropped + n,
         NEW C, IsFiniteSet(C), Cardinality(C) <= n, Due' \ Safe' \subseteq (Due \ Safe) \cup C
  PROVE  CountInv'
<1>1. IsFiniteSet(Events)
  BY SidecarAssumption, FS_Interval DEF Events
<1>2. IsFiniteSet(Due \ Safe) /\ Cardinality(Due \ Safe) <= dropped
  BY <1>1, FS_Subset DEF CountInv
<1> DEFINE A == Due \ Safe
           B == Due' \ Safe'
           m == dropped
<1>3. Cardinality(B) <= m + n
  <2>1. m \in Nat /\ IsFiniteSet(A) /\ Cardinality(A) <= m /\ B \subseteq A \cup C
    BY <1>2
  <2> HIDE DEF A, B, m
  <2> QED
    BY <2>1, CountGrows
<1> HIDE DEF m
<1> QED
  BY <1>3 DEF CountInv, m

\* A step that loses none and counts none.
LEMMA NothingLost ==
  ASSUME CountInv, dropped \in Nat, Due' \subseteq Events, dropped' = dropped,
         Due' \ Safe' \subseteq Due \ Safe
  PROVE  CountInv'
<1>1. IsFiniteSet({}) /\ Cardinality({}) <= 0 /\ 0 \in Nat
  BY FS_EmptySet
<1>2. dropped' = dropped + 0 /\ Due' \ Safe' \subseteq (Due \ Safe) \cup {}
  OBVIOUS
<1> QED
  BY <1>1, <1>2, CountKeptBy

\* The steps of a thread that emits: one event more to account for when it is
\* queued, or when there is no room for it.
LEMMA DueGrows ==
  ASSUME SidecarTypeOK, Due \subseteq Events, NEW t \in Emitters, Emit(t) \/ EmitStep(t)
  PROVE  /\ Due' \subseteq Events /\ closer' = closer
         /\ \/ Due' \subseteq Due
            \/ /\ AppendEvent(t) \/ (CheckRoom(t) /\ droppedEmit' = droppedEmit + 1)
               /\ closer = "out" /\ Due' \subseteq Due \cup {emitter[t].event}
<1> DEFINE e == emitter[t].event
           Looking == {u \in Emitters : emitter[u].at \in {"look", "wake"}}
           L == {emitter[u].event : u \in Looking}
<1>0. /\ \A u \in Emitters : emitter[u] \in [at : EmitPlaces, event : Events \cup {NoEvent}]
      /\ DOMAIN emitter = Emitters
      /\ emitter[t].at # "out" => e \in Events
      /\ closer' = closer
  BY DEF SidecarTypeOK, EmittersOK, Emit, EmitStep, CheckRoom, AppendEvent, Look, Wake, users
<1>1. ASSUME NEW place \in EmitPlaces, Goto(t, place)
      PROVE  L' \subseteq L \cup (IF place \in {"look", "wake"} THEN {e} ELSE {})
  <2>1. \A u \in Emitters : /\ emitter'[u].event = emitter[u].event
                            /\ emitter'[u].at = IF u = t THEN place ELSE emitter[u].at
    BY <1>0, <1>1 DEF Goto
  <2> QED
    BY <2>1
<1>2. ASSUME Return(t)
      PROVE  L' \subseteq L /\ settled' = IF closer = "out" THEN settled \cup {e} ELSE settled
  <2>1. \A u \in Emitters : IF u = t THEN emitter'[u].at = "out" ELSE emitter'[u] = emitter[u]
    BY <1>0, <1>2 DEF Return, Quiet
  <2>2. L' \subseteq L
    BY <2>1
  <2> QED
    BY <1>2, <2>2 DEF Return
<1>3. Due = settled \cup (IF closer = "out" THEN L ELSE {})
      /\ Due' = settled' \cup (IF closer' = "out" THEN L' ELSE {})
  BY DEF Due
<1>4. emitter[t].at \in {"look", "wake"} => e \in L
  OBVIOUS
<1>5. CASE Emit(t)
  <2>1. \A u \in Emitters : IF u = t THEN emitter'[u].at = "room" ELSE emitter'[u] = emitter[u]
    BY <1>0, <1>5 DEF Emit
  <2>2. L' \subseteq L /\ settled' = settled
    BY <1>5, <2>1 DEF Emit
  <2> HIDE DEF L
  <2> QED
    BY <1>0, <1>3, <2>2
<1> HIDE DEF L, e
<1>6. CASE CheckRoom(t)
  <2>1. CASE Len(queue) >= QueueMax
    BY <1>0, <1>2, <1>3, <1>6, <2>1 DEF CheckRoom, e
  <2>2. CASE ~(Len(queue) >= QueueMax)
    BY <1>0, <1>1, <1>3, <1>6, <2>2 DEF CheckRoom, EmitPlaces
  <2> QED
    BY <2>1, <2>2
<1>7. CASE AppendEvent(t)
  <2>1. Goto(t, "look") /\ settled' = settled /\ emitter[t].at = "append" /\ "look" \in EmitPlaces
    BY <1>7 DEF AppendEvent, EmitPlaces
  <2>2. L' \subseteq L \cup {e}
    BY <1>1, <2>1
  <2>3. e \in Events
    BY <1>0, <2>1 DEF e
  <2>4. CASE closer = "out"
    <3>1. Due' \subseteq Due \cup {e}
      BY <1>0, <1>3, <2>1, <2>2, <2>4
    <3> QED
      BY <1>0, <1>7, <2>3, <2>4, <3>1 DEF e
  <2>5. CASE closer # "out"
    BY <1>0, <1>3, <2>1, <2>5
  <2> QED
    BY <2>4, <2>5
<1>8. CASE Look(t)
  BY <1>0, <1>1, <1>2, <1>3, <1>4, <1>8 DEF Look, EmitPlaces
<1>9. CASE Wake(t)
  BY <1>0, <1>2, <1>3, <1>4, <1>9 DEF Wake
<1> QED
  BY <1>5, <1>6, <1>7, <1>8, <1>9 DEF EmitStep

\* What is missing is counted.
LEMMA CountKept ==
  ASSUME SidecarTypeOK, OnceInv, ExchangeInv, CountInv, [SidecarNext]_sidecarVars
  PROVE  CountInv'
<1>0. /\ queue \in Seq(Events) /\ Written(batch) /\ dropped \in Nat /\ Due \subseteq Events
      /\ droppedEmit \in Nat /\ droppedSend \in Nat
      /\ Arrived \subseteq Arrived'
  BY Deliveries DEF SidecarTypeOK, ContentsOK, PlacesOK, CountInv, dropped
<1>1. ASSUME UNCHANGED <<emitter, settled>>, closer' = "out" => closer = "out"
      PROVE  Due' \subseteq Due /\ Due' \subseteq Events
  BY <1>0, <1>1 DEF Due
<1>2. ASSUME queue' = queue, Carried \subseteq Carried' \cup Arrived', closer' = "clear" => closer = "clear"
      PROVE  Safe \subseteq Safe'
  BY <1>0, <1>2 DEF Safe, Queued
<1>3. CASE UNCHANGED sidecarVars
  <2>1. /\ UNCHANGED <<queue, batch, emitter, settled, closer>> /\ dropped' = dropped
    BY <1>3 DEF sidecarVars, senderVars, users, counters, dropped
  <2> QED
    BY <1>0, <1>1, <1>2, <2>1, NothingLost DEF Carried
<1>4. ASSUME NEW t \in Emitters, Emit(t) \/ EmitStep(t)
      PROVE  CountInv'
  <2> DEFINE e == emitter[t].event
  <2>1. /\ Due' \subseteq Events /\ closer' = closer
        /\ \/ Due' \subseteq Due
           \/ /\ AppendEvent(t) \/ (CheckRoom(t) /\ droppedEmit' = droppedEmit + 1)
              /\ closer = "out" /\ Due' \subseteq Due \cup {e}
    BY <1>0, <1>4, DueGrows
  <2>2. batch' = batch /\ delivered' = delivered /\ droppedSend' = droppedSend
    BY <1>4 DEF Emit, EmitStep, CheckRoom, AppendEvent, Look, Wake, senderVars, connection, counters
  <2>3. Carried' = Carried /\ Arrived' = Arrived
    BY <2>2 DEF Carried, Arrived
  <2>4. CASE AppendEvent(t)
    <3>1. queue' = Append(queue, e) /\ dropped' = dropped /\ e \in Events
      BY <2>4 DEF AppendEvent, counters, dropped, SidecarTypeOK, EmittersOK
    <3>2. Queued' = Queued \cup {e}
      BY <1>0, <3>1, Appended DEF Queued
    <3> HIDE DEF e
    <3>3. Due' \ Safe' \subseteq Due \ Safe
      BY <2>1, <2>3, <3>2 DEF Safe
    <3> QED
      BY <1>0, <2>1, <3>1, <3>3, NothingLost
  <2>5. CASE CheckRoom(t) /\ droppedEmit' = droppedEmit + 1
    <3>1. dropped' = dropped + 1 /\ queue' = queue
      BY <1>0, <2>2, <2>5 DEF CheckRoom, dropped
    <3>2. Safe' = Safe
      BY <2>1, <2>3, <3>1 DEF Safe, Queued
    <3>3. IsFiniteSet({e}) /\ Cardinality({e}) <= 1
      <4>1. \A x : IsFiniteSet({x}) /\ Cardinality({x}) = 1
        BY FS_Singleton
      <4> HIDE DEF e
      <4>2. Cardinality({e}) = 1 /\ IsFiniteSet({e})
        BY <4>1, Zenon
      <4> QED
        BY <4>2
    <3> HIDE DEF e
    <3>4. Due' \ Safe' \subseteq (Due \ Safe) \cup {e}
      BY <2>1, <3>2
    <3> QED
      BY <1>0, <2>1, <3>1, <3>3, <3>4, CountKeptBy
  <2>6. CASE ~AppendEvent(t) /\ ~(CheckRoom(t) /\ droppedEmit' = droppedEmit + 1)
    <3>1. Due' \subseteq Due
      BY <2>1, <2>6
    <3>2. queue' = queue /\ droppedEmit' = droppedEmit
      BY <1>4, <2>6 DEF Emit, EmitStep, CheckRoom, Look, Wake, counters
    <3>3. dropped' = dropped /\ Safe' = Safe
      BY <2>1, <2>2, <2>3, <3>2 DEF dropped, Safe, Queued
    <3> QED
      BY <1>0, <2>1, <3>1, <3>3, NothingLost
  <2> QED
    BY <2>4, <2>5, <2>6
<1>5. CASE SenderStep
  <2>0. UNCHANGED <<emitter, settled, closer>>
    BY <1>5 DEF SenderStep, SenderRest, users, Open, HelloOk, HelloFails, Sleep, Top, TakeBatch, Empty,
       NoSocket, WriteFrames, WriteFails, ReadAck, LastAck, ReadFails, SetIdle, Recheck, Select, Awake
  <2>1. CASE Open \/ HelloOk \/ HelloFails \/ Sleep \/ Empty \/ SetIdle \/ Recheck \/ Select \/ Awake
             \/ WriteFrames \/ ReadAck
    <3>1. queue' = queue /\ batch' = batch /\ dropped' = dropped
      BY <2>1 DEF Open, HelloOk, HelloFails, Sleep, Empty, SetIdle, Recheck, Select, Awake, WriteFrames,
         ReadAck, counters, dropped
    <3> QED
      BY <1>0, <1>1, <1>2, <2>0, <3>1, NothingLost DEF Carried
  <2>2. CASE Top
    <3>1. queue' = queue /\ dropped' = dropped /\ batch = <<>>
      BY <2>2 DEF Top, counters, dropped, At, ExchangeInv
    <3>2. Carried = {}
      BY <3>1, NothingWritten DEF Carried
    <3> QED
      BY <1>0, <1>1, <1>2, <2>0, <3>1, <3>2, NothingLost
  <2>3. CASE TakeBatch
    <3>1. PICK bad \in SUBSET ToSet(Taken) :
             batch' = Encoded(bad) /\ droppedSend' = droppedSend + Cardinality(bad)
      BY <2>3 DEF TakeBatch
    <3>2. /\ Taken \in Seq(Events) /\ Queued = ToSet(Taken) \cup Queued'
      BY <1>0, <2>3, QueueCut DEF TakeBatch, Queued
    <3>3. IsFiniteSet(bad) /\ Cardinality(bad) \in Nat
      BY <3>2, CountOfSeq, FS_Subset, FS_CardinalityType
    <3>4. batch' \in Seq(Events) /\ ToSet(batch') = ToSet(Taken) \ bad
      BY <3>1, <3>2, EncodedProperties
    <3>5. Carried' = ToSet(Taken) \ bad
      BY <3>4, ReportIsNoEvent DEF Carried, EventsOf
    <3>6. batch = <<>> /\ droppedEmit' = droppedEmit
      BY <2>3 DEF TakeBatch, At, ExchangeInv
    <3>7. Carried = {}
      BY <3>6, NothingWritten DEF Carried
    <3>8. dropped' = dropped + Cardinality(bad)
      BY <1>0, <3>1, <3>3, <3>6 DEF dropped
    <3>9. Safe \subseteq Safe' \cup bad
      BY <1>0, <2>0, <3>2, <3>5, <3>7 DEF Safe
    <3>10. Due' \subseteq Due /\ Due' \subseteq Events /\ Due' \ Safe' \subseteq (Due \ Safe) \cup bad
      BY <1>1, <2>0, <3>9
    <3>11. Cardinality(bad) <= Cardinality(bad)
      BY <3>3
    <3> QED
      BY <1>0, <3>3, <3>8, <3>10, <3>11, CountKeptBy
  <2>4. CASE NoSocket \/ WriteFails \/ ReadFails
    <3>1. queue' = queue /\ droppedEmit' = droppedEmit /\ droppedSend' = droppedSend + Len(EventsOf(batch))
      BY <2>4 DEF NoSocket, WriteFails, ReadFails, GiveUp
    <3>2. /\ IsFiniteSet(Carried) /\ Cardinality(Carried) <= Len(EventsOf(batch))
          /\ Len(EventsOf(batch)) \in Nat
      BY <1>0, EventsWritten, CountOfSeq DEF Carried
    <3>3. dropped' = dropped + Len(EventsOf(batch))
      BY <1>0, <3>1, <3>2 DEF dropped
    <3>4. Safe \subseteq Safe' \cup Carried
      BY <1>0, <2>0, <3>1 DEF Safe, Queued
    <3>5. Due' \subseteq Events /\ Due' \ Safe' \subseteq (Due \ Safe) \cup Carried
      BY <1>1, <2>0, <3>4
    <3> QED
      BY <1>0, <3>2, <3>3, <3>5, CountKeptBy
  <2>5. CASE LastAck
    <3>1. queue' = queue /\ dropped' = dropped /\ sender = "ack" /\ acks > 0 /\ unread = 1
      BY <2>5 DEF LastAck, dropped, At
    <3>2. Carried \subseteq Arrived
      <4>1. CASE batch = <<Report>>
        BY <1>0, <4>1, EventsWritten, NothingWritten DEF Carried
      <4>2. CASE batch # <<Report>>
        <5>1. batch \in Seq(Events) /\ EventsOf(batch) = batch /\ Len(batch) \in Nat
          BY <1>0, <4>2, EventsWritten
        <5>2. acks \in Nat /\ acks <= unread
          BY <3>1 DEF ExchangeInv, SidecarTypeOK, PlacesOK
        <5>3. Len(batch) - unread + acks = Len(batch)
          BY <3>1, <5>1, <5>2
        <5>4. \A i \in 1 .. Len(batch) : batch[i] \in Arrived
          BY <3>1, <4>2, <5>3 DEF ExchangeInv
        <5> QED
          BY <5>1, <5>4, ToSetOf DEF Carried
      <4> QED
        BY <4>1, <4>2
    <3> QED
      BY <1>0, <1>1, <1>2, <2>0, <3>1, <3>2, NothingLost
  <2> QED
    BY <1>5, <2>1, <2>2, <2>3, <2>4, <2>5 DEF SenderStep
<1>6. CASE Hello \/ CloseBegin \/ CloseWake \/ Join \/ EndClose \/ Serve \/ Die \/ Restart
  <2>1. UNCHANGED <<emitter, settled, queue, batch>> /\ dropped' = dropped
    BY <1>6 DEF Hello, CloseBegin, CloseWake, Join, EndClose, Serve, Die, Restart, CloseRest, DaemonRest,
       users, senderVars, counters, dropped
  <2>2. (closer' = "out" => closer = "out") /\ (closer' = "clear" => closer = "clear")
    BY <1>6 DEF Hello, CloseBegin, CloseWake, Join, EndClose, Serve, Die, Restart, DaemonRest, users, CloserAt
  <2>3. Due' \subseteq Due /\ Due' \subseteq Events /\ Safe \subseteq Safe'
    BY <1>1, <1>2, <2>1, <2>2 DEF Carried
  <2> QED
    BY <1>0, <2>1, <2>3, NothingLost
<1>7. CASE CountQueue
  <2>1. /\ UNCHANGED <<emitter, settled, queue, batch>> /\ closer = "count" /\ closer' = "clear"
        /\ droppedEmit' = droppedEmit + Len(queue) /\ droppedSend' = droppedSend
    BY <1>7 DEF CountQueue, senderVars, CloserAt
  <2>2. IsFiniteSet(Queued) /\ Cardinality(Queued) <= Len(queue) /\ Len(queue) \in Nat
    BY <1>0, CountOfSeq DEF Queued
  <2>3. dropped' = dropped + Len(queue)
    BY <1>0, <2>1, <2>2 DEF dropped
  <2>4. Safe \subseteq Safe' \cup Queued
    BY <1>0, <2>1 DEF Safe, Carried
  <2>5. Due' \subseteq Events /\ Due' \ Safe' \subseteq (Due \ Safe) \cup Queued
    BY <1>1, <2>1, <2>4
  <2> QED
    BY <1>0, <2>2, <2>3, <2>5, CountKeptBy
<1>8. CASE ClearQueue
  <2>1. UNCHANGED <<emitter, settled, batch>> /\ closer = "clear" /\ closer' = "closed" /\ dropped' = dropped
    BY <1>8 DEF ClearQueue, CloseRest, senderVars, counters, CloserAt, dropped
  <2>2. Safe \subseteq Safe'
    BY <1>0, <2>1 DEF Safe, Carried
  <2> QED
    BY <1>0, <1>1, <2>1, <2>2, NothingLost
<1> QED
  BY <1>3, <1>4, <1>5, <1>6, <1>7, <1>8 DEF SidecarNext, CloseStep

-----------------------------------------------------------------------------
(* Wake-ups.                                                               *)

\* A sender that looks at the queue before it waits sees what is there, or the
\* flag it has set is seen by the thread that puts it there.
LEMMA WakeKept ==
  ASSUME SidecarTypeOK, WakeInv, [SidecarNext]_sidecarVars
  PROVE  WakeInv'
<1> DEFINE WillWake == \E t \in Emitters : emitter[t].at \in {"look", "wake"}
           WillStart == \E t \in Emitters : emitter[t].at = "look"
<1>0. /\ idle \in BOOLEAN /\ wake \in BOOLEAN /\ stopping \in BOOLEAN
      /\ \A t \in Emitters : emitter[t] \in [at : EmitPlaces, event : Events \cup {NoEvent}]
      /\ DOMAIN emitter = Emitters
  BY DEF SidecarTypeOK, PlacesOK, EmittersOK
<1>1. ASSUME UNCHANGED <<queue, emitter, sender, idle, wake, stopping, closer>>
      PROVE  WakeInv'
  BY <1>1 DEF WakeInv, NoLostWakeup
<1>2. CASE UNCHANGED sidecarVars
  BY <1>1, <1>2 DEF sidecarVars, flags, senderVars, signal, users
<1>3. ASSUME NEW t \in Emitters, Emit(t)
      PROVE  WakeInv'
  <2>1. /\ UNCHANGED <<queue, sender, idle, wake, stopping, closer>>
        /\ \A u \in Emitters : u # t => emitter'[u] = emitter[u]
        /\ emitter[t].at = "out"
    BY <1>0, <1>3 DEF Emit, flags, senderVars, signal, Quiet
  <2>2. (WillWake => WillWake') /\ (WillStart => WillStart')
    BY <2>1
  <2> HIDE DEF WillWake, WillStart
  <2> QED
    BY <2>1, <2>2 DEF WakeInv, NoLostWakeup, WillWake, WillStart
<1>4. ASSUME NEW t \in Emitters, NEW place \in EmitPlaces, Goto(t, place)
      PROVE  /\ \A u \in Emitters : u # t => emitter'[u] = emitter[u]
             /\ emitter'[t].at = place
  BY <1>0, <1>4 DEF Goto
<1>5. ASSUME NEW t \in Emitters, Return(t)
      PROVE  \A u \in Emitters : u # t => emitter'[u] = emitter[u]
  BY <1>0, <1>5 DEF Return
<1>6. ASSUME NEW t \in Emitters, CheckRoom(t)
      PROVE  WakeInv'
  <2>1. /\ UNCHANGED <<queue, sender, idle, wake, stopping, closer>>
        /\ emitter[t].at = "room"
    BY <1>6 DEF CheckRoom, flags, senderVars, signal
  <2>2. \A u \in Emitters : u # t => emitter'[u] = emitter[u]
    BY <1>4, <1>5, <1>6 DEF CheckRoom, EmitPlaces
  <2>3. (WillWake => WillWake') /\ (WillStart => WillStart')
    BY <2>1, <2>2
  <2> HIDE DEF WillWake, WillStart
  <2> QED
    BY <2>1, <2>3 DEF WakeInv, NoLostWakeup, WillWake, WillStart
<1>7. ASSUME NEW t \in Emitters, AppendEvent(t)
      PROVE  WakeInv'
  <2>1. /\ UNCHANGED <<sender, idle, wake, stopping, closer>>
    BY <1>7 DEF AppendEvent, flags, senderVars, signal
  <2>2. emitter'[t].at = "look"
    BY <1>4, <1>7 DEF AppendEvent, EmitPlaces
  <2> QED
    BY <2>1, <2>2 DEF WakeInv, NoLostWakeup
<1>8. ASSUME NEW t \in Emitters, Look(t)
      PROVE  WakeInv'
  <2>1. /\ UNCHANGED <<queue, idle, wake, stopping, closer>>
        /\ sender' = IF sender = "none" /\ ~stopping THEN "top" ELSE sender
    BY <1>8 DEF Look, flags, signal
  <2>2. CASE sender # "none" /\ idle
    <3>1. emitter'[t].at = "wake"
      BY <1>4, <1>8, <2>2 DEF Look, EmitPlaces
    <3> QED
      BY <2>1, <2>2, <3>1 DEF WakeInv, NoLostWakeup
  <2>3. CASE ~(sender # "none" /\ idle)
    BY <2>1, <2>3 DEF WakeInv, NoLostWakeup
  <2> QED
    BY <2>2, <2>3
<1>9. ASSUME NEW t \in Emitters, Wake(t)
      PROVE  WakeInv'
  <2>1. UNCHANGED <<queue, sender, idle, stopping, closer>> /\ wake' = TRUE /\ emitter[t].at = "wake"
    BY <1>9 DEF Wake, flags, senderVars
  <2>2. \A u \in Emitters : u # t => emitter'[u] = emitter[u]
    BY <1>5, <1>9 DEF Wake
  <2>3. WillStart => WillStart'
    BY <2>1, <2>2
  <2> HIDE DEF WillStart
  <2> QED
    BY <2>1, <2>3 DEF WakeInv, NoLostWakeup, WillStart
<1>10. CASE SenderStep
  <2>0. UNCHANGED <<emitter, stopping, closer>>
    BY <1>10 DEF SenderStep, SenderRest, flags, users, Open, HelloOk, HelloFails, Sleep, Top, TakeBatch, Empty,
       NoSocket, WriteFrames, WriteFails, ReadAck, LastAck, ReadFails, SetIdle, Recheck, Select, Awake
  <2>1. ASSUME sender \notin {"none", "recheck", "select", "awake"},
               sender' \notin {"none", "recheck", "select", "awake"}, idle' = idle
        PROVE  WakeInv'
    BY <1>0, <2>0, <2>1 DEF WakeInv, NoLostWakeup
  <2>2. CASE Open \/ HelloOk \/ HelloFails \/ Sleep \/ Top
    BY <2>1, <2>2 DEF Open, HelloOk, HelloFails, Sleep, Top, At, Step, signal
  <2>3. CASE TakeBatch \/ Empty
    BY <2>1, <2>3 DEF TakeBatch, Empty, At, Step, signal
  <2>4. CASE NoSocket \/ WriteFails \/ ReadFails
    BY <2>1, <2>4 DEF NoSocket, WriteFails, ReadFails, GiveUp, At, Step, signal
  <2>5. CASE WriteFrames \/ ReadAck \/ LastAck
    BY <2>1, <2>5 DEF WriteFrames, ReadAck, LastAck, At, Step, signal
  <2>6. CASE SetIdle
    BY <1>0, <2>0, <2>6 DEF SetIdle, At, Step, WakeInv, NoLostWakeup
  <2>7. CASE Recheck
    BY <1>0, <2>0, <2>7 DEF Recheck, At, Step, signal, WakeInv, NoLostWakeup
  <2>8. CASE Select
    BY <1>0, <2>0, <2>8 DEF Select, At, Step, signal, WakeInv, NoLostWakeup
  <2>9. CASE Awake
    BY <1>0, <2>0, <2>9 DEF Awake, At, Step, WakeInv, NoLostWakeup
  <2> QED
    BY <1>10, <2>2, <2>3, <2>4, <2>5, <2>6, <2>7, <2>8, <2>9 DEF SenderStep
<1>11. CASE Hello \/ Serve \/ Die \/ Restart
  BY <1>1, <1>11 DEF Hello, Serve, Die, Restart, DaemonRest, flags, senderVars, signal, users
<1>12. CASE CloseBegin
  <2>1. /\ UNCHANGED <<queue, emitter, sender, idle, wake>>
        /\ \/ stopping' = TRUE
           \/ stopping' = stopping /\ closer' = "end"
    BY <1>12 DEF CloseBegin, CloseRest, senderVars, signal
  <2>2. closer = "out" /\ closer' \in {"wake", "end"}
    BY <1>12 DEF CloseBegin, CloserAt
  <2> QED
    BY <1>0, <2>1, <2>2 DEF WakeInv, NoLostWakeup
<1>13. CASE CloseStep
  <2>0. UNCHANGED <<emitter, sender, idle>>
    BY <1>13 DEF CloseStep, CloseWake, Join, EndClose, CountQueue, ClearQueue, CloseRest, senderVars, signal
  <2>1. CASE CloseWake
    BY <2>0, <2>1 DEF CloseWake, CloserAt, flags, WakeInv, NoLostWakeup
  <2>2. CASE Join
    <3>1. UNCHANGED <<queue, stopping, wake>> /\ closer = "join" /\ closer' \in {"end", "rejoin"}
      BY <2>2 DEF Join, CloserAt, flags, signal
    <3> QED
      BY <2>0, <3>1 DEF WakeInv, NoLostWakeup
  <2>3. CASE EndClose \/ CountQueue
    <3>1. UNCHANGED <<queue, wake>> /\ (stopping' = TRUE \/ stopping' = stopping)
          /\ closer' \in {"count", "clear"}
      BY <2>3 DEF EndClose, CountQueue, flags, signal
    <3> QED
      BY <1>0, <2>0, <3>1 DEF WakeInv, NoLostWakeup
  <2>4. CASE ClearQueue
    <3>1. queue' = <<>> /\ closer' = "closed"
      BY <2>4 DEF ClearQueue
    <3> QED
      BY <1>0, <2>0, <3>1 DEF WakeInv, NoLostWakeup
  <2> QED
    BY <1>13, <2>1, <2>2, <2>3, <2>4 DEF CloseStep
<1> QED
  BY <1>2, <1>3, <1>6, <1>7, <1>8, <1>9, <1>10, <1>11, <1>12, <1>13 DEF SidecarNext, EmitStep

-----------------------------------------------------------------------------

\* The client that has connected, and the child of a fork.
LEMMA SidecarStarts == SidecarInit => SidecarInv
<1> SUFFICES ASSUME SidecarInit PROVE SidecarInv
  OBVIOUS
<1>1. /\ queue = <<>> /\ batch = <<>> /\ frames = <<>> /\ delivered = <<>> /\ settled = {}
      /\ <<>> \in Seq(Events) /\ Len(<<>>) = 0 /\ acks = 0 /\ emitted = 0
      /\ sender \in {"top", "none"} /\ closer = "out" /\ droppedEmit = 0 /\ droppedSend = 0
      /\ \A t \in Emitters : emitter[t] = Quiet
  BY DEF SidecarInit, Connected, Forked
<1>2. Queued = {} /\ Carried = {} /\ Arrived = {} /\ Distinct(<<>>)
  BY <1>1, NothingInEmpty, NothingWritten DEF Queued, Carried, Arrived
<1>3. \A t \in Emitters : emitter[t].at = "out"
  BY <1>1 DEF Quiet
<1>4. SidecarTypeOK
  <2>1. PlacesOK
    BY DEF SidecarInit, Connected, Forked, PlacesOK, SenderPlaces, CloserPlaces
  <2>2. ContentsOK
    BY <1>1, NothingWritten DEF ContentsOK
  <2>3. EmittersOK
    BY <1>1, <1>3, SidecarAssumption DEF SidecarInit, EmittersOK, EmitPlaces, Quiet
  <2> QED
    BY <2>1, <2>2, <2>3 DEF SidecarTypeOK
<1>5. OnceInv
  BY <1>1, <1>2, <1>3, NothingWritten DEF OnceInv, Pending
<1>6. ExchangeInv
  BY <1>1, <1>2, NothingWritten DEF ExchangeInv
<1>7. CountInv
  <2>1. Due = {}
    BY <1>1, <1>3 DEF Due
  <2>2. Due \ Safe = {} /\ Cardinality({}) = 0 /\ dropped = 0
    BY <1>1, <2>1, FS_EmptySet DEF dropped
  <2> QED
    BY <2>1, <2>2 DEF CountInv
<1>8. WakeInv
  BY <1>1 DEF SidecarInit, WakeInv, NoLostWakeup
<1> QED
  BY <1>4, <1>5, <1>6, <1>7, <1>8 DEF SidecarInv

\* Every event whose emit was over before close() began is in the queue, in the
\* batch, with the daemon or counted, none arrives twice, and none waits for a
\* wake-up that nobody sends: for any number of threads, any sizes of the queue
\* and the batch, any number of events and any number of failures (_client.py).
THEOREM NoEventIsLostAlways == SidecarSpec => []NoEventIsLost
<1>1. SidecarInit => SidecarInv
  BY SidecarStarts
<1>2. SidecarInv /\ [SidecarNext]_sidecarVars => SidecarInv'
  <2> SUFFICES ASSUME SidecarInv, [SidecarNext]_sidecarVars PROVE SidecarInv'
    OBVIOUS
  <2>1. SidecarTypeOK /\ OnceInv /\ ExchangeInv /\ CountInv /\ WakeInv
    BY DEF SidecarInv
  <2>2. SidecarTypeOK'
    BY <2>1, PlacesTyped, ContentsTyped, EmittersTyped DEF SidecarTypeOK
  <2>3. OnceInv' /\ ExchangeInv' /\ CountInv' /\ WakeInv'
    BY <2>1, OnceKept, ExchangeKept, CountKept, WakeKept
  <2> QED
    BY <2>2, <2>3 DEF SidecarInv
<1>3. SidecarInv => NoEventIsLost
  <2> SUFFICES ASSUME SidecarInv PROVE NoEventIsLost
    OBVIOUS
  <2>1. /\ Due \subseteq Events /\ Cardinality(Due \ Safe) <= dropped /\ Distinct(delivered) /\ NoLostWakeup
        /\ dropped \in Nat
    BY DEF SidecarInv, CountInv, OnceInv, WakeInv, SidecarTypeOK, PlacesOK, dropped
  <2> DEFINE missing == settled \ (ToSet(queue) \cup ToSet(batch) \cup ToSet(delivered))
  <2>2. Carried \subseteq ToSet(batch)
    BY NothingWritten DEF Carried, EventsOf
  <2>3. missing \subseteq Due \ Safe
    BY <2>2 DEF Due, Safe, Queued, Arrived
  <2>4. IsFiniteSet(Due \ Safe)
    <3>1. IsFiniteSet(Events)
      BY SidecarAssumption, FS_Interval DEF Events
    <3> QED
      BY <2>1, <3>1, FS_Subset
  <2>5. /\ IsFiniteSet(missing) /\ Cardinality(missing) <= Cardinality(Due \ Safe)
        /\ Cardinality(missing) \in Nat /\ Cardinality(Due \ Safe) \in Nat
    BY <2>3, <2>4, FS_Subset, FS_CardinalityType
  <2>6. Cardinality(missing) <= dropped
    <3> HIDE DEF missing
    <3> QED
      BY <2>1, <2>5
  <2> QED
    BY <2>1, <2>6 DEF NoEventIsLost, EachEventOnceOrCounted, Distinct
<1> QED
  BY <1>1, <1>2, <1>3, PTL DEF SidecarSpec

-----------------------------------------------------------------------------
(* The handlers and the imports (SidecarHooks).                            *)

Programs == {"default", "ignored", "own", "chain"}
Names == Programs \cup {"ours", "none"}

HooksTypeOK ==
    /\ real \in [Slots -> [now : Names, kept : Names]]
    /\ plain \in [Slots -> [now : Names, kept : Names]]
    /\ previous \in [Slots -> Names] /\ current \in Names
    /\ todo \subseteq Libraries /\ looked \in Libraries \cup {NoLibrary}
    /\ pending \in [Libraries -> Nat] /\ fired \in [Libraries -> Nat]
    /\ lib \in [Libraries -> {"absent", "found", "executing", "fired", "loaded"}]

\* The handler that ours replaced: install_hooks sets ours first, and notes
\* what it found then.
Replacing(s) == IF s = "sigterm" /\ api = "remember" THEN current ELSE previous[s]

SameHandler(s) == real[s].now = plain[s].now /\ real[s].kept = plain[s].kept

\* The program's handler is in place, or ours is there in its stead.
SlotInv(s) ==
    /\ plain[s].now \in Programs
    /\ plain[s].now = "chain" => plain[s].kept \in Programs \ {"chain"}
    /\ plain[s].kept \in Programs \cup {"none"}
    /\ s \notin leaked =>
          \/ SameHandler(s)
          \/ /\ real[s].now = "ours" /\ real[s].kept = plain[s].kept
             /\ plain[s].now = Replacing(s)
HandlersInv ==
    /\ \A s \in Slots : SlotInv(s)
    /\ Replacing("sigterm") # "ignored"
    /\ api = "remember" => previous["sigterm"] = "none"

\* A library that is registered will call back, or has, wherever its import is.
Ready(m) ==
    /\ lib[m] = "absent" => finder /\ pending[m] > 0
    /\ lib[m] = "found" => m \in wrapped /\ pending[m] > 0
    /\ lib[m] = "executing" => m \in instrumented \/ (m \in wrapped /\ pending[m] > 0)
    /\ lib[m] = "fired" => m \in instrumented \/ fired[m] > 0
    /\ lib[m] = "loaded" => m \in instrumented
ImportsInv ==
    /\ (\E m \in Libraries : pending[m] > 0) => finder
    /\ looked # NoLibrary => api = "imports"
    /\ api = "remember" => todo = Libraries
    /\ api = "attached" => todo = {} /\ looked = NoLibrary
    /\ api \in {"remember", "imports", "attached"} =>
          \A m \in Libraries \ raced : m \in todo \/ looked = m \/ Ready(m)

HooksInv == HooksTypeOK /\ HandlersInv /\ ImportsInv

LEMMA HooksStart == HooksInit => HooksInv
<1> SUFFICES ASSUME HooksInit PROVE HooksInv
  OBVIOUS
<1>1. HooksTypeOK
  BY DEF HooksInit, HooksTypeOK, Names, Programs
<1>2. HandlersInv
  BY DEF HooksInit, HandlersInv, SlotInv, SameHandler, Replacing, Programs, Slots
<1>3. ImportsInv
  BY DEF HooksInit, ImportsInv
<1> QED
  BY <1>1, <1>2, <1>3 DEF HooksInv

\* What the sidecar's steps leave alone.
LEMMA HooksTyped ==
    ASSUME HooksTypeOK, HandlersInv, [HooksNext]_hookVars
    PROVE  HooksTypeOK'
<1> USE DEF HooksTypeOK
<1>1. ASSUME NEW s \in Slots, SetHandler(s)
      PROVE  HooksTypeOK'
  BY <1>1 DEF SetHandler, Change, Replaced, Handlers, importRest, registry, imports, Names, Programs
<1>2. ASSUME NEW s \in Slots, RestoreHandler(s)
      PROVE  HooksTypeOK'
  BY <1>2 DEF RestoreHandler, Change, PutBack, importRest, registry, imports
<1>3. CASE Attach
  BY <1>3 DEF Attach, slots, registry, imports
<1>4. CASE HookExceptions
  BY <1>4 DEF HookExceptions, importRest, registry, imports, Names, Slots
<1>5. CASE HookSignal
  BY <1>5 DEF HookSignal, registry, imports, Names, Slots
<1>6. CASE Remember
  BY <1>6 DEF Remember, importRest, registry, imports, Names, Slots
<1>7. CASE Register
  BY <1>7 DEF Register, slots, imports
<1>8. CASE Attached
  BY <1>8 DEF Attached, slots, importRest, registry, imports
<1>9. CASE Cancel
  BY <1>9 DEF Cancel, slots, imports
<1>10. CASE RemoveHooks
  BY <1>10 DEF RemoveHooks, importRest, registry, imports, Names
<1>11. ASSUME NEW m \in Libraries,
              WhenImported(m) \/ FindSpec(m) \/ ExecModule(m) \/ Fire(m) \/ RunCallbacks(m)
       PROVE  HooksTypeOK'
  BY <1>11 DEF WhenImported, FindSpec, ExecModule, Fire, RunCallbacks, ImportRest, slots,
               registry, imports
<1>12. CASE UNCHANGED hookVars
  BY <1>12 DEF hookVars, slots, importRest, registry, imports
<1> QED
  BY <1>1, <1>2, <1>3, <1>4, <1>5, <1>6, <1>7, <1>8, <1>9, <1>10, <1>11, <1>12 DEF HooksNext

LEMMA HandlersKept ==
    ASSUME HooksTypeOK, HandlersInv, [HooksNext]_hookVars
    PROVE  HandlersInv'
<1> USE DEF HandlersInv, SlotInv, SameHandler, Replacing, Programs
<1>1. ASSUME NEW s \in Slots, SetHandler(s)
      PROVE  HandlersInv'
  <2>1. PICK h \in Handlers(s) : /\ h = "chain" => plain[s].now # "chain"
                                 /\ Change(s, Replaced(real[s], h), Replaced(plain[s], h))
    BY <1>1 DEF SetHandler
  <2>2. /\ real' = [real EXCEPT ![s] = Replaced(real[s], h)]
        /\ plain' = [plain EXCEPT ![s] = Replaced(plain[s], h)]
        /\ leaked \subseteq leaked'
        /\ Replaced(real[s], h).kept = "ours" => s \in leaked'
        /\ previous' = previous /\ current' = current /\ api' = api
    BY <2>1 DEF Change
  <2>3. h \in Programs
    BY DEF Handlers
  <2>4. ASSUME NEW u \in Slots
        PROVE  SlotInv(u)'
    <3>1. CASE u # s
      BY <2>2, <3>1 DEF HooksTypeOK
    <3>2. CASE u = s
      <4>1. /\ real'[s] = Replaced(real[s], h) /\ plain'[s] = Replaced(plain[s], h)
        BY <2>2 DEF HooksTypeOK
      <4> QED
        BY <2>1, <2>2, <2>3, <3>2, <4>1 DEF Replaced
    <3> QED
      BY <3>1, <3>2
  <2> QED
    BY <2>2, <2>4
<1>2. ASSUME NEW s \in Slots, RestoreHandler(s)
      PROVE  HandlersInv'
  <2>1. /\ plain[s].now = "chain"
        /\ real' = [real EXCEPT ![s] = PutBack(real[s])]
        /\ plain' = [plain EXCEPT ![s] = PutBack(plain[s])]
        /\ leaked \subseteq leaked'
        /\ previous' = previous /\ current' = current /\ api' = api
    BY <1>2 DEF RestoreHandler, Change
  <2>2. ASSUME NEW u \in Slots
        PROVE  SlotInv(u)'
    <3>1. CASE u # s
      BY <2>1, <3>1 DEF HooksTypeOK
    <3>2. CASE u = s
      <4>1. /\ real'[s].now = real[s].kept /\ real'[s].kept = real[s].kept
            /\ plain'[s].now = plain[s].kept /\ plain'[s].kept = plain[s].kept
        BY <2>1 DEF HooksTypeOK, PutBack
      <4> QED
        BY <2>1, <3>2, <4>1
    <3> QED
      BY <3>1, <3>2
  <2> QED
    BY <2>1, <2>2
<1>3. CASE Attach
  BY <1>3 DEF Attach, slots
<1>4. CASE HookExceptions
  <2>1. /\ api # "remember" /\ api' # "remember" /\ plain' = plain /\ leaked' = leaked
        /\ real'["sigterm"] = real["sigterm"] /\ previous'["sigterm"] = previous["sigterm"]
    BY <1>4 DEF HookExceptions, HooksTypeOK, Slots, importRest
  <2>2. CASE previous["excepthook"] = "none"
    <3>1. /\ previous'["excepthook"] = real["excepthook"].now
          /\ real'["excepthook"].now = "ours" /\ real'["excepthook"].kept = real["excepthook"].kept
      BY <1>4, <2>2 DEF HookExceptions, HooksTypeOK, Slots
    <3> QED
      BY <2>1, <2>2, <3>1 DEF Slots
  <2>3. CASE previous["excepthook"] # "none"
    BY <1>4, <2>1, <2>3 DEF HookExceptions
  <2> QED
    BY <2>2, <2>3
<1>5. CASE HookSignal
  <2>1. CASE MayHook
    <3>1. /\ api # "remember" /\ api' = "remember" /\ previous["sigterm"] = "none"
          /\ previous' = previous /\ plain' = plain /\ leaked' = leaked
          /\ current' = real["sigterm"].now /\ real["sigterm"].now # "ignored"
          /\ real'["sigterm"].now = "ours" /\ real'["sigterm"].kept = real["sigterm"].kept
          /\ real'["excepthook"] = real["excepthook"]
      BY <1>5, <2>1 DEF HookSignal, MayHook, HooksTypeOK, Slots
    <3> QED
      BY <3>1 DEF Slots
  <2>2. CASE ~MayHook
    BY <1>5, <2>2 DEF HookSignal
  <2> QED
    BY <2>1, <2>2
<1>6. CASE Remember
  <2>1. /\ api = "remember" /\ api' = "imports" /\ real' = real /\ plain' = plain
        /\ leaked' = leaked /\ previous'["sigterm"] = current
        /\ previous'["excepthook"] = previous["excepthook"]
    BY <1>6 DEF Remember, HooksTypeOK, Slots
  <2> QED
    BY <2>1 DEF Slots
<1>7. CASE Register \/ Attached \/ Cancel
  BY <1>7 DEF Register, Attached, Cancel, slots, ImportsInv
<1>8. CASE RemoveHooks
  <2>1. /\ api # "remember" /\ api' = "detached" /\ plain' = plain
        /\ \A s \in Slots : /\ previous'[s] = "none" /\ real'[s].kept = real[s].kept
                            /\ real'[s].now = IF UndoneBy(s) THEN previous[s] ELSE real[s].now
        /\ leaked' = leaked \cup {s \in Slots : real'[s].now = "ours"}
    BY <1>8 DEF RemoveHooks, HooksTypeOK
  <2>2. ASSUME NEW s \in Slots
        PROVE  SlotInv(s)'
    BY <2>1 DEF UndoneBy
  <2> QED
    BY <2>1, <2>2 DEF Slots
<1>9. ASSUME NEW m \in Libraries,
             WhenImported(m) \/ FindSpec(m) \/ ExecModule(m) \/ Fire(m) \/ RunCallbacks(m)
      PROVE  HandlersInv'
  BY <1>9 DEF WhenImported, FindSpec, ExecModule, Fire, RunCallbacks, ImportRest, slots
<1>10. CASE UNCHANGED hookVars
  BY <1>10 DEF hookVars, slots
<1> QED
  BY <1>1, <1>2, <1>3, <1>4, <1>5, <1>6, <1>7, <1>8, <1>9, <1>10 DEF HooksNext

LEMMA ImportsKept ==
    ASSUME HooksTypeOK, HooksTypeOK', ImportsInv, [HooksNext]_hookVars
    PROVE  ImportsInv'
<1> USE DEF ImportsInv
<1>1. CASE UNCHANGED <<registry, imports, todo, looked, raced>>
            /\ api' \in {api, "hooking", "signal", "cancelled", "detached"}
            /\ (looked # NoLibrary => api' = api)
  BY <1>1 DEF registry, imports, Ready
<1>2. ASSUME NEW s \in Slots, SetHandler(s) \/ RestoreHandler(s)
      PROVE  ImportsInv'
  BY <1>1, <1>2 DEF SetHandler, RestoreHandler, Change, importRest
<1>3. CASE Attach \/ HookExceptions \/ RemoveHooks
  BY <1>1, <1>3 DEF Attach, HookExceptions, RemoveHooks, importRest
<1>4. CASE HookSignal
  BY <1>4 DEF HookSignal, registry
<1>5. CASE Remember \/ Attached
  BY <1>5 DEF Remember, Attached, importRest, registry, imports, Ready
<1>6. CASE Register
  <2>1. /\ api = "imports" /\ api' = api /\ looked \in Libraries /\ looked' = NoLibrary
        /\ finder' /\ todo' = todo /\ lib' = lib /\ wrapped' = wrapped /\ fired' = fired
        /\ instrumented' = instrumented
        /\ pending' = [pending EXCEPT ![looked] = @ + 1]
        /\ raced' = IF lib[looked] = "absent" THEN raced ELSE raced \cup {looked}
    BY <1>6 DEF Register, imports, HooksTypeOK
  <2>2. \A m \in Libraries : /\ pending[m] \in Nat
                             /\ pending'[m] = IF m = looked THEN pending[m] + 1 ELSE pending[m]
    BY <2>1 DEF HooksTypeOK
  <2>3. ASSUME NEW m \in Libraries \ raced'
        PROVE  m \in todo' \/ Ready(m)'
    BY <2>1, <2>2, HooksAssumption DEF Ready
  <2> QED
    BY <2>1, <2>3
<1>7. CASE Cancel
  BY <1>7 DEF Cancel
<1>8. ASSUME NEW m \in Libraries, WhenImported(m)
      PROVE  ImportsInv'
  <2>1. /\ api' = api /\ api = "imports" /\ looked = NoLibrary /\ todo' = todo \ {m}
        /\ UNCHANGED <<pending, finder, fired, lib, wrapped, raced>>
        /\ IF InModules(m) THEN instrumented' = instrumented \cup {m} /\ looked' = looked
           ELSE looked' = m /\ instrumented' = instrumented
    BY <1>8 DEF WhenImported, imports
  <2>2. ASSUME NEW n \in Libraries \ raced
        PROVE  n \in todo' \/ looked' = n \/ Ready(n)'
    <3>1. lib[n] \in {"absent", "found", "executing", "fired", "loaded"}
      BY DEF HooksTypeOK
    <3> QED
      BY <2>1, <3>1, HooksAssumption DEF InModules, Ready
  <2> QED
    BY <2>1, <2>2
<1>9. ASSUME NEW m \in Libraries, FindSpec(m) \/ ExecModule(m) \/ Fire(m) \/ RunCallbacks(m)
      PROVE  ImportsInv'
  <2>1. UNCHANGED <<api, todo, looked, raced>>
    BY <1>9 DEF FindSpec, ExecModule, Fire, RunCallbacks, ImportRest
  <2>2. /\ instrumented \subseteq instrumented' /\ wrapped \subseteq wrapped'
        /\ \A n \in Libraries \ {m} :
              lib'[n] = lib[n] /\ pending'[n] = pending[n] /\ fired'[n] = fired[n]
    BY <1>9 DEF FindSpec, ExecModule, Fire, RunCallbacks, registry, HooksTypeOK
  <2>3. (\E n \in Libraries : pending'[n] > 0) => finder'
    <3>1. CASE Fire(m) /\ m \in wrapped
      <4>1. pending'[m] = 0
        BY <3>1 DEF Fire, HooksTypeOK
      <4>2. /\ finder' = StillWanted(m)
            /\ \A n \in Libraries : pending'[n] > 0 => n # m /\ pending[n] > 0
        BY <2>2, <3>1, <4>1 DEF Fire
      <4> QED
        BY <4>2 DEF StillWanted
    <3>2. CASE ~(Fire(m) /\ m \in wrapped)
      BY <1>9, <3>2 DEF FindSpec, ExecModule, Fire, RunCallbacks, registry
    <3> QED
      BY <3>1, <3>2
  <2>4. ASSUME NEW n \in Libraries \ {m}, Ready(n)
        PROVE  Ready(n)'
    BY <2>2, <2>3, <2>4 DEF Ready
  <2>5. Ready(m) => Ready(m)'
    <3>1. CASE FindSpec(m)
      BY <3>1 DEF FindSpec, registry, Ready, HooksTypeOK
    <3>2. CASE ExecModule(m)
      BY <3>2 DEF ExecModule, registry, Ready, HooksTypeOK
    <3>3. CASE Fire(m)
      BY <3>3 DEF Fire, Ready, HooksTypeOK
    <3>4. CASE RunCallbacks(m)
      BY <3>4 DEF RunCallbacks, Ready, HooksTypeOK
    <3> QED
      BY <1>9, <3>1, <3>2, <3>3, <3>4
  <2> QED
    BY <2>1, <2>3, <2>4, <2>5
<1>10. CASE UNCHANGED hookVars
  BY <1>1, <1>10 DEF hookVars, importRest, registry, imports
<1> QED
  BY <1>2, <1>3, <1>4, <1>5, <1>6, <1>7, <1>8, <1>9, <1>10 DEF HooksNext

\* Handing over, ours runs what the program would have run.
LEMMA HandlersRun ==
    ASSUME HandlersInv, api # "remember", NEW s \in Slots \ leaked
    PROVE  Unchanged(s)
<1>1. /\ SlotInv(s) /\ (s = "sigterm" => previous[s] # "ignored") /\ Replacing(s) = previous[s]
  BY DEF HandlersInv, Replacing
<1>2. plain[s].now # "ours" /\ plain[s].kept # "ours"
  BY <1>1 DEF SlotInv, Programs
<1>3. HandsOver(s, plain[s].now, "none") = plain[s].now
  BY <1>2 DEF HandsOver
<1>4. HandsOver(s, real[s].now, previous[s]) = plain[s].now
  <2>1. CASE SameHandler(s)
    BY <1>2, <2>1 DEF HandsOver, SameHandler
  <2>2. CASE real[s].now = "ours" /\ plain[s].now = previous[s]
    BY <1>1, <2>2 DEF HandsOver, SlotInv, Programs, Callable
  <2> QED
    BY <1>1, <2>1, <2>2 DEF SlotInv
<1>5. real[s].kept = plain[s].kept
  BY <1>1 DEF SlotInv, SameHandler
<1>6. \A h : Callee(s, h, real[s].kept, previous[s]) = Callee(s, h, plain[s].kept, "none")
  BY <1>2, <1>5 DEF Callee, HandsOver
<1> QED
  BY <1>3, <1>4, <1>6 DEF Unchanged, Outcome

\* For any libraries and any number of handlers set and calls of attach and
\* detach: a signal or an uncaught exception runs the program's own handlers
\* as it would without the sidecar, unless ours was left behind; and after
\* attach every library is instrumented when its import is over, unless it
\* was under way when it was registered.
THEOREM SidecarIsTransparentAlways == HooksSpec => []SidecarIsTransparent
<1>1. HooksInit => HooksInv
  BY HooksStart
<1>2. HooksInv /\ [HooksNext]_hookVars => HooksInv'
  <2> SUFFICES ASSUME HooksInv, [HooksNext]_hookVars PROVE HooksInv'
    OBVIOUS
  <2>1. HooksTypeOK /\ HandlersInv /\ ImportsInv
    BY DEF HooksInv
  <2>2. HooksTypeOK' /\ HandlersInv'
    BY <2>1, HooksTyped, HandlersKept
  <2>3. ImportsInv'
    BY <2>1, <2>2, ImportsKept
  <2> QED
    BY <2>2, <2>3 DEF HooksInv
<1>3. HooksInv => SidecarIsTransparent
  <2> SUFFICES ASSUME HooksInv PROVE SidecarIsTransparent
    OBVIOUS
  <2>1. HandlersInv /\ ImportsInv
    BY DEF HooksInv
  <2>2. HandlersAreTransparent
    BY <2>1, HandlersRun DEF HandlersAreTransparent
  <2>3. LibrariesAreInstrumented
    BY <2>1, HooksAssumption DEF LibrariesAreInstrumented, ImportsInv, Ready
  <2> QED
    BY <2>2, <2>3 DEF SidecarIsTransparent
<1> QED
  BY <1>1, <1>2, <1>3, PTL DEF HooksSpec
-----------------------------------------------------------------------------
(* Attribution: sums over finite sets.                                     *)

\* A bounded set of naturals that is not empty has a greatest member.
LEMMA GreatestIsMember ==
    ASSUME NEW n \in Nat, NEW G \in SUBSET (0 .. n), G # {}
    PROVE  Max(G) \in G /\ \A k \in G : Max(G) >= k
<1> DEFINE T == {n - k : k \in G}
<1>1. T \subseteq Nat /\ T # {}
  <2>1. \A k \in G : n - k \in Nat
    OBVIOUS
  <2> QED
    BY <2>1
<1> HIDE DEF T
<1>2. PICK m \in T : \A k \in T : <<k, m>> \notin OpToRel(<, Nat)
  BY <1>1, WFMin, NatLessThanWellFounded, Zenon
<1>3. \A k \in T : ~(k < m)
  <2> SUFFICES ASSUME NEW k \in T PROVE ~(k < m)
    OBVIOUS
  <2> QED
    BY <1>1, <1>2, Zenon DEF OpToRel
<1>4. PICK g \in G : m = n - g
  BY DEF T
<1>5. ASSUME NEW k \in G
      PROVE  g >= k
  <2>1. n - k \in T
    BY DEF T
  <2> QED
    BY <1>3, <1>4, <2>1
<1>6. \E x \in G : \A y \in G : x >= y
  BY <1>5
<1> QED
  BY <1>6, Zenon DEF Max


\* A set of subsets that grows one element at a time reaches them all.
LEMMA SubsetInduction ==
    ASSUME NEW S, IsFiniteSet(S), NEW Q, {} \in Q,
           \A U \in SUBSET S, x \in S : U \in Q /\ x \notin U => U \cup {x} \in Q
    PROVE  SUBSET S \subseteq Q
<1> DEFINE G == {k \in 0 .. Cardinality(S) : \A U \in SUBSET S : Cardinality(U) = k => U \in Q}
<1>1. Cardinality(S) \in Nat /\ \A U \in SUBSET S : IsFiniteSet(U) /\ Cardinality(U) \in 0 .. Cardinality(S)
  BY FS_CardinalityType, FS_Subset
<1>2. 0 \in G
  <2>1. ASSUME NEW U \in SUBSET S, Cardinality(U) = 0
        PROVE  U = {}
    <3>1. IsFiniteSet(U)
      BY <1>1
    <3> QED
      BY <2>1, <3>1, FS_EmptySet, Zenon
  <2>2. 0 \in 0 .. Cardinality(S)
    BY <1>1
  <2>3. \A U \in SUBSET S : Cardinality(U) = 0 => U \in Q
    BY <2>1, Zenon
  <2> QED
    BY <2>2, <2>3, Zenon
<1>3. ASSUME NEW k \in 0 .. Cardinality(S), k # Cardinality(S), k \in G
      PROVE  k + 1 \in G
  <2>1. ASSUME NEW U \in SUBSET S, Cardinality(U) = k + 1
        PROVE  U \in Q
    <3>1. U # {}
      BY <1>3, <2>1, FS_EmptySet
    <3>2. PICK x \in U : TRUE
      BY <3>1
    <3> DEFINE V == U \ {x}
    <3>3. V \in SUBSET S /\ x \in S /\ x \notin V /\ V \cup {x} = U
      BY <3>2
    <3>4. Cardinality(V) = k
      <4>1. IsFiniteSet(U)
        BY <1>1
      <4>2. Cardinality(V) = Cardinality(U) - 1
        BY <3>2, <4>1, FS_RemoveElement, Zenon
      <4> QED
        BY <1>3, <2>1, <4>2
    <3>5. V \in Q
      BY <1>3, <3>3, <3>4
    <3> HIDE DEF V
    <3>6. V \cup {x} \in Q
      BY <3>3, <3>5
    <3> QED
      BY <3>3, <3>6
  <2>2. k + 1 \in 0 .. Cardinality(S)
    BY <1>1, <1>3
  <2> QED
    BY <2>1, <2>2
<1> HIDE DEF G
<1>4. 0 .. Cardinality(S) \subseteq G
  BY <1>1, <1>2, <1>3, InductionUpTo
<1> QED
  BY <1>1, <1>4 DEF G

\* g[T] is the sum of f over T, for each part T of S.
Totals(f, S, g) ==
    /\ g \in [SUBSET S -> Nat] /\ g[{}] = 0
    /\ \A T \in SUBSET S : \A x \in T : g[T] = f[x] + g[T \ {x}]

LEMMA TotalsExist ==
    ASSUME NEW S, IsFiniteSet(S), NEW f, \A x \in S : f[x] \in Nat
    PROVE  \E g : Totals(f, S, g)
<1> DEFINE Q == {U \in SUBSET S : \E g : Totals(f, U, g)}
<1>1. {} \in Q
  <2> DEFINE g == [T \in SUBSET {} |-> 0]
  <2>1. Totals(f, {}, g)
    BY DEF Totals
  <2> QED
    BY <2>1
<1>2. ASSUME NEW U \in SUBSET S, NEW x \in S, U \in Q, x \notin U
      PROVE  U \cup {x} \in Q
  <2>1. PICK g : Totals(f, U, g)
    BY <1>2
  <2> DEFINE W == U \cup {x}
             h == [T \in SUBSET W |-> IF x \in T THEN f[x] + g[T \ {x}] ELSE g[T]]
  <2>2. \A T \in SUBSET W : T \ {x} \in SUBSET U /\ (x \notin T => T \in SUBSET U)
    BY <1>2
  <2>3. f[x] \in Nat /\ \A T \in SUBSET U : g[T] \in Nat
    BY <2>1 DEF Totals
  <2>4. h \in [SUBSET W -> Nat]
    BY <2>2, <2>3
  <2>5. h[{}] = 0
    BY <2>1 DEF Totals
  <2>6. ASSUME NEW T \in SUBSET W, NEW y \in T
        PROVE  h[T] = f[y] + h[T \ {y}]
    <3>0. T \ {y} \in SUBSET W
      OBVIOUS
    <3>1. CASE y = x
      <4>1. x \in T /\ x \notin T \ {y}
        BY <2>6, <3>1
      <4>2. h[T] = f[x] + g[T \ {x}] /\ h[T \ {y}] = g[T \ {x}]
        BY <3>0, <3>1, <4>1
      <4> QED
        BY <3>1, <4>2
    <3>2. CASE y # x /\ x \in T
      <4> DEFINE V == T \ {x}
      <4>1. V \in SUBSET U /\ y \in V /\ (T \ {y}) \ {x} = V \ {y} /\ x \in T \ {y}
        BY <2>2, <2>6, <3>2
      <4>2. h[T] = f[x] + g[V] /\ h[T \ {y}] = f[x] + g[V \ {y}]
        BY <3>0, <3>2, <4>1
      <4>3. g[V] = f[y] + g[V \ {y}]
        BY <2>1, <4>1 DEF Totals
      <4>4. f[y] \in Nat /\ g[V \ {y}] \in Nat
        BY <2>3, <4>1
      <4> HIDE DEF h, V
      <4> QED
        BY <2>3, <4>2, <4>3, <4>4
    <3>3. CASE x \notin T
      <4>1. T \in SUBSET U /\ x \notin T \ {y}
        BY <2>2, <3>3
      <4>2. h[T] = g[T] /\ h[T \ {y}] = g[T \ {y}]
        BY <3>0, <3>3, <4>1
      <4>3. g[T] = f[y] + g[T \ {y}]
        BY <2>1, <4>1 DEF Totals
      <4> QED
        BY <4>2, <4>3
    <3> QED
      BY <3>1, <3>2, <3>3
  <2> HIDE DEF h
  <2>7. Totals(f, W, h)
    BY <2>4, <2>5, <2>6 DEF Totals
  <2> QED
    BY <1>2, <2>7
<1> HIDE DEF Q
<1>3. SUBSET S \subseteq Q
  BY <1>1, <1>2, SubsetInduction
<1>4. S \in Q
  BY <1>3
<1> QED
  BY <1>4 DEF Q

LEMMA TotalIs ==
    ASSUME NEW S, IsFiniteSet(S), NEW f, NEW g, Totals(f, S, g)
    PROVE  SumFunctionOnSet(f, S) = g[S]
<1> DEFINE Rest(h, T) == IF T = {} THEN 0
                         ELSE f[CHOOSE x \in T : TRUE] + h[T \ {CHOOSE x \in T : TRUE}]
           K == CHOOSE h : h = [T \in SUBSET S |-> Rest(h, T)]
<1>1. SumFunctionOnSet(f, S) = K[S]
  BY Zenon DEF SumFunctionOnSet, FoldFunctionOnSet, MapThenFoldSet
<1>2. g \in [SUBSET S -> Nat] /\ g[{}] = 0
  BY DEF Totals
<1>3. \A T \in SUBSET S : g[T] = Rest(g, T)
  <2> TAKE T \in SUBSET S
  <2>1. CASE T = {}
    BY <1>2, <2>1
  <2>2. CASE T # {}
    <3>1. (CHOOSE x \in T : TRUE) \in T
      BY <2>2
    <3> QED
      BY <2>2, <3>1 DEF Totals
  <2> QED
    BY <2>1, <2>2
<1>4. g = [T \in SUBSET S |-> Rest(g, T)]
  BY <1>2, <1>3
<1>5. K = [T \in SUBSET S |-> Rest(K, T)]
  BY <1>4, Zenon
<1> HIDE DEF K
<1> DEFINE G == {k \in 0 .. Cardinality(S) : \A U \in SUBSET S : Cardinality(U) = k => K[U] = g[U]}
<1>6. Cardinality(S) \in Nat /\ \A U \in SUBSET S : IsFiniteSet(U) /\ Cardinality(U) \in 0 .. Cardinality(S)
  BY FS_CardinalityType, FS_Subset
<1>7. 0 \in G
  <2>1. ASSUME NEW U \in SUBSET S, Cardinality(U) = 0
        PROVE  U = {}
    <3>1. IsFiniteSet(U)
      BY <1>6
    <3> QED
      BY <2>1, <3>1, FS_EmptySet, Zenon
  <2>2. K[{}] = 0
    BY <1>5
  <2>3. 0 \in 0 .. Cardinality(S)
    BY <1>6
  <2>4. \A U \in SUBSET S : Cardinality(U) = 0 => K[U] = g[U]
    BY <1>2, <2>1, <2>2, Zenon
  <2> QED
    BY <2>3, <2>4, Zenon
<1>8. ASSUME NEW k \in 0 .. Cardinality(S), k # Cardinality(S), k \in G
      PROVE  k + 1 \in G
  <2>1. ASSUME NEW U \in SUBSET S, Cardinality(U) = k + 1
        PROVE  K[U] = g[U]
    <3>1. U # {}
      BY <1>8, <2>1, FS_EmptySet
    <3> DEFINE x == CHOOSE x \in U : TRUE
               V == U \ {x}
    <3>2. x \in U
      BY <3>1
    <3>3. K[U] = f[x] + K[V]
      BY <1>5, <3>1
    <3> HIDE DEF x
    <3>4. V \in SUBSET S /\ Cardinality(V) = k
      <4>1. IsFiniteSet(U)
        BY <1>6
      <4>2. Cardinality(V) = Cardinality(U) - 1
        BY <3>2, <4>1, FS_RemoveElement, Zenon
      <4> QED
        BY <1>8, <2>1, <4>2
    <3>5. K[V] = g[V]
      BY <1>8, <3>4
    <3>6. g[U] = f[x] + g[V]
      BY <3>2 DEF Totals
    <3> QED
      BY <3>3, <3>5, <3>6
  <2>2. k + 1 \in 0 .. Cardinality(S)
    BY <1>6, <1>8
  <2> QED
    BY <2>1, <2>2
<1> HIDE DEF G
<1>9. 0 .. Cardinality(S) \subseteq G
  BY <1>6, <1>7, <1>8, InductionUpTo
<1> QED
  BY <1>1, <1>6, <1>9 DEF G

LEMMA SumsAre ==
    ASSUME NEW S, IsFiniteSet(S), NEW f, NEW g, Totals(f, S, g), NEW T \in SUBSET S
    PROVE  SumFunctionOnSet(f, T) = g[T]
<1> DEFINE h == [U \in SUBSET T |-> g[U]]
<1>1. IsFiniteSet(T)
  BY FS_Subset
<1>2. Totals(f, T, h)
  BY DEF Totals
<1>3. SumFunctionOnSet(f, T) = h[T]
  BY <1>1, <1>2, TotalIs
<1> QED
  BY <1>3

\* What a sum is: a natural, that of a part and one more.
LEMMA SumFacts ==
    ASSUME NEW S, IsFiniteSet(S), NEW f, \A x \in S : f[x] \in Nat
    PROVE  /\ SumFunctionOnSet(f, {}) = 0
           /\ \A T \in SUBSET S : SumFunctionOnSet(f, T) \in Nat
<1>1. PICK g : Totals(f, S, g)
  BY TotalsExist
<1>2. \A T \in SUBSET S : SumFunctionOnSet(f, T) = g[T]
  BY <1>1, SumsAre
<1> QED
  BY <1>1, <1>2 DEF Totals

LEMMA SumMore ==
    ASSUME NEW S, IsFiniteSet(S), NEW f, \A x \in S : f[x] \in Nat,
           NEW U \in SUBSET S, NEW x \in S, x \notin U
    PROVE  SumFunctionOnSet(f, U \cup {x}) = f[x] + SumFunctionOnSet(f, U)
<1>1. PICK g : Totals(f, S, g)
  BY TotalsExist
<1>2. \A T \in SUBSET S : SumFunctionOnSet(f, T) = g[T]
  BY <1>1, SumsAre
<1> DEFINE V == U \cup {x}
<1>3. V \in SUBSET S /\ x \in V /\ V \ {x} = U
  OBVIOUS
<1> HIDE DEF V
<1>4. g[V] = f[x] + g[U]
  BY <1>1, <1>3 DEF Totals
<1>5. SumFunctionOnSet(f, V) = g[V] /\ SumFunctionOnSet(f, U) = g[U]
  BY <1>2, <1>3
<1> QED
  BY <1>4, <1>5 DEF V

\* Only the values on the set count.
LEMMA SumSame ==
    ASSUME NEW S, IsFiniteSet(S), NEW f, NEW h, \A x \in S : f[x] \in Nat /\ h[x] = f[x]
    PROVE  SumFunctionOnSet(h, S) = SumFunctionOnSet(f, S)
<1> DEFINE Q == {U \in SUBSET S : SumFunctionOnSet(h, U) = SumFunctionOnSet(f, U)}
<1>1. \A x \in S : h[x] \in Nat
  OBVIOUS
<1>2. {} \in Q
  <2>1. SumFunctionOnSet(h, {}) = 0 /\ SumFunctionOnSet(f, {}) = 0
    BY <1>1, SumFacts
  <2> QED
    BY <2>1
<1>3. ASSUME NEW U \in SUBSET S, NEW x \in S, U \in Q, x \notin U
      PROVE  U \cup {x} \in Q
  <2>1. /\ SumFunctionOnSet(h, U \cup {x}) = h[x] + SumFunctionOnSet(h, U)
        /\ SumFunctionOnSet(f, U \cup {x}) = f[x] + SumFunctionOnSet(f, U)
    BY <1>1, <1>3, SumMore
  <2>2. SumFunctionOnSet(h, U \cup {x}) = SumFunctionOnSet(f, U \cup {x})
    BY <1>3, <2>1, Zenon
  <2> QED
    BY <2>2
<1> HIDE DEF Q
<1>4. SUBSET S \subseteq Q
  BY <1>2, <1>3, SubsetInduction
<1>5. S \in Q
  BY <1>4
<1> QED
  BY <1>5 DEF Q

\* The sum of a set is that of a part and of the rest.
LEMMA SumSplit ==
    ASSUME NEW S, IsFiniteSet(S), NEW f, \A x \in S : f[x] \in Nat, NEW T \in SUBSET S
    PROVE  /\ SumFunctionOnSet(f, S) = SumFunctionOnSet(f, T) + SumFunctionOnSet(f, S \ T)
           /\ SumFunctionOnSet(f, S) \in Nat /\ SumFunctionOnSet(f, T) \in Nat
           /\ SumFunctionOnSet(f, S \ T) \in Nat
<1> DEFINE R == S \ T
           Q == {U \in SUBSET R : SumFunctionOnSet(f, T \cup U)
                                    = SumFunctionOnSet(f, T) + SumFunctionOnSet(f, U)}
<1>1. /\ SumFunctionOnSet(f, {}) = 0
      /\ \A U \in SUBSET S : SumFunctionOnSet(f, U) \in Nat
  BY SumFacts
<1>2. R \in SUBSET S /\ IsFiniteSet(R) /\ T \cup R = S
  BY FS_Difference
<1>3. {} \in Q
  <2>1. T \cup {} = T /\ SumFunctionOnSet(f, T) \in Nat
    BY <1>1
  <2>2. SumFunctionOnSet(f, T \cup {}) = SumFunctionOnSet(f, T) + SumFunctionOnSet(f, {})
    BY <1>1, <2>1
  <2> QED
    BY <2>2
<1>4. ASSUME NEW U \in SUBSET R, NEW x \in R, U \in Q, x \notin U
      PROVE  U \cup {x} \in Q
  <2>1. /\ U \in SUBSET S /\ x \in S /\ T \cup U \in SUBSET S /\ x \notin T \cup U
        /\ T \cup (U \cup {x}) = (T \cup U) \cup {x}
    BY <1>2, <1>4
  <2>2. /\ SumFunctionOnSet(f, U \cup {x}) = f[x] + SumFunctionOnSet(f, U)
        /\ SumFunctionOnSet(f, T \cup (U \cup {x})) = f[x] + SumFunctionOnSet(f, T \cup U)
    BY <1>4, <2>1, SumMore
  <2>3. /\ f[x] \in Nat /\ SumFunctionOnSet(f, U) \in Nat /\ SumFunctionOnSet(f, T) \in Nat
        /\ SumFunctionOnSet(f, T \cup U) = SumFunctionOnSet(f, T) + SumFunctionOnSet(f, U)
    BY <1>1, <1>4, <2>1
  <2>4. SumFunctionOnSet(f, T \cup (U \cup {x}))
          = SumFunctionOnSet(f, T) + SumFunctionOnSet(f, U \cup {x})
    BY <2>2, <2>3
  <2> QED
    BY <1>4, <2>4
<1> HIDE DEF Q, R
<1>5. SUBSET R \subseteq Q
  BY <1>2, <1>3, <1>4, SubsetInduction
<1>6. R \in Q
  BY <1>5
<1>7. SumFunctionOnSet(f, T \cup R) = SumFunctionOnSet(f, T) + SumFunctionOnSet(f, R)
  BY <1>6 DEF Q
<1> QED
  BY <1>1, <1>2, <1>7 DEF R

\* Ones count.
LEMMA SumOfOnes ==
    ASSUME NEW S, IsFiniteSet(S)
    PROVE  SumFunctionOnSet([c \in S |-> 1], S) = Cardinality(S)
<1> DEFINE f == [c \in S |-> 1]
           Q == {U \in SUBSET S : SumFunctionOnSet(f, U) = Cardinality(U)}
<1>1. \A x \in S : f[x] \in Nat /\ f[x] = 1
  OBVIOUS
<1> HIDE DEF f
<1>2. {} \in Q
  <2>1. SumFunctionOnSet(f, {}) = 0
    BY <1>1, SumFacts
  <2> QED
    BY <2>1, FS_EmptySet
<1>3. ASSUME NEW U \in SUBSET S, NEW x \in S, U \in Q, x \notin U
      PROVE  U \cup {x} \in Q
  <2>1. SumFunctionOnSet(f, U \cup {x}) = f[x] + SumFunctionOnSet(f, U)
    BY <1>1, <1>3, SumMore
  <2>2. IsFiniteSet(U) /\ Cardinality(U) \in Nat
    BY FS_Subset, FS_CardinalityType
  <2>3. Cardinality(U \cup {x}) = Cardinality(U) + 1
    BY <1>3, <2>2, FS_AddElement
  <2>4. SumFunctionOnSet(f, U \cup {x}) = Cardinality(U \cup {x})
    BY <1>1, <1>3, <2>1, <2>2, <2>3
  <2> QED
    BY <2>4
<1> HIDE DEF Q
<1>4. SUBSET S \subseteq Q
  BY <1>2, <1>3, SubsetInduction
<1>5. S \in Q
  BY <1>4
<1> QED
  BY <1>5 DEF Q, f

\* How many of B each of S owns, and which are owned, counting only W.
OwnedBy(S, B, owner, W) == [c \in S |-> Cardinality({i \in B : owner[i] = c /\ i \in W})]
Owned(S, B, owner, W) == {i \in B : owner[i] \in S /\ i \in W}

\* Parts, each owned by one element, count their union.
LEMMA SumOfParts ==
    ASSUME NEW S, IsFiniteSet(S), NEW B, IsFiniteSet(B), NEW owner, NEW W
    PROVE  SumFunctionOnSet(OwnedBy(S, B, owner, W), S) = Cardinality(Owned(S, B, owner, W))
<1> DEFINE Part(c) == {i \in B : owner[i] = c /\ i \in W}
           All(U) == {i \in B : owner[i] \in U /\ i \in W}
           f == [c \in S |-> Cardinality(Part(c))]
           Q == {U \in SUBSET S : SumFunctionOnSet(f, U) = Cardinality(All(U))}
<1>1. \A c : IsFiniteSet(Part(c)) /\ Cardinality(Part(c)) \in Nat
  <2> TAKE c
  <2>1. Part(c) \in SUBSET B
    OBVIOUS
  <2> HIDE DEF Part
  <2> QED
    BY <2>1, FS_Subset, FS_CardinalityType
<1>2. \A x \in S : f[x] \in Nat
  BY <1>1
<1>3. \A x \in S : f[x] = Cardinality(Part(x))
  OBVIOUS
<1> HIDE DEF f
<1>4. {} \in Q
  <2>1. SumFunctionOnSet(f, {}) = 0
    BY <1>2, SumFacts
  <2>2. All({}) = {}
    OBVIOUS
  <2> HIDE DEF All
  <2>3. Cardinality(All({})) = 0
    BY <2>2, FS_EmptySet, Zenon
  <2> QED
    BY <2>1, <2>3
<1>5. ASSUME NEW U \in SUBSET S, NEW x \in S, U \in Q, x \notin U
      PROVE  U \cup {x} \in Q
  <2>1. SumFunctionOnSet(f, U \cup {x}) = f[x] + SumFunctionOnSet(f, U)
    BY <1>2, <1>5, SumMore
  <2>2. IsFiniteSet(All(U)) /\ Cardinality(All(U)) \in Nat
    <3>1. All(U) \in SUBSET B
      OBVIOUS
    <3> HIDE DEF All
    <3> QED
      BY <3>1, FS_Subset, FS_CardinalityType
  <2>3. All(U \cup {x}) = All(U) \cup Part(x) /\ All(U) \cap Part(x) = {}
    BY <1>5
  <2>4. Cardinality(All(U \cup {x})) = Cardinality(All(U)) + Cardinality(Part(x))
    <3> HIDE DEF All, Part
    <3>1. /\ Cardinality(All(U) \cup Part(x))
              = Cardinality(All(U)) + Cardinality(Part(x)) - Cardinality(All(U) \cap Part(x))
      BY <1>1, <2>2, FS_Union, Zenon
    <3>2. Cardinality(All(U) \cap Part(x)) = 0
      BY <2>3, FS_EmptySet, Zenon
    <3>3. Cardinality(All(U \cup {x})) = Cardinality(All(U) \cup Part(x))
      BY <2>3, Zenon
    <3>4. Cardinality(Part(x)) \in Nat
      BY <1>1
    <3> QED
      BY <2>2, <3>1, <3>2, <3>3, <3>4
  <2>5. SumFunctionOnSet(f, U) = Cardinality(All(U))
    BY <1>5
  <2> HIDE DEF All, Part
  <2>6. SumFunctionOnSet(f, U \cup {x}) = Cardinality(All(U \cup {x}))
    BY <1>1, <1>3, <2>1, <2>2, <2>4, <2>5
  <2> QED
    BY <2>6 DEF All
<1> HIDE DEF Q
<1>6. SUBSET S \subseteq Q
  BY <1>4, <1>5, SubsetInduction
<1>7. S \in Q
  BY <1>6
<1> QED
  BY <1>7 DEF Q, f, OwnedBy, Owned

-----------------------------------------------------------------------------
(* Attribution: sums over a tree.                                          *)

\* f sums q over the subtree of each of C.
Tree(C, q, kids, f) ==
    f \in [C -> Nat] /\ \A c \in C : f[c] = q[c] + SumFunctionOnSet(f, kids[c])

\* The kids of a number are greater, up to a bound.
Forest(C, kids, N) ==
    /\ C \in SUBSET Nat /\ IsFiniteSet(C) /\ N \in Nat /\ \A c \in C : c <= N
    /\ kids \in [C -> SUBSET C] /\ \A c \in C : \A d \in kids[c] : c < d

LEMMA TreeExists ==
    ASSUME NEW C, NEW kids, NEW N, Forest(C, kids, N), NEW q \in [C -> Nat]
    PROVE  \E f : Tree(C, q, kids, f)
<1>0. /\ C \in SUBSET Nat /\ IsFiniteSet(C) /\ N \in Nat /\ \A c \in C : c <= N
      /\ kids \in [C -> SUBSET C] /\ \A c \in C : \A d \in kids[c] : c < d
  BY DEF Forest
<1> DEFINE Upto(k, f) == /\ f \in [C -> Nat]
                         /\ \A c \in C : c > N - k => f[c] = q[c] + SumFunctionOnSet(f, kids[c])
           M == N + 1
           G == {k \in 0 .. M : \E f : Upto(k, f)}
<1>1. M \in Nat /\ 0 \in 0 .. M
  BY <1>0
<1>2. 0 \in G
  <2>1. Upto(0, [c \in C |-> 0])
    BY <1>0
  <2> HIDE DEF Upto
  <2> QED
    BY <1>1, <2>1
<1>3. ASSUME NEW k \in 0 .. M, k # M, k \in G
      PROVE  k + 1 \in G
  <2>1. PICK f : Upto(k, f)
    BY <1>3
  <2>2. k \in Nat /\ k + 1 \in 0 .. M /\ N - k \in Nat /\ \A c \in C : c > N - (k + 1) <=> c >= N - k
    BY <1>0, <1>3
  <2>3. CASE N - k \notin C
    <3>1. \A c \in C : c > N - (k + 1) => c > N - k
      BY <1>0, <2>2, <2>3
    <3>2. Upto(k + 1, f)
      BY <2>1, <3>1
    <3> HIDE DEF Upto
    <3> QED
      BY <2>2, <3>2
  <2>4. CASE N - k \in C
    <3> DEFINE m == N - k
               g == [c \in C |-> IF c = m THEN q[m] + SumFunctionOnSet(f, kids[m]) ELSE f[c]]
    <3>1. \A c \in C : IsFiniteSet(kids[c]) /\ SumFunctionOnSet(f, kids[c]) \in Nat
      <4> TAKE c \in C
      <4>1. kids[c] \in SUBSET C
        BY <1>0
      <4>2. f \in [C -> Nat]
        BY <2>1
      <4>3. \A x \in kids[c] : f[x] \in Nat
        BY <4>1, <4>2
      <4>4. IsFiniteSet(kids[c])
        BY <1>0, <4>1, FS_Subset
      <4>5. SumFunctionOnSet(f, kids[c]) \in Nat
        BY <4>3, <4>4, SumFacts
      <4> QED
        BY <4>4, <4>5
    <3>2. q[m] \in Nat /\ SumFunctionOnSet(f, kids[m]) \in Nat
      BY <2>4, <3>1
    <3>3. g \in [C -> Nat]
      BY <2>1, <3>2
    <3>4. ASSUME NEW c \in C, c > N - (k + 1)
          PROVE  SumFunctionOnSet(g, kids[c]) = SumFunctionOnSet(f, kids[c])
      <4>1. \A d \in kids[c] : d \in C /\ d # m
        BY <1>0, <2>2, <3>4
      <4>2. \A d \in kids[c] : f[d] \in Nat /\ g[d] = f[d]
        BY <2>1, <4>1
      <4> QED
        BY <3>1, <4>2, SumSame
    <3>5. ASSUME NEW c \in C, c > N - (k + 1)
          PROVE  g[c] = q[c] + SumFunctionOnSet(g, kids[c])
      <4>1. CASE c = m
        BY <3>4, <3>5, <4>1
      <4>2. CASE c # m
        <5>1. c > m
          BY <1>0, <2>2, <3>5, <4>2
        <5>2. g[c] = f[c]
          BY <4>2
        <5>3. f[c] = q[c] + SumFunctionOnSet(f, kids[c])
          BY <2>1, <5>1
        <5> QED
          BY <3>4, <3>5, <5>2, <5>3
      <4> QED
        BY <4>1, <4>2
    <3> HIDE DEF g
    <3>6. Upto(k + 1, g)
      BY <3>3, <3>5
    <3> HIDE DEF Upto
    <3> QED
      BY <2>2, <3>6
  <2> QED
    BY <2>3, <2>4
<1> HIDE DEF G, M
<1>4. 0 .. M \subseteq G
  BY <1>1, <1>2, <1>3, InductionUpTo
<1>5. M \in G
  BY <1>1, <1>4
<1>6. PICK f : Upto(M, f)
  BY <1>5, Zenon DEF G
<1>7. \A c \in C : c > N - M
  BY <1>0 DEF M
<1> QED
  BY <1>6, <1>7 DEF Tree

\* A recursion over the tree computes it.
LEMMA TreeIs ==
    ASSUME NEW C, NEW kids, NEW N, Forest(C, kids, N), NEW q \in [C -> Nat],
           NEW K, K = [c \in C |-> q[c] + SumFunctionOnSet(K, kids[c])]
    PROVE  Tree(C, q, kids, K)
<1>0. /\ C \in SUBSET Nat /\ IsFiniteSet(C) /\ N \in Nat /\ \A c \in C : c <= N
      /\ kids \in [C -> SUBSET C] /\ \A c \in C : \A d \in kids[c] : c < d
  BY DEF Forest
<1> DEFINE M == N + 1
           G == {k \in 0 .. M : \A c \in C : c > N - k => K[c] \in Nat}
<1>1. M \in Nat
  BY <1>0
<1>2. 0 \in G
  BY <1>0
<1>3. ASSUME NEW k \in 0 .. M, k # M, k \in G
      PROVE  k + 1 \in G
  <2>1. k \in Nat /\ k + 1 \in 0 .. M /\ \A c \in C : c > N - (k + 1) <=> c >= N - k
    BY <1>0, <1>3
  <2>2. ASSUME NEW c \in C, c > N - (k + 1)
        PROVE  K[c] \in Nat
    <3>1. kids[c] \in SUBSET C /\ IsFiniteSet(kids[c])
      BY <1>0, FS_Subset
    <3>2. \A d \in kids[c] : d \in C /\ d > N - k
      BY <1>0, <2>1, <2>2, <3>1
    <3>3. \A d \in kids[c] : K[d] \in Nat
      BY <1>3, <3>2
    <3>4. SumFunctionOnSet(K, kids[c]) \in Nat
      BY <3>1, <3>3, SumFacts
    <3>5. K[c] = q[c] + SumFunctionOnSet(K, kids[c]) /\ q[c] \in Nat
      OBVIOUS
    <3> QED
      BY <3>4, <3>5
  <2> QED
    BY <2>1, <2>2
<1> HIDE DEF G
<1>4. 0 .. M \subseteq G
  BY <1>1, <1>2, <1>3, InductionUpTo
<1>5. M \in 0 .. M
  BY <1>1
<1>6. \A c \in C : c > N - M
  BY <1>0
<1> HIDE DEF M
<1>7. \A c \in C : K[c] \in Nat
  BY <1>4, <1>5, <1>6 DEF G
<1> QED
  BY <1>7 DEF Tree

\* One number more, the greatest so far of those below: its kids give way to it.
LEMMA TreeStep ==
    ASSUME NEW C, IsFiniteSet(C), NEW f, \A x \in C : f[x] \in Nat, NEW m \in C,
           NEW T \in SUBSET C, m \notin T, NEW kids \in SUBSET T, NEW own \in Nat,
           f[m] = own + SumFunctionOnSet(f, kids)
    PROVE  /\ SumFunctionOnSet(f, (T \ kids) \cup {m}) = own + SumFunctionOnSet(f, T)
           /\ SumFunctionOnSet(f, T) \in Nat
<1> DEFINE U == T \ kids
<1>1. U \in SUBSET C /\ m \notin U
  OBVIOUS
<1> HIDE DEF U
<1>2. SumFunctionOnSet(f, U \cup {m}) = f[m] + SumFunctionOnSet(f, U)
  BY <1>1, SumMore
<1>3. IsFiniteSet(T) /\ \A x \in T : f[x] \in Nat
  BY FS_Subset
<1>4. /\ SumFunctionOnSet(f, T) = SumFunctionOnSet(f, kids) + SumFunctionOnSet(f, U)
      /\ SumFunctionOnSet(f, T) \in Nat /\ SumFunctionOnSet(f, kids) \in Nat
      /\ SumFunctionOnSet(f, U) \in Nat
  BY <1>3, SumSplit DEF U
<1>5. SumFunctionOnSet(f, U \cup {m}) = own + SumFunctionOnSet(f, T)
  BY <1>2, <1>4
<1> QED
  BY <1>4, <1>5 DEF U

\* The subtrees of the roots hold the whole, each once.
LEMMA TreeSum ==
    ASSUME NEW C, NEW kids, NEW N, Forest(C, kids, N), NEW q \in [C -> Nat],
           NEW parent \in [C -> Nat], \A c \in C : parent[c] < c,
           \A c \in C : kids[c] = {d \in C : parent[d] = c},
           NEW f, Tree(C, q, kids, f)
    PROVE  SumFunctionOnSet(f, {c \in C : parent[c] \notin C}) = SumFunctionOnSet(q, C)
<1>0. /\ C \in SUBSET Nat /\ IsFiniteSet(C) /\ N \in Nat /\ \A c \in C : c <= N
      /\ f \in [C -> Nat] /\ \A c \in C : f[c] = q[c] + SumFunctionOnSet(f, kids[c])
  BY DEF Forest, Tree
<1> DEFINE M == N + 1
           Upper(m) == {c \in C : c > m}
           Tops(m) == {c \in C : c > m /\ parent[c] \notin Upper(m)}
           Same(m) == SumFunctionOnSet(q, Upper(m)) = SumFunctionOnSet(f, Tops(m))
           G == {k \in 0 .. M : Same(N - k)}
<1>1. M \in Nat /\ 0 \in 0 .. M /\ M \in 0 .. M
  BY <1>0
<1>2. N \in Nat /\ \A c \in C : c \in Nat /\ c <= N /\ parent[c] \in Nat /\ parent[c] < c
  BY <1>0
<1>3. \A x \in C : f[x] \in Nat
  BY <1>0
<1>4. \A x \in C : q[x] \in Nat
  OBVIOUS
<1>5. 0 \in G
  <2>1. Upper(N) = {} /\ Tops(N) = {}
    <3>1. \A c \in C : ~(c > N)
      BY <1>2
    <3> QED
      BY <3>1
  <2>2. SumFunctionOnSet(f, {}) = 0 /\ SumFunctionOnSet(q, {}) = 0
    BY <1>0, <1>3, <1>4, SumFacts
  <2> HIDE DEF Upper, Tops
  <2>3. Same(N)
    BY <2>1, <2>2
  <2>4. N - 0 = N
    BY <1>0
  <2> HIDE DEF Same
  <2> QED
    BY <1>1, <2>3, <2>4
<1>6. ASSUME NEW k \in 0 .. M, k # M, k \in G
      PROVE  k + 1 \in G
  <2> DEFINE m == N - k
             n == N - (k + 1)
  <2>1. k + 1 \in 0 .. M /\ m \in Nat /\ n \in Int /\ \A c \in C : c > n <=> (c > m \/ c = m)
    BY <1>0, <1>6
  <2>2. Same(m)
    BY <1>6
  <2> HIDE DEF m, n
  <2>3. ~(m > m) /\ \A c \in C : c > n <=> (c > m \/ c = m)
    BY <2>1
  <2>4. Same(n)
    <3>1. CASE m \notin C
      <4>1. Upper(n) = Upper(m)
        BY <2>3, <3>1
      <4>2. Tops(n) = Tops(m)
        BY <2>3, <3>1
      <4> HIDE DEF Upper, Tops
      <4> QED
        BY <2>2, <4>1, <4>2
    <3>2. CASE m \in C
      <4>1. Upper(n) = Upper(m) \cup {m} /\ m \notin Upper(m) /\ Upper(m) \in SUBSET C
        BY <2>3, <3>2
      <4>2. parent[m] \notin Upper(n)
        <5>1. ~(parent[m] > m) /\ parent[m] # m
          BY <1>2, <2>1, <3>2
        <5> QED
          BY <2>3, <3>2, <5>1
      <4>3. \A d \in kids[m] : d \in C /\ parent[d] = m /\ d > m
        <5>1. \A d \in kids[m] : d \in C /\ parent[d] = m
          BY <3>2
        <5> QED
          BY <1>2, <2>1, <5>1
      <4>4. \A d \in C : parent[d] = m => d \in kids[m]
        BY <3>2
      <4>5. \A c \in C : parent[c] \in Upper(n) <=> parent[c] \in Upper(m) \/ parent[c] = m
        BY <3>2, <4>1
      <4>6. /\ \A c : c \in Tops(m) <=> c \in C /\ c > m /\ parent[c] \notin Upper(m)
            /\ \A c : c \in Tops(n) <=> c \in C /\ c > n /\ parent[c] \notin Upper(n)
        OBVIOUS
      <4> HIDE DEF Upper, Tops
      <4>7. kids[m] \in SUBSET Tops(m) /\ Tops(m) \in SUBSET C /\ m \notin Tops(m)
        BY <2>3, <4>1, <4>3, <4>6
      <4>8. Tops(n) = (Tops(m) \ kids[m]) \cup {m}
        <5>1. \A c : c \in Tops(n) <=> c \in (Tops(m) \ kids[m]) \cup {m}
          <6> TAKE c
          <6>1. CASE c = m
            BY <2>3, <3>2, <4>2, <4>6, <6>1
          <6>2. CASE c # m
            BY <2>3, <4>3, <4>4, <4>5, <4>6, <6>2
          <6> QED
            BY <6>1, <6>2
        <5> QED
          BY <5>1
      <4>9. SumFunctionOnSet(q, Upper(m) \cup {m}) = q[m] + SumFunctionOnSet(q, Upper(m))
        <5> DEFINE U == Upper(m)
        <5>1. IsFiniteSet(C) /\ U \in SUBSET C /\ m \in C /\ m \notin U
          BY <1>0, <3>2, <4>1
        <5> HIDE DEF U
        <5>2. SumFunctionOnSet(q, U \cup {m}) = q[m] + SumFunctionOnSet(q, U)
          BY <1>4, <5>1, SumMore
        <5> QED
          BY <5>2 DEF U
      <4>10. f[m] = q[m] + SumFunctionOnSet(f, kids[m]) /\ q[m] \in Nat
        BY <1>0, <3>2
      <4>11. SumFunctionOnSet(f, (Tops(m) \ kids[m]) \cup {m}) = q[m] + SumFunctionOnSet(f, Tops(m))
        <5> DEFINE T == Tops(m)
                   K == kids[m]
                   t == q[m]
        <5>1. /\ IsFiniteSet(C) /\ m \in C /\ T \in SUBSET C /\ m \notin T /\ K \in SUBSET T
              /\ t \in Nat /\ f[m] = t + SumFunctionOnSet(f, K)
          BY <1>0, <3>2, <4>7, <4>10
        <5> HIDE DEF T, K, t
        <5>2. SumFunctionOnSet(f, (T \ K) \cup {m}) = t + SumFunctionOnSet(f, T)
          BY <1>3, <5>1, TreeStep
        <5> QED
          BY <5>2 DEF T, K, t
      <4>12. SumFunctionOnSet(q, Upper(m)) = SumFunctionOnSet(f, Tops(m))
        BY <2>2
      <4> QED
        BY <4>1, <4>8, <4>9, <4>11, <4>12
    <3> QED
      BY <3>1, <3>2
  <2> HIDE DEF Same
  <2> QED
    BY <2>1, <2>4 DEF n
<1>7. 0 .. M \subseteq G
  <2> HIDE DEF G, M
  <2> QED
    BY <1>1, <1>5, <1>6, InductionUpTo
<1>8. Same(N - M)
  <2> HIDE DEF M, Same
  <2> QED
    BY <1>1, <1>7
<1>9. N - M = -1
  BY <1>0
<1>10. Upper(-1) = C /\ Tops(-1) = {c \in C : parent[c] \notin C}
  <2>1. \A c \in C : c > -1
    BY <1>2
  <2>2. Upper(-1) = C
    BY <2>1
  <2> HIDE DEF Upper
  <2> QED
    BY <2>1, <2>2
<1> HIDE DEF Upper, Tops, M
<1> QED
  BY <1>8, <1>9, <1>10

-----------------------------------------------------------------------------
(* Attribution: sorting.                                                   *)

\* Ascending lists every member once, by ascending key.
LEMMA AscendingSorts ==
    ASSUME NEW S, IsFiniteSet(S), NEW key, \A x \in S : key[x] \in Int,
           \A x, y \in S : key[x] = key[y] => x = y
    PROVE  /\ Ascending(S, key) \in Seq(S) /\ Len(Ascending(S, key)) = Cardinality(S)
           /\ \A m, n \in 1 .. Cardinality(S) :
                 m < n => key[Ascending(S, key)[m]] < key[Ascending(S, key)[n]]
           /\ \A x \in S : \E n \in 1 .. Cardinality(S) : Ascending(S, key)[n] = x
<1> DEFINE N == Cardinality(S)
           Below(x) == {y \in S : key[y] < key[x]}
           rank == [x \in S |-> Cardinality(Below(x)) + 1]
           s == Ascending(S, key)
<1>1. N \in Nat /\ IsFiniteSet(1 .. N) /\ Cardinality(1 .. N) = N
  BY FS_CardinalityType, FS_Interval
<1>2. \A x \in S : IsFiniteSet(Below(x)) /\ Cardinality(Below(x)) \in Nat
  <2> TAKE x \in S
  <2>1. Below(x) \in SUBSET S
    OBVIOUS
  <2> HIDE DEF Below
  <2> QED
    BY <2>1, FS_Subset, FS_CardinalityType
<1>3. \A x \in S : Cardinality(Below(x)) < N
  <2> TAKE x \in S
  <2>1. Below(x) \in SUBSET S /\ x \notin Below(x)
    OBVIOUS
  <2> HIDE DEF Below
  <2>2. Cardinality(Below(x)) <= N /\ (N = Cardinality(Below(x)) => S = Below(x))
    BY <2>1, FS_Subset
  <2> QED
    BY <1>1, <1>2, <2>1, <2>2
<1>4. \A x, y \in S : key[x] < key[y] => Cardinality(Below(x)) < Cardinality(Below(y))
  <2> TAKE x, y \in S
  <2> HAVE key[x] < key[y]
  <2>1. Below(x) \in SUBSET Below(y) /\ x \in Below(y) /\ x \notin Below(x)
    OBVIOUS
  <2> DEFINE a == Below(x)
             b == Below(y)
  <2>2. IsFiniteSet(b) /\ Cardinality(a) \in Nat /\ Cardinality(b) \in Nat
    BY <1>2
  <2>3. a \in SUBSET b /\ a # b
    BY <2>1
  <2> HIDE DEF a, b
  <2>4. Cardinality(a) <= Cardinality(b) /\ (Cardinality(b) = Cardinality(a) => b = a)
    BY <2>2, <2>3, FS_Subset
  <2>5. Cardinality(a) < Cardinality(b)
    BY <2>2, <2>3, <2>4
  <2> QED
    BY <2>5 DEF a, b
<1>5. \A x, y \in S : x # y => key[x] < key[y] \/ key[y] < key[x]
  OBVIOUS
<1>6. \A x \in S : rank[x] \in 1 .. N /\ rank[x] = Cardinality(Below(x)) + 1
  <2> HIDE DEF Below
  <2> QED
    BY <1>1, <1>2, <1>3
<1>7. \A x, y \in S : key[x] < key[y] => rank[x] < rank[y]
  <2> HIDE DEF Below, rank
  <2> QED
    BY <1>2, <1>4, <1>6
<1>8. rank \in [S -> 1 .. N]
  <2>1. rank = [x \in S |-> rank[x]]
    OBVIOUS
  <2> HIDE DEF rank
  <2> QED
    BY <1>6, <2>1
<1>9. \A x, y \in S : rank[x] = rank[y] => x = y
  <2> HIDE DEF rank, Below
  <2> TAKE x, y \in S
  <2> HAVE rank[x] = rank[y]
  <2>1. rank[x] \in Int /\ rank[y] \in Int
    BY <1>1, <1>6
  <2>2. ~(key[x] < key[y]) /\ ~(key[y] < key[x])
    BY <1>7, <2>1
  <2> QED
    BY <1>5, <2>2
<1>10. rank \in Injection(S, 1 .. N)
  BY <1>8, <1>9 DEF Injection, IsInjective
<1>11. rank \in Surjection(S, 1 .. N)
  <2> HIDE DEF rank
  <2> QED
    BY <1>1, <1>10, FS_Injection
<1>12. \A n \in 1 .. N : \E x \in S : rank[x] = n
  <2> HIDE DEF rank
  <2> QED
    BY <1>11 DEF Surjection
<1>13. \A n \in 1 .. N : s[n] \in S /\ rank[s[n]] = n
  <2> TAKE n \in 1 .. N
  <2>1. \E x \in S : Cardinality(Below(x)) = n - 1
    <3>1. PICK x \in S : rank[x] = n
      BY <1>12
    <3> HIDE DEF rank, Below
    <3>2. Cardinality(Below(x)) = n - 1
      BY <1>2, <1>6, <3>1
    <3> QED
      BY <3>2
  <2>2. s[n] = CHOOSE x \in S : Cardinality(Below(x)) = n - 1
    BY DEF Ascending
  <2> HIDE DEF s, Below, rank
  <2>3. s[n] \in S /\ Cardinality(Below(s[n])) = n - 1
    BY <2>1, <2>2
  <2> QED
    BY <1>1, <1>6, <2>3
<1>14. s \in Seq(S) /\ Len(s) = N
  <2> DEFINE Nth(n) == CHOOSE x \in S : Cardinality(Below(x)) = n - 1
  <2>0. s = [n \in 1 .. N |-> Nth(n)]
    BY Zenon DEF Ascending
  <2> HIDE DEF s, Nth
  <2>1. s = [n \in 1 .. N |-> s[n]]
    BY <2>0
  <2> HIDE DEF N
  <2>2. s \in [1 .. N -> S]
    BY <1>13, <2>1
  <2> QED
    BY <1>1, <2>2
<1> HIDE DEF s, rank, Below
<1>15. ASSUME NEW m \in 1 .. N, NEW n \in 1 .. N, m < n
       PROVE  key[s[m]] < key[s[n]]
  <2>1. s[m] \in S /\ s[n] \in S /\ rank[s[m]] = m /\ rank[s[n]] = n
    BY <1>13
  <2>2. s[m] # s[n] /\ ~(key[s[n]] < key[s[m]])
    BY <1>1, <1>7, <1>15, <2>1
  <2> QED
    BY <1>5, <2>1, <2>2
<1>16. ASSUME NEW x \in S
       PROVE  \E n \in 1 .. N : s[n] = x
  <2>1. rank[x] \in 1 .. N
    BY <1>6
  <2>2. s[rank[x]] \in S /\ rank[s[rank[x]]] = rank[x]
    BY <1>13, <2>1
  <2>3. s[rank[x]] = x
    BY <1>9, <2>2
  <2> QED
    BY <2>1, <2>3
<1> QED
  BY <1>14, <1>15, <1>16 DEF s, N

\* What is below a member of a bounded part of the naturals is an interval.
LEMMA LowerPart ==
    ASSUME NEW N \in Nat, NEW D \in SUBSET (1 .. N), \A m \in D : \A n \in 1 .. N : n <= m => n \in D
    PROVE  \E k \in 0 .. N : D = 1 .. k
<1>1. CASE D = {}
  <2>1. D = 1 .. 0 /\ 0 \in 0 .. N
    BY <1>1
  <2> QED
    BY <2>1
<1>2. CASE D # {}
  <2>1. D \in SUBSET (0 .. N)
    OBVIOUS
  <2> DEFINE k == Max(D)
  <2>2. k \in D /\ \A m \in D : k >= m
    BY <1>2, <2>1, GreatestIsMember
  <2> HIDE DEF k
  <2>3. k \in 1 .. N /\ k \in 0 .. N
    BY <2>2
  <2>4. \A m : m \in D <=> m \in 1 .. k
    <3>1. \A m \in D : m \in 1 .. k
      <4> TAKE m \in D
      <4>1. m \in 1 .. N /\ k >= m
        BY <2>2
      <4> QED
        BY <2>3, <4>1
    <3>2. \A m \in 1 .. k : m \in D
      <4> TAKE m \in 1 .. k
      <4>1. m \in 1 .. N /\ m <= k
        BY <2>3
      <4> QED
        BY <2>2, <4>1
    <3> QED
      BY <3>1, <3>2, Zenon
  <2>5. D = 1 .. k
    BY <2>4
  <2> QED
    BY <2>3, <2>5
<1> QED
  BY <1>1, <1>2

-----------------------------------------------------------------------------
(* Attribution: the sweep.                                                 *)

\* DropExpired cuts the stack above the last call that is alive.
LEMMA DropCuts ==
    ASSUME NEW W, \A w \in W : w.out \in Nat, NEW stack \in Seq(W), NEW ts \in Nat
    PROVE  \E k \in 0 .. Len(stack) :
              /\ DropExpired(stack, ts) = SubSeq(stack, 1, k)
              /\ k # 0 => stack[k].out + Grace >= ts
              /\ \A n \in 1 .. Len(stack) : stack[n].out + Grace >= ts => n <= k
<1> DEFINE alive == {n \in DOMAIN stack : stack[n].out + Grace >= ts}
           k == Max(alive \cup {0})
<1>1. DOMAIN stack = 1 .. Len(stack) /\ Len(stack) \in Nat
  OBVIOUS
<1>2. alive \cup {0} \in SUBSET (0 .. Len(stack)) /\ alive \cup {0} # {}
  BY <1>1
<1>3. k \in alive \cup {0} /\ \A n \in alive \cup {0} : k >= n
  <2> DEFINE G == alive \cup {0}
  <2> HIDE DEF alive
  <2>1. G \in SUBSET (0 .. Len(stack)) /\ G # {}
    BY <1>2
  <2> HIDE DEF G
  <2>2. Max(G) \in G /\ \A n \in G : Max(G) >= n
    BY <1>1, <2>1, GreatestIsMember
  <2> QED
    BY <2>2 DEF G
<1>4. DropExpired(stack, ts) = SubSeq(stack, 1, k)
  BY DEF DropExpired
<1> HIDE DEF k
<1>5. k \in 0 .. Len(stack)
  BY <1>2, <1>3
<1>6. k # 0 => stack[k].out + Grace >= ts
  BY <1>3
<1>7. \A n \in 1 .. Len(stack) : stack[n].out + Grace >= ts => n <= k
  <2> TAKE n \in 1 .. Len(stack)
  <2> HAVE stack[n].out + Grace >= ts
  <2>1. n \in alive
    BY <1>1
  <2> HIDE DEF alive
  <2>2. k >= n
    BY <1>3, <2>1
  <2> QED
    BY <1>5, <2>2
<1> QED
  BY <1>4, <1>5, <1>6, <1>7

\* One turn of the sweep, over the windows in order.
SweptTo(sorted, s, ts) ==
    LET due == {n \in DOMAIN sorted : n > s.next /\ sorted[n].in <= ts}
        next == s.next + Cardinality(due)
    IN  [next |-> next,
         stack |-> DropExpired(s.stack \o SubSeq(sorted, s.next + 1, next), ts)]

\* The windows of the calls, in the order in which they were entered.
WindowsInOrder(W, sorted) ==
    /\ \A w \in W : w.in \in Nat /\ w.out \in Nat
    /\ sorted \in Seq(W)
    /\ \A m, n \in 1 .. Len(sorted) : m < n => sorted[m].in < sorted[n].in

\* The first windows have been pushed, and of those only ones that expired
\* are off the stack.
SweepOK(W, sorted, t, s) ==
    /\ s.next \in 0 .. Len(sorted) /\ s.stack \in Seq(W)
    /\ \A m \in 1 .. s.next : sorted[m].in <= t
    /\ \A p \in 1 .. Len(s.stack) : \E m \in 1 .. s.next : s.stack[p] = sorted[m]
    /\ \A p, q \in 1 .. Len(s.stack) : p < q => s.stack[p].in < s.stack[q].in
    /\ \A m \in 1 .. s.next : sorted[m].out + Grace >= t =>
          \E p \in 1 .. Len(s.stack) : s.stack[p] = sorted[m]

\* Every window whose time has come has been pushed, and the top is alive.
Settled(sorted, t, s) ==
    /\ \A m \in 1 .. Len(sorted) : sorted[m].in <= t => m <= s.next
    /\ s.stack # <<>> => s.stack[Len(s.stack)].out + Grace >= t

LEMMA DueIs ==
    ASSUME NEW W, NEW sorted, WindowsInOrder(W, sorted), NEW t \in Nat, NEW ts \in Nat, t <= ts,
           NEW s, SweepOK(W, sorted, t, s)
    PROVE  /\ SweptTo(sorted, s, ts).next \in s.next .. Len(sorted)
           /\ \A m \in 1 .. Len(sorted) :
                 sorted[m].in <= ts <=> m <= SweptTo(sorted, s, ts).next
<1>1. /\ s.next \in 0 .. Len(sorted) /\ \A m \in 1 .. s.next : sorted[m].in <= t
      /\ Len(sorted) \in Nat /\ DOMAIN sorted = 1 .. Len(sorted)
      /\ \A m \in 1 .. Len(sorted) : sorted[m].in \in Nat
      /\ \A m, n \in 1 .. Len(sorted) : m < n => sorted[m].in < sorted[n].in
  BY DEF WindowsInOrder, SweepOK
<1> DEFINE L == Len(sorted)
           D == {n \in 1 .. L : sorted[n].in <= ts}
           due == {n \in DOMAIN sorted : n > s.next /\ sorted[n].in <= ts}
<1>2. \A m \in D : \A n \in 1 .. L : n <= m => n \in D
  <2> TAKE m \in D
  <2> TAKE n \in 1 .. L
  <2> HAVE n <= m
  <2>1. m \in 1 .. L /\ sorted[m].in <= ts
    OBVIOUS
  <2>2. sorted[n].in <= sorted[m].in
    <3>1. CASE n = m
      BY <1>1, <2>1, <3>1
    <3>2. CASE n < m
      BY <1>1, <2>1, <3>2
    <3> QED
      BY <1>1, <2>1, <3>1, <3>2
  <2>3. sorted[n].in \in Nat /\ sorted[m].in \in Nat
    BY <1>1, <2>1
  <2>4. sorted[n].in <= ts
    BY <2>1, <2>2, <2>3
  <2> QED
    BY <2>4
<1>2a. D \in SUBSET (1 .. L)
  OBVIOUS
<1>3. PICK k \in 0 .. L : D = 1 .. k
  <2> HIDE DEF D
  <2> QED
    BY <1>1, <1>2, <1>2a, LowerPart
<1>4. s.next <= k
  <2>1. CASE s.next = 0
    BY <1>1, <2>1
  <2>2. CASE s.next # 0
    <3>1. s.next \in 1 .. L /\ s.next \in 1 .. s.next
      BY <1>1, <2>2
    <3>2. sorted[s.next].in <= t /\ sorted[s.next].in \in Nat
      BY <1>1, <3>1
    <3>3. s.next \in D
      BY <3>1, <3>2
    <3> QED
      BY <1>3, <3>3
  <2> QED
    BY <2>1, <2>2
<1>5. due = s.next + 1 .. k
  <2>1. \A n : n \in due <=> n \in D /\ n > s.next
    BY <1>1
  <2> HIDE DEF D, due
  <2>2. \A n : n \in due <=> n \in 1 .. k /\ n > s.next
    BY <1>3, <2>1
  <2>3. \A n : n \in 1 .. k /\ n > s.next <=> n \in s.next + 1 .. k
    BY <1>1, <1>3
  <2> QED
    BY <2>2, <2>3
<1>6. Cardinality(due) = k - s.next
  <2>1. s.next + 1 \in Int /\ k \in Int
    BY <1>1, <1>3
  <2>2. Cardinality(s.next + 1 .. k) = IF s.next + 1 > k THEN 0 ELSE k - (s.next + 1) + 1
    BY <2>1, FS_Interval
  <2> HIDE DEF due
  <2> QED
    BY <1>1, <1>3, <1>4, <1>5, <2>2
<1>7. SweptTo(sorted, s, ts).next = s.next + Cardinality(due)
  BY DEF SweptTo
<1> HIDE DEF due
<1>8. SweptTo(sorted, s, ts).next = k
  BY <1>1, <1>3, <1>6, <1>7
<1>9. \A m \in 1 .. L : sorted[m].in <= ts <=> m <= k
  BY <1>1, <1>3
<1> QED
  BY <1>1, <1>3, <1>4, <1>8, <1>9

\* Where a place of the stack above l comes from, and goes to.
LEMMA Shifted ==
    ASSUME NEW x \in Nat, NEW l \in Nat, NEW p \in Nat, NEW next \in Nat, p > l,
           p <= l + (next - x)
    PROVE  x + (p - l) \in 1 .. next /\ x + (p - l) > x
OBVIOUS

LEMMA ShiftedUp ==
    ASSUME NEW x \in Nat, NEW l \in Nat, NEW m \in Nat, NEW next \in Nat, m > x, m <= next
    PROVE  \E p \in 1 .. l + (next - x) : p > l /\ x + (p - l) = m
<1> DEFINE p == l + (m - x)
<1>1. p \in 1 .. l + (next - x) /\ p > l /\ x + (p - l) = m
  OBVIOUS
<1> QED
  BY <1>1

LEMMA SweepStep ==
    ASSUME NEW W, NEW sorted, WindowsInOrder(W, sorted), NEW t \in Nat, NEW ts \in Nat, t <= ts,
           NEW s, SweepOK(W, sorted, t, s)
    PROVE  /\ SweepOK(W, sorted, ts, SweptTo(sorted, s, ts))
           /\ Settled(sorted, ts, SweptTo(sorted, s, ts))
<1> DEFINE a == SweptTo(sorted, s, ts)
           next == a.next
           more == SubSeq(sorted, s.next + 1, next)
           grown == s.stack \o more
<1>1. /\ next \in s.next .. Len(sorted)
      /\ \A m \in 1 .. Len(sorted) : sorted[m].in <= ts <=> m <= next
  BY DueIs
<1>2. a.stack = DropExpired(grown, ts)
  BY DEF SweptTo
<1>3. /\ s.next \in 0 .. Len(sorted) /\ s.stack \in Seq(W)
      /\ \A p \in 1 .. Len(s.stack) : \E m \in 1 .. s.next : s.stack[p] = sorted[m]
      /\ \A p, q \in 1 .. Len(s.stack) : p < q => s.stack[p].in < s.stack[q].in
      /\ \A m \in 1 .. s.next : sorted[m].out + Grace >= t =>
            \E p \in 1 .. Len(s.stack) : s.stack[p] = sorted[m]
  BY DEF SweepOK
<1>4. /\ sorted \in Seq(W) /\ Len(sorted) \in Nat
      /\ \A m \in 1 .. Len(sorted) : /\ sorted[m] \in W
                                     /\ sorted[m].in \in Nat /\ sorted[m].out \in Nat
      /\ \A m, n \in 1 .. Len(sorted) : m < n => sorted[m].in < sorted[n].in
      /\ \A w \in W : w.out \in Nat
  BY DEF WindowsInOrder
<1> HIDE DEF a, next
<1>5. next \in Nat /\ s.next \in Nat /\ s.next <= next /\ next <= Len(sorted)
  BY <1>1, <1>3, <1>4
<1>6. /\ more \in Seq(W) /\ Len(more) = next - s.next
      /\ \A i \in 1 .. next - s.next : more[i] = sorted[s.next + i]
  <2>1. \A i \in s.next + 1 .. next : sorted[i] \in W
    BY <1>4, <1>5
  <2>2. s.next + 1 \in Int /\ next \in Int
    BY <1>5
  <2>3. /\ more \in Seq(W) /\ Len(more) = IF s.next + 1 <= next THEN next - (s.next + 1) + 1 ELSE 0
        /\ \A i \in 1 .. next - (s.next + 1) + 1 : more[i] = sorted[s.next + 1 + i - 1]
    BY <2>1, <2>2, SubSeqProperties
  <2> HIDE DEF more
  <2>4. Len(more) = next - s.next
    BY <1>5, <2>3
  <2>5. \A i \in 1 .. next - s.next : more[i] = sorted[s.next + i]
    <3> TAKE i \in 1 .. next - s.next
    <3>1. i \in 1 .. next - (s.next + 1) + 1 /\ s.next + 1 + i - 1 = s.next + i
      BY <1>5
    <3> QED
      BY <2>3, <3>1
  <2> QED
    BY <2>3, <2>4, <2>5
<1> HIDE DEF more
<1> DEFINE l == Len(s.stack)
<1>8. l \in Nat /\ l = Len(s.stack)
  BY <1>3
<1>7. /\ grown \in Seq(W) /\ Len(grown) = l + (next - s.next)
      /\ \A p \in 1 .. l : grown[p] = s.stack[p]
      /\ \A p \in 1 .. Len(grown) : p > l => grown[p] = sorted[s.next + (p - l)]
  <2> DEFINE under == s.stack
  <2>0. under \in Seq(W) /\ more \in Seq(W)
    BY <1>3, <1>6
  <2> HIDE DEF under
  <2>00. /\ under \o more \in Seq(W) /\ Len(under \o more) = Len(under) + Len(more)
         /\ \A i \in 1 .. Len(under) + Len(more) :
              (under \o more)[i] = IF i <= Len(under) THEN under[i] ELSE more[i - Len(under)]
    BY <2>0, ConcatProperties
  <2>1. /\ grown \in Seq(W) /\ Len(grown) = Len(s.stack) + Len(more)
        /\ \A i \in 1 .. Len(s.stack) + Len(more) :
              grown[i] = IF i <= Len(s.stack) THEN s.stack[i] ELSE more[i - Len(s.stack)]
    BY <2>00, Zenon DEF under
  <2> HIDE DEF grown, l
  <2>2. l = Len(s.stack) /\ l \in Nat
    BY <1>8
  <2>3. Len(grown) = l + (next - s.next)
    BY <1>6, <2>1, <2>2
  <2>4. \A p \in 1 .. l : grown[p] = s.stack[p]
    BY <1>5, <1>6, <2>1, <2>2
  <2>5. \A p \in 1 .. Len(grown) : p > l => grown[p] = sorted[s.next + (p - l)]
    <3> TAKE p \in 1 .. Len(grown)
    <3> HAVE p > l
    <3>1. p - l \in 1 .. next - s.next /\ ~(p <= l)
      BY <1>5, <2>2, <2>3
    <3>2. grown[p] = more[p - l]
      BY <2>1, <2>2, <3>1
    <3> QED
      BY <1>6, <3>1, <3>2
  <2> QED
    BY <2>1, <2>3, <2>4, <2>5
<1> HIDE DEF grown, l
\* What each place of the stack holds.
<1>9. \A p \in 1 .. Len(grown) :
         \E m \in 1 .. next : grown[p] = sorted[m] /\ (p <= l <=> m <= s.next)
  <2> TAKE p \in 1 .. Len(grown)
  <2>1. CASE p <= l
    <3>1. p \in 1 .. l
      BY <1>8, <2>1
    <3>2. PICK m \in 1 .. s.next : s.stack[p] = sorted[m]
      BY <1>3, <1>8, <3>1
    <3>3. m \in 1 .. next /\ m <= s.next /\ grown[p] = sorted[m]
      BY <1>5, <1>7, <3>1, <3>2
    <3> QED
      BY <2>1, <3>3
  <2>2. CASE p > l
    <3> DEFINE m == s.next + (p - l)
    <3>0. p \in Nat /\ p <= l + (next - s.next)
      BY <1>5, <1>7, <1>8
    <3>1. m \in 1 .. next /\ m > s.next
      <4> DEFINE x == s.next
      <4>1. x \in Nat /\ x <= next /\ p <= l + (next - x)
        BY <1>5, <3>0
      <4> HIDE DEF x
      <4>2. x + (p - l) \in 1 .. next /\ x + (p - l) > x
        <5>1. l \in Nat /\ next \in Nat /\ p \in Nat /\ p > l
          BY <1>5, <1>8, <2>2, <3>0
        <5> QED
          BY <4>1, <5>1, Shifted
      <4> QED
        BY <4>2 DEF x
    <3>2. grown[p] = sorted[m]
      BY <1>7, <2>2
    <3> HIDE DEF m
    <3>3. ~(p <= l) /\ ~(m <= s.next)
      BY <1>5, <1>8, <2>2, <3>1
    <3> QED
      BY <3>1, <3>2, <3>3
  <2> QED
    BY <1>8, <2>1, <2>2
<1>10. \A p, q \in 1 .. Len(grown) : p < q => grown[p].in < grown[q].in
  <2> TAKE p, q \in 1 .. Len(grown)
  <2> HAVE p < q
  <2>0. p \in Nat /\ q \in Nat /\ Len(grown) \in Nat
    BY <1>5, <1>7, <1>8
  <2>1. CASE q <= l
    <3>1. p \in 1 .. l /\ q \in 1 .. l
      BY <1>8, <2>0, <2>1
    <3>2. grown[p] = s.stack[p] /\ grown[q] = s.stack[q]
      BY <1>7, <3>1
    <3> QED
      BY <1>3, <1>8, <3>1, <3>2
  <2>2. CASE p <= l /\ q > l
    <3>1. PICK m \in 1 .. next : grown[p] = sorted[m] /\ m <= s.next
      BY <1>9, <2>2
    <3>2. PICK n \in 1 .. next : grown[q] = sorted[n] /\ ~(n <= s.next)
      BY <1>8, <1>9, <2>0, <2>2
    <3>3. m \in 1 .. Len(sorted) /\ n \in 1 .. Len(sorted) /\ m < n
      BY <1>5, <3>1, <3>2
    <3> QED
      BY <1>4, <3>1, <3>2, <3>3
  <2>3. CASE p > l
    <3> DEFINE m == s.next + (p - l)
               n == s.next + (q - l)
    <3>0. p <= l + (next - s.next) /\ q <= l + (next - s.next) /\ q > l
      BY <1>7, <1>8, <2>0, <2>3
    <3>1. m \in 1 .. Len(sorted) /\ n \in 1 .. Len(sorted) /\ m < n
      <4> DEFINE x == s.next
                 top == Len(sorted)
      <4>1. /\ x \in Nat /\ x <= next /\ p <= l + (next - x) /\ q <= l + (next - x)
            /\ top \in Nat /\ next <= top
        BY <1>4, <1>5, <3>0
      <4> HIDE DEF x, top
      <4>2. x + (p - l) \in 1 .. top /\ x + (q - l) \in 1 .. top /\ x + (p - l) < x + (q - l)
        <5>1. l \in Nat /\ next \in Nat /\ p \in Nat /\ q \in Nat /\ p > l /\ q > l /\ p < q
          BY <1>5, <1>8, <2>0, <2>3, <3>0
        <5>2. x + (p - l) \in 1 .. next /\ x + (q - l) \in 1 .. next
          BY <4>1, <5>1, Shifted
        <5> QED
          BY <4>1, <5>1, <5>2
      <4> QED
        BY <4>2 DEF x, top
    <3>2. grown[p] = sorted[m] /\ grown[q] = sorted[n]
      BY <1>7, <1>8, <2>0, <2>3
    <3> HIDE DEF m, n
    <3> QED
      BY <1>4, <3>1, <3>2
  <2> QED
    BY <1>8, <2>0, <2>1, <2>2, <2>3
<1>11. \A m \in 1 .. next : sorted[m].out + Grace >= ts => \E p \in 1 .. Len(grown) : grown[p] = sorted[m]
  <2> TAKE m \in 1 .. next
  <2> HAVE sorted[m].out + Grace >= ts
  <2>1. CASE m <= s.next
    <3>1. m \in 1 .. s.next /\ m \in 1 .. Len(sorted)
      BY <1>5, <2>1
    <3>2. sorted[m].out + Grace >= t
      BY <1>4, <3>1, AttributionAssumption
    <3>3. PICK p \in 1 .. l : s.stack[p] = sorted[m]
      BY <1>3, <1>8, <3>1, <3>2
    <3>4. p \in 1 .. Len(grown)
      BY <1>5, <1>7, <1>8
    <3> QED
      BY <1>7, <3>3, <3>4
  <2>2. CASE m > s.next
    <3>0. /\ s.next \in Nat /\ next \in Nat /\ l \in Nat /\ m \in Nat /\ m > s.next /\ m <= next
          /\ Len(grown) = l + (next - s.next)
      BY <1>5, <1>7, <1>8, <2>2
    <3> DEFINE x == s.next
               top == l + (next - x)
    <3>00. x \in Nat /\ m > x /\ x = s.next /\ Len(grown) = top
      BY <3>0
    <3> HIDE DEF x
    <3>1a. \E p \in 1 .. l + (next - x) : p > l /\ x + (p - l) = m
      <4>1. x \in Nat /\ l \in Nat /\ m \in Nat /\ next \in Nat /\ m > x /\ m <= next
        BY <3>0, <3>00
      <4> QED
        BY ONLY <4>1, ShiftedUp
    <3>1b. PICK p \in 1 .. top : p > l /\ x + (p - l) = m
      BY <3>1a
    <3>1. p \in 1 .. Len(grown) /\ p > l /\ s.next + (p - l) = m
      BY <3>00, <3>1b, Zenon
    <3>2. grown[p] = sorted[m]
      BY <1>7, <3>1
    <3> QED
      BY <3>1, <3>2
  <2> QED
    BY <1>5, <2>1, <2>2
<1>12. PICK k \in 0 .. Len(grown) :
              /\ DropExpired(grown, ts) = SubSeq(grown, 1, k)
              /\ k # 0 => grown[k].out + Grace >= ts
              /\ \A n \in 1 .. Len(grown) : grown[n].out + Grace >= ts => n <= k
  BY <1>4, <1>7, DropCuts
<1>13. Len(grown) \in Nat /\ k \in Nat /\ k <= Len(grown)
  BY <1>5, <1>7, <1>8, <1>12
<1>14. a.stack \in Seq(W) /\ Len(a.stack) = k /\ \A p \in 1 .. k : a.stack[p] = grown[p]
  <2>1. \A i \in 1 .. k : grown[i] \in W
    BY <1>7, <1>13
  <2>2. 1 \in Int /\ k \in Int
    BY <1>13
  <2> DEFINE left == SubSeq(grown, 1, k)
  <2>3. /\ left \in Seq(W) /\ Len(left) = IF 1 <= k THEN k - 1 + 1 ELSE 0
        /\ \A i \in 1 .. k - 1 + 1 : left[i] = grown[1 + i - 1]
    BY <2>1, <2>2, SubSeqProperties
  <2>4. a.stack = left
    BY <1>2, <1>12
  <2> HIDE DEF left
  <2>5. k - 1 + 1 = k /\ \A i \in Int : 1 + i - 1 = i
    BY <1>13
  <2> QED
    BY <1>13, <2>3, <2>4, <2>5
<1>15. \A p \in 1 .. k : p \in 1 .. Len(grown)
  BY <1>13
<1>16. SweepOK(W, sorted, ts, a)
  <2>1. a.next = next /\ next \in 0 .. Len(sorted)
    BY <1>1, <1>5 DEF next
  <2>2. \A m \in 1 .. next : sorted[m].in <= ts
    BY <1>1, <1>5
  <2>3. \A p \in 1 .. k : \E m \in 1 .. next : a.stack[p] = sorted[m]
    BY <1>9, <1>14, <1>15
  <2>4. \A p, q \in 1 .. k : p < q => a.stack[p].in < a.stack[q].in
    BY <1>10, <1>14, <1>15
  <2>5. \A m \in 1 .. next : sorted[m].out + Grace >= ts => \E p \in 1 .. k : a.stack[p] = sorted[m]
    <3> TAKE m \in 1 .. next
    <3> HAVE sorted[m].out + Grace >= ts
    <3>1. PICK p \in 1 .. Len(grown) : grown[p] = sorted[m]
      BY <1>11
    <3>2. p <= k
      BY <1>12, <3>1
    <3>3. p \in 1 .. k
      BY <1>13, <3>2
    <3> QED
      BY <1>14, <3>1, <3>3
  <2> QED
    BY <1>14, <2>1, <2>2, <2>3, <2>4, <2>5 DEF SweepOK
<1>17. Settled(sorted, ts, a)
  <2>1. \A m \in 1 .. Len(sorted) : sorted[m].in <= ts => m <= a.next
    BY <1>1 DEF next
  <2>2. a.stack # <<>> => a.stack[Len(a.stack)].out + Grace >= ts
    <3> HAVE a.stack # <<>>
    <3>1. k # 0
      BY <1>14
    <3>2. k \in 1 .. k
      BY <1>13, <3>1
    <3> QED
      BY <1>12, <1>14, <3>1, <3>2
  <2> QED
    BY <2>1, <2>2 DEF Settled
<1> QED
  BY <1>16, <1>17 DEF a

\* The call on top is the last that was entered of those that cover the time.
Covering(W, t) == {w \in W : w.in <= t /\ t <= w.out + Grace}

LEMMA TopIsLatest ==
    ASSUME NEW W, NEW sorted, WindowsInOrder(W, sorted), \A w \in W : \E m \in 1 .. Len(sorted) : sorted[m] = w,
           NEW t \in Nat, NEW s, SweepOK(W, sorted, t, s), Settled(sorted, t, s)
    PROVE  /\ s.stack = <<>> <=> Covering(W, t) = {}
           /\ s.stack # <<>> => s.stack[Len(s.stack)]
                = CHOOSE w \in Covering(W, t) : \A v \in Covering(W, t) : v.in <= w.in
<1> DEFINE l == Len(s.stack)
           covering == Covering(W, t)
<1>0. \A w : w \in covering <=> w \in W /\ w.in <= t /\ t <= w.out + Grace
  BY DEF Covering
<1> HIDE DEF covering
<1>1. /\ \A w \in W : w.in \in Nat /\ w.out \in Nat
      /\ Len(sorted) \in Nat /\ \A m \in 1 .. Len(sorted) : sorted[m] \in W
      /\ \A m, n \in 1 .. Len(sorted) : m < n => sorted[m].in < sorted[n].in
  BY DEF WindowsInOrder
<1>2. /\ s.next \in 0 .. Len(sorted) /\ s.stack \in Seq(W)
      /\ \A m \in 1 .. s.next : sorted[m].in <= t
      /\ \A p \in 1 .. l : \E m \in 1 .. s.next : s.stack[p] = sorted[m]
      /\ \A p, q \in 1 .. l : p < q => s.stack[p].in < s.stack[q].in
      /\ \A m \in 1 .. s.next : sorted[m].out + Grace >= t => \E p \in 1 .. l : s.stack[p] = sorted[m]
  BY DEF SweepOK
<1>3. /\ \A m \in 1 .. Len(sorted) : sorted[m].in <= t => m <= s.next
      /\ s.stack # <<>> => s.stack[l].out + Grace >= t
  BY DEF Settled
<1>4. l \in Nat /\ (s.stack = <<>> <=> l = 0)
  BY <1>2
<1>5. Grace \in Nat
  BY AttributionAssumption
<1> HIDE DEF l
<1>6. \A p \in 1 .. l : s.stack[p] \in W /\ s.stack[p].in <= t
  <2> TAKE p \in 1 .. l
  <2>1. PICK m \in 1 .. s.next : s.stack[p] = sorted[m]
    BY <1>2
  <2>2. m \in 1 .. Len(sorted)
    BY <1>1, <1>2
  <2> QED
    BY <1>1, <1>2, <2>1, <2>2
<1>7. \A w \in covering : \E p \in 1 .. l : s.stack[p] = w
  <2> TAKE w \in covering
  <2>1. w \in W /\ w.in <= t /\ t <= w.out + Grace
    BY <1>0
  <2>2. PICK m \in 1 .. Len(sorted) : sorted[m] = w
    BY <2>1
  <2>3. m <= s.next
    BY <1>3, <2>1, <2>2
  <2>4. m \in 1 .. s.next
    BY <1>1, <1>2, <2>3
  <2>5. sorted[m].out + Grace >= t
    BY <1>1, <1>5, <2>1, <2>2
  <2> QED
    BY <1>2, <2>2, <2>4, <2>5
<1>8. CASE s.stack = <<>>
  <2>1. l = 0
    BY <1>4, <1>8
  <2>2. covering = {}
    BY <1>7, <2>1
  <2> QED
    BY <1>8, <2>2 DEF covering
<1>9. CASE s.stack # <<>>
  <2> DEFINE top == s.stack[l]
  <2>1. l \in 1 .. l /\ l # 0
    BY <1>4, <1>9
  <2>2. top \in W /\ top.in <= t /\ top.out + Grace >= t /\ top.out \in Nat
    BY <1>1, <1>3, <1>6, <1>9, <2>1
  <2>3. top \in covering
    BY <1>0, <1>5, <2>2
  <2>4. \A w \in covering : w = top \/ w.in < top.in
    <3> TAKE w \in covering
    <3>1. PICK p \in 1 .. l : s.stack[p] = w
      BY <1>7
    <3>2. p = l \/ p < l
      BY <1>4
    <3> QED
      BY <1>2, <2>1, <3>1, <3>2
  <2>5. \A w \in covering : w \in W /\ w.in \in Nat
    BY <1>0, <1>1
  <2> HIDE DEF top
  <2>6. \A w \in covering : w.in <= top.in
    BY <2>3, <2>4, <2>5
  <2>7. \A w \in covering : (\A v \in covering : v.in <= w.in) => w = top
    <3> TAKE w \in covering
    <3> HAVE \A v \in covering : v.in <= w.in
    <3>1. top.in <= w.in /\ top.in \in Nat /\ w.in \in Nat
      BY <2>3, <2>5
    <3> QED
      BY <2>4, <3>1
  <2> DEFINE c == CHOOSE w \in covering : \A v \in covering : v.in <= w.in
  <2>8. c \in covering /\ \A v \in covering : v.in <= c.in
    BY <2>3, <2>6, Zenon
  <2> HIDE DEF c
  <2>9. c = top
    BY <2>7, <2>8
  <2> QED
    BY <1>9, <2>3, <2>9 DEF top, c, l, covering
<1> QED
  BY <1>8, <1>9

\* f sweeps over the times, one after the other.
Sweeps(sorted, start, times, f) ==
    f = [n \in 0 .. Len(times) |-> IF n = 0 THEN start ELSE SweptTo(sorted, f[n - 1], times[n])]

LEMMA SweepExists ==
    ASSUME NEW sorted, NEW start, NEW times, Len(times) \in Nat
    PROVE  \E f : Sweeps(sorted, start, times, f)
<1> DEFINE N == Len(times)
           Turn(f, n) == IF n = 0 THEN start ELSE SweptTo(sorted, f[n - 1], times[n])
           Upto(m, f) == f = [n \in 0 .. m |-> Turn(f, n)]
           G == {m \in 0 .. N : \E f : Upto(m, f)}
<1>1. N \in Nat
  OBVIOUS
<1> HIDE DEF N
<1>2. 0 \in G
  <2> DEFINE f == [n \in 0 .. 0 |-> start]
  <2>1. Upto(0, f)
    <3>1. \A n \in 0 .. 0 : f[n] = Turn(f, n)
      OBVIOUS
    <3>2. f = [n \in 0 .. 0 |-> f[n]]
      OBVIOUS
    <3> HIDE DEF f, Turn
    <3> QED
      BY <3>1, <3>2
  <2> HIDE DEF Upto
  <2> QED
    BY <1>1, <2>1
<1>3. ASSUME NEW m \in 0 .. N, m # N, m \in G
      PROVE  m + 1 \in G
  <2>1. PICK f : Upto(m, f)
    BY <1>3
  <2>2. m \in Nat /\ m + 1 \in 0 .. N /\ m + 1 # 0 /\ (m + 1) - 1 = m /\ m \in 0 .. m
    BY <1>1, <1>3
  <2> DEFINE g == [n \in 0 .. m + 1 |-> IF n = m + 1 THEN SweptTo(sorted, f[m], times[m + 1]) ELSE f[n]]
  <2>3. \A n \in 0 .. m : n \in 0 .. m + 1 /\ n # m + 1 /\ (n # 0 => n - 1 \in 0 .. m)
    BY <2>2
  <2>4. \A n \in 0 .. m : g[n] = f[n]
    BY <2>3
  <2>5. \A n \in 0 .. m + 1 : g[n] = Turn(g, n)
    <3> TAKE n \in 0 .. m + 1
    <3>1. CASE n = m + 1
      <4>1. g[n] = SweptTo(sorted, f[m], times[m + 1])
        BY <3>1
      <4>2. g[m] = f[m]
        BY <2>2, <2>4
      <4> HIDE DEF g
      <4> QED
        BY <2>2, <3>1, <4>1, <4>2
    <3>2. CASE n # m + 1
      <4>1. n \in 0 .. m
        BY <2>2, <3>2
      <4>2. g[n] = f[n] /\ f[n] = Turn(f, n)
        BY <2>1, <2>4, <4>1
      <4>3. Turn(f, n) = Turn(g, n)
        <5>1. CASE n = 0
          BY <5>1
        <5>2. CASE n # 0
          <6>1. g[n - 1] = f[n - 1]
            BY <2>3, <2>4, <4>1, <5>2
          <6> HIDE DEF g
          <6> QED
            BY <5>2, <6>1
        <5> QED
          BY <5>1, <5>2
      <4> HIDE DEF g, Turn
      <4> QED
        BY <4>2, <4>3
    <3> QED
      BY <3>1, <3>2
  <2>6. g = [n \in 0 .. m + 1 |-> g[n]]
    OBVIOUS
  <2> HIDE DEF g, Turn
  <2>7. Upto(m + 1, g)
    BY <2>5, <2>6
  <2> HIDE DEF Upto
  <2> QED
    BY <2>2, <2>7
<1> HIDE DEF G
<1>4. 0 .. N \subseteq G
  BY <1>1, <1>2, <1>3, InductionUpTo
<1>5. N \in G
  BY <1>1, <1>4
<1> QED
  BY <1>5, Zenon DEF G, N, Sweeps

\* The windows of the calls are as a session leaves them.
WindowsOK ==
    /\ IsFiniteSet(ScopeWindows) /\ \A w \in ScopeWindows : w.in \in Nat /\ w.out \in Nat
    /\ \A v, w \in ScopeWindows : v.in = w.in => v = w

\* The sweep over rising times finds the innermost call at each of them.
LEMMA SweepIs ==
    ASSUME WindowsOK, NEW times \in Seq(Nat),
           \A m, n \in 1 .. Len(times) : m < n => times[m] <= times[n]
    PROVE  \A n \in 1 .. Len(times) : ScopeSweep(times)[n] = Innermost(times[n])
<1> DEFINE W == ScopeWindows
           key == [w \in W |-> w.in]
           sorted == Ascending(W, key)
           start == [next |-> 0, stack |-> <<>>]
           N == Len(times)
           K == CHOOSE f : f = [n \in 0 .. N |->
                                  IF n = 0 THEN start ELSE SweptTo(sorted, f[n - 1], times[n])]
           T(n) == IF n = 0 THEN 0 ELSE times[n]
<1>1. N \in Nat /\ \A n \in 1 .. N : times[n] \in Nat
  OBVIOUS
<1>2. ScopeSweep(times) = [n \in DOMAIN times |->
                             IF K[n].stack = <<>> THEN 0 ELSE Last(K[n].stack).id]
  BY Zenon DEF ScopeSweep, SweptTo
<1>3. DOMAIN times = 1 .. N
  OBVIOUS
<1>4. WindowsInOrder(W, sorted) /\ \A w \in W : \E m \in 1 .. Len(sorted) : sorted[m] = w
  <2>1. /\ IsFiniteSet(W) /\ \A w \in W : key[w] = w.in /\ w.in \in Nat /\ w.out \in Nat
        /\ \A v, w \in W : key[v] = key[w] => v = w
    BY DEF WindowsOK
  <2> HIDE DEF W, key
  <2>2. /\ sorted \in Seq(W) /\ Len(sorted) = Cardinality(W)
        /\ \A m, n \in 1 .. Cardinality(W) : m < n => key[sorted[m]] < key[sorted[n]]
        /\ \A x \in W : \E n \in 1 .. Cardinality(W) : sorted[n] = x
    <3>1. \A w \in W : key[w] \in Int
      BY <2>1
    <3>2. IsFiniteSet(W) /\ \A x, y \in W : key[x] = key[y] => x = y
      BY <2>1
    <3>3. sorted \in Seq(W) /\ Len(sorted) = Cardinality(W)
      BY <2>1, <3>1, <3>2, AscendingSorts
    <3>4. \A m, n \in 1 .. Cardinality(W) : m < n => key[sorted[m]] < key[sorted[n]]
      BY <2>1, <3>1, <3>2, AscendingSorts
    <3>5. \A x \in W : \E n \in 1 .. Cardinality(W) : sorted[n] = x
      BY <2>1, <3>1, <3>2, AscendingSorts
    <3> QED
      BY <3>3, <3>4, <3>5
  <2> HIDE DEF sorted
  <2>3. \A m \in 1 .. Len(sorted) : key[sorted[m]] = sorted[m].in
    BY <2>1, <2>2
  <2> QED
    BY <2>1, <2>2, <2>3 DEF WindowsInOrder
<1>5. K = [n \in 0 .. N |-> IF n = 0 THEN start ELSE SweptTo(sorted, K[n - 1], times[n])]
  <2> HIDE DEF start, sorted
  <2>1. \E f : Sweeps(sorted, start, times, f)
    <3>1. Len(times) \in Nat
      OBVIOUS
    <3> QED
      BY <3>1, SweepExists
  <2> QED
    BY <2>1, Zenon DEF Sweeps
<1> HIDE DEF K, W, sorted
<1> DEFINE Reached(n) == SweepOK(W, sorted, T(n), K[n]) /\ (n # 0 => Settled(sorted, T(n), K[n]))
           G == {n \in 0 .. N : Reached(n)}
<1>6. 0 \in G
  <2>1. 0 \in 0 .. N
    BY <1>1
  <2>2. K[0] = start
    BY <1>5, <2>1
  <2>3. start.next = 0 /\ start.stack = <<>> /\ Len(start.stack) = 0 /\ 1 .. 0 = {} /\ <<>> \in Seq(W)
    OBVIOUS
  <2>4. Len(sorted) \in Nat
    BY <1>4 DEF WindowsInOrder
  <2>5. 0 \in 0 .. Len(sorted)
    BY <2>4
  <2> HIDE DEF start
  <2>6. SweepOK(W, sorted, 0, start)
    BY <2>3, <2>5 DEF SweepOK
  <2> QED
    BY <2>1, <2>2, <2>6
<1>7. ASSUME NEW n \in 0 .. N, n # N, n \in G
      PROVE  n + 1 \in G
  <2>1. n + 1 \in 1 .. N /\ n + 1 \in 0 .. N /\ n + 1 # 0 /\ (n + 1) - 1 = n
    BY <1>1, <1>7
  <2>2. K[n + 1] = SweptTo(sorted, K[n], times[n + 1])
    BY <1>5, <2>1
  <2>3. T(n) \in Nat /\ times[n + 1] \in Nat /\ T(n) <= times[n + 1]
    <3>1. CASE n = 0
      BY <1>1, <2>1, <3>1
    <3>2. CASE n # 0
      <4>1. n \in 1 .. N /\ n < n + 1
        BY <1>1, <3>2
      <4>2. times[n] <= times[n + 1] /\ times[n] \in Nat /\ times[n + 1] \in Nat
        BY <1>1, <2>1, <4>1
      <4> QED
        BY <3>2, <4>2
    <3> QED
      BY <3>1, <3>2
  <2>4. SweepOK(W, sorted, T(n), K[n])
    BY <1>7
  <2> HIDE DEF T
  <2>5. /\ SweepOK(W, sorted, times[n + 1], SweptTo(sorted, K[n], times[n + 1]))
        /\ Settled(sorted, times[n + 1], SweptTo(sorted, K[n], times[n + 1]))
    BY <1>4, <2>3, <2>4, SweepStep
  <2>6. T(n + 1) = times[n + 1]
    BY <2>1 DEF T
  <2> QED
    BY <2>1, <2>2, <2>5, <2>6
<1>8. 0 .. N \subseteq G
  <2> HIDE DEF G, N
  <2> QED
    BY <1>1, <1>6, <1>7, InductionUpTo
<1> TAKE n \in 1 .. N
<1>9. n \in 0 .. N /\ n # 0 /\ times[n] \in Nat
  BY <1>1
<1>10. SweepOK(W, sorted, times[n], K[n]) /\ Settled(sorted, times[n], K[n])
  BY <1>8, <1>9
<1> DEFINE t == times[n]
           stack == K[n].stack
           covering == Covering(W, t)
<1>11. /\ stack = <<>> <=> covering = {}
       /\ stack # <<>> => stack[Len(stack)] = CHOOSE w \in covering : \A v \in covering : v.in <= w.in
  <2> HIDE DEF t
  <2> DEFINE s == K[n]
  <2>1. /\ t \in Nat /\ SweepOK(W, sorted, t, s) /\ Settled(sorted, t, s)
        /\ WindowsInOrder(W, sorted) /\ \A w \in W : \E m \in 1 .. Len(sorted) : sorted[m] = w
    BY <1>4, <1>9, <1>10 DEF t
  <2> HIDE DEF s
  <2>2. s.stack = <<>> <=> covering = {}
    BY <2>1, TopIsLatest
  <2>3. s.stack # <<>> => s.stack[Len(s.stack)] = CHOOSE w \in covering : \A v \in covering : v.in <= w.in
    BY <2>1, TopIsLatest
  <2> QED
    BY <2>2, <2>3, Zenon DEF s
<1>12. ScopeSweep(times)[n] = IF stack = <<>> THEN 0 ELSE stack[Len(stack)].id
  BY <1>2, <1>3 DEF Last
<1>13. Innermost(t) = IF covering = {} THEN 0
                      ELSE (CHOOSE w \in covering : \A v \in covering : v.in <= w.in).id
  BY Zenon DEF Innermost, W, Covering
<1> HIDE DEF stack, covering
<1>14. ScopeSweep(times)[n] = Innermost(t)
  BY <1>11, <1>12, <1>13
<1> QED
  BY <1>14 DEF t

-----------------------------------------------------------------------------
(* Attribution: a session's events.                                        *)

SessionEvents ==
    [kind : {"hello"}, ts : Nat]
      \cup [kind : {"enter"}, ts : Nat, id : Nat \ {0}, parent : Nat]
      \cup [kind : {"return"}, ts : Nat, id : Nat]
      \cup [kind : {"evalIn"}, ts : Nat, id : Nat, stack : Seq(Nat), framed : BOOLEAN]
      \cup [kind : {"evalOut"}, ts : Nat, id : Nat, async : BOOLEAN]
      \cup [kind : {"cb"}, ts : Nat, ops : BOOLEAN]

AttributionTypeOK ==
    /\ recorded \in Seq(SessionEvents) /\ now \in Nat
    /\ stacks \in [Threads -> Seq(0 .. ids.call - 1)]
    /\ evaling \in [Threads -> [id : Nat, since : Nat]]
    /\ ids \in [call : Nat \ {0}, eval : Nat]
    /\ capture \in BOOLEAN

\* The session is in the order in which things happened.
SessionRises ==
    /\ \A i \in DOMAIN recorded : recorded[i].ts <= now
    /\ \A i, j \in DOMAIN recorded : i < j => recorded[i].ts < recorded[j].ts

\* A call's number is above those of its parent and of the calls before it, and
\* below the next.
CallsRise ==
    /\ \A i \in Of("enter") : recorded[i].id < ids.call /\ recorded[i].parent < recorded[i].id
    /\ \A i, j \in Of("enter") : i < j => recorded[i].id < recorded[j].id

EvalsAreFramed == \A i \in Of("evalIn") : recorded[i].framed = capture

AttributionInv == AttributionTypeOK /\ SessionRises /\ CallsRise /\ EvalsAreFramed

LEMMA SessionFields ==
    ASSUME AttributionTypeOK
    PROVE  /\ Len(recorded) \in Nat /\ DOMAIN recorded = 1 .. Len(recorded)
           /\ \A i \in DOMAIN recorded : i \in Nat /\ recorded[i] \in SessionEvents /\ recorded[i].ts \in Nat
           /\ \A i \in Of("enter") : recorded[i].id \in Nat /\ recorded[i].id # 0 /\ recorded[i].parent \in Nat
           /\ \A i \in Of("evalIn") : recorded[i].stack \in Seq(Nat)
<1>1. recorded \in Seq(SessionEvents)
  BY DEF AttributionTypeOK
<1>2. Len(recorded) \in Nat /\ DOMAIN recorded = 1 .. Len(recorded)
      /\ \A i \in DOMAIN recorded : recorded[i] \in SessionEvents
  BY <1>1
<1>3. \A e \in SessionEvents :
         /\ e.ts \in Nat
         /\ e.kind = "enter" => e.id \in Nat /\ e.id # 0 /\ e.parent \in Nat
         /\ e.kind = "evalIn" => e.stack \in Seq(Nat)
  BY DEF SessionEvents
<1>4. \A k : \A i \in Of(k) : i \in DOMAIN recorded /\ recorded[i].kind = k
  BY DEF Of
<1> QED
  BY <1>2, <1>3, <1>4

LEMMA PartsAreFinite ==
    ASSUME AttributionTypeOK
    PROVE  \A X \in SUBSET (DOMAIN recorded) : IsFiniteSet(X)
<1>1. Len(recorded) \in Nat /\ DOMAIN recorded = 1 .. Len(recorded)
  BY SessionFields
<1>2. IsFiniteSet(DOMAIN recorded)
  BY <1>1, FS_Interval
<1> QED
  BY <1>2, FS_Subset

ScopeWindow(i) ==
    LET returned == {j \in Of("return") : recorded[j].id = recorded[i].id}
    IN  [in |-> recorded[i].ts, id |-> recorded[i].id,
         out |-> IF returned = {} THEN Last(recorded).ts
                 ELSE recorded[CHOOSE j \in returned : TRUE].ts]

LEMMA ScopeWindowsAre == ScopeWindows = {ScopeWindow(i) : i \in Of("enter")}
BY DEF ScopeWindows, ScopeWindow

LEMMA WindowsAreOK ==
    ASSUME AttributionTypeOK, SessionRises
    PROVE  WindowsOK
<1>1. /\ Len(recorded) \in Nat /\ DOMAIN recorded = 1 .. Len(recorded)
      /\ \A i \in DOMAIN recorded : i \in Nat /\ recorded[i].ts \in Nat
  BY SessionFields
<1>2. \A k : Of(k) \in SUBSET (DOMAIN recorded)
  BY DEF Of
<1>3. \A i \in Of("enter") : ScopeWindow(i).in = recorded[i].ts /\ ScopeWindow(i).out \in Nat
  <2> TAKE i \in Of("enter")
  <2> DEFINE returned == {j \in Of("return") : recorded[j].id = recorded[i].id}
             c == CHOOSE j \in returned : TRUE
  <2>1. i \in DOMAIN recorded /\ returned \in SUBSET (DOMAIN recorded)
    BY <1>2
  <2>2. Last(recorded).ts \in Nat
    <3>1. Len(recorded) \in DOMAIN recorded
      BY <1>1, <2>1
    <3> QED
      BY <1>1, <3>1 DEF Last
  <2>3. returned # {} => c \in returned
    OBVIOUS
  <2>4. ScopeWindow(i) = [in |-> recorded[i].ts, id |-> recorded[i].id,
                          out |-> IF returned = {} THEN Last(recorded).ts ELSE recorded[c].ts]
    BY DEF ScopeWindow
  <2> HIDE DEF returned, c
  <2>5. (IF returned = {} THEN Last(recorded).ts ELSE recorded[c].ts) \in Nat
    BY <1>1, <2>1, <2>2, <2>3
  <2> QED
    BY <2>4, <2>5
<1>4. \A i, j \in Of("enter") : recorded[i].ts = recorded[j].ts => i = j
  <2> TAKE i, j \in Of("enter")
  <2> HAVE recorded[i].ts = recorded[j].ts
  <2>1. /\ i \in DOMAIN recorded /\ j \in DOMAIN recorded /\ i \in Nat /\ j \in Nat
        /\ recorded[i].ts \in Nat /\ recorded[j].ts \in Nat
    BY <1>1, <1>2
  <2>2. ~(i < j) /\ ~(j < i)
    BY <2>1 DEF SessionRises
  <2> QED
    BY <2>1, <2>2
<1> DEFINE f == [i \in Of("enter") |-> ScopeWindow(i)]
<1>5. f \in Surjection(Of("enter"), ScopeWindows)
  BY ScopeWindowsAre DEF Surjection
<1>6. IsFiniteSet(Of("enter"))
  BY <1>2, PartsAreFinite
<1> HIDE DEF f
<1>7. IsFiniteSet(ScopeWindows)
  BY <1>5, <1>6, FS_Surjection
<1>8. \A w \in ScopeWindows : \E i \in Of("enter") : w = ScopeWindow(i)
  BY ScopeWindowsAre
<1>9. \A w \in ScopeWindows : w.in \in Nat /\ w.out \in Nat
  BY <1>1, <1>2, <1>3, <1>8
<1>10. \A v, w \in ScopeWindows : v.in = w.in => v = w
  BY <1>3, <1>4, <1>8
<1> QED
  BY <1>7, <1>9, <1>10 DEF WindowsOK

\* The sweep gives each buffer the innermost call that covers it.
LEMMA SweptIsInnermost ==
    ASSUME AttributionTypeOK, SessionRises, NEW cbs \in SUBSET (DOMAIN recorded)
    PROVE  Swept(cbs) = [i \in cbs |-> Innermost(recorded[i].ts)]
<1> DEFINE key == [i \in cbs |-> i]
           order == Ascending(cbs, key)
           times == [n \in DOMAIN order |-> recorded[order[n]].ts]
           N == Cardinality(cbs)
<1>1. /\ DOMAIN recorded = 1 .. Len(recorded)
      /\ \A i \in DOMAIN recorded : i \in Nat /\ recorded[i].ts \in Nat
  BY SessionFields
<1>2. IsFiniteSet(cbs) /\ N \in Nat
  BY PartsAreFinite, FS_CardinalityType
<1>3. \A i \in cbs : key[i] = i /\ i \in Nat /\ recorded[i].ts \in Nat /\ i \in DOMAIN recorded
  BY <1>1
<1>4. Swept(cbs) = [i \in cbs |-> ScopeSweep(times)[CHOOSE n \in DOMAIN order : order[n] = i]]
  BY Zenon DEF Swept
<1> HIDE DEF key
<1>5. /\ order \in Seq(cbs) /\ Len(order) = N
      /\ \A m, n \in 1 .. N : m < n => key[order[m]] < key[order[n]]
      /\ \A i \in cbs : \E n \in 1 .. N : order[n] = i
  <2>1. IsFiniteSet(cbs) /\ \A i \in cbs : key[i] \in Int
    BY <1>2, <1>3
  <2>2. \A i, j \in cbs : key[i] = key[j] => i = j
    BY <1>3
  <2>3. order \in Seq(cbs) /\ Len(order) = N
    BY <2>1, <2>2, AscendingSorts
  <2>4. \A m, n \in 1 .. N : m < n => key[order[m]] < key[order[n]]
    BY <2>1, <2>2, AscendingSorts
  <2>5. \A i \in cbs : \E n \in 1 .. N : order[n] = i
    BY <2>1, <2>2, AscendingSorts
  <2> QED
    BY <2>3, <2>4, <2>5
<1> HIDE DEF order, N
<1>6. DOMAIN order = 1 .. N /\ \A n \in 1 .. N : order[n] \in cbs
  BY <1>2, <1>5
<1>7. /\ times \in Seq(Nat) /\ Len(times) = N
      /\ \A n \in 1 .. N : times[n] = recorded[order[n]].ts
  <2>1. times = [n \in 1 .. N |-> recorded[order[n]].ts]
    BY <1>6
  <2>2. \A n \in 1 .. N : recorded[order[n]].ts \in Nat
    BY <1>3, <1>6
  <2> HIDE DEF times
  <2>3. times \in [1 .. N -> Nat]
    BY <2>1, <2>2
  <2> QED
    BY <1>2, <2>1, <2>3
<1> HIDE DEF times
<1>8. \A m, n \in 1 .. Len(times) : m < n => times[m] <= times[n]
  <2> TAKE m, n \in 1 .. Len(times)
  <2> HAVE m < n
  <2>1. m \in 1 .. N /\ n \in 1 .. N
    BY <1>7
  <2>2. key[order[m]] < key[order[n]] /\ order[m] \in cbs /\ order[n] \in cbs
    BY <1>5, <1>6, <2>1
  <2>3. order[m] < order[n]
    BY <1>3, <2>2
  <2>4. recorded[order[m]].ts < recorded[order[n]].ts
    BY <1>3, <2>2, <2>3 DEF SessionRises
  <2>5. recorded[order[m]].ts \in Nat /\ recorded[order[n]].ts \in Nat
    BY <1>3, <2>2
  <2> QED
    BY <1>7, <2>1, <2>4, <2>5
<1>9. \A n \in 1 .. N : ScopeSweep(times)[n] = Innermost(times[n])
  <2>1. \A n \in 1 .. Len(times) : ScopeSweep(times)[n] = Innermost(times[n])
    BY <1>7, <1>8, WindowsAreOK, SweepIs
  <2> QED
    BY <1>7, <2>1
<1>10. \A i \in cbs : ScopeSweep(times)[CHOOSE n \in DOMAIN order : order[n] = i] = Innermost(recorded[i].ts)
  <2> TAKE i \in cbs
  <2> DEFINE n == CHOOSE n \in DOMAIN order : order[n] = i
  <2>1. n \in 1 .. N /\ order[n] = i
    BY <1>5, <1>6
  <2> HIDE DEF n
  <2>2. ScopeSweep(times)[n] = Innermost(times[n]) /\ times[n] = recorded[i].ts
    BY <1>7, <1>9, <2>1
  <2>3. ScopeSweep(times)[n] = Innermost(recorded[i].ts)
    BY <2>2, Zenon
  <2> QED
    BY <2>3, Zenon DEF n
<1> QED
  BY <1>4, <1>10

-----------------------------------------------------------------------------
(* Attribution: the tree of the calls.                                     *)

ParentOf(c) == recorded[EnteredAt(c)].parent

LEMMA CallNumbers ==
    ASSUME AttributionInv
    PROVE  /\ Calls \in SUBSET Nat /\ IsFiniteSet(Calls) /\ 0 \notin Calls
           /\ ids.call \in Nat /\ \A c \in Calls : c <= ids.call
           /\ \A i \in Of("enter") : recorded[i].id \in Calls /\ EnteredAt(recorded[i].id) = i
           /\ \A c \in Calls : /\ EnteredAt(c) \in Of("enter") /\ recorded[EnteredAt(c)].id = c
                               /\ ParentOf(c) \in Nat /\ ParentOf(c) < c
<1>1. AttributionTypeOK /\ CallsRise
  BY DEF AttributionInv
<1>2. ids.call \in Nat
  BY <1>1 DEF AttributionTypeOK
<1>3. \A i \in Of("enter") : /\ i \in Nat /\ recorded[i].id \in Nat /\ recorded[i].id # 0
                             /\ recorded[i].parent \in Nat
                             /\ recorded[i].id < ids.call /\ recorded[i].parent < recorded[i].id
  <2>1. \A i \in Of("enter") : i \in DOMAIN recorded
    BY DEF Of
  <2> QED
    BY <1>1, <2>1, SessionFields DEF CallsRise
<1>4. \A i, j \in Of("enter") : recorded[i].id = recorded[j].id => i = j
  <2> TAKE i, j \in Of("enter")
  <2> HAVE recorded[i].id = recorded[j].id
  <2>1. ~(i < j) /\ ~(j < i)
    BY <1>1, <1>3 DEF CallsRise
  <2> QED
    BY <1>3, <2>1
<1>5. \A c : c \in Calls <=> \E i \in Of("enter") : recorded[i].id = c
  BY DEF Calls
<1>6. \A c \in Calls : EnteredAt(c) \in Of("enter") /\ recorded[EnteredAt(c)].id = c
  <2> TAKE c \in Calls
  <2>1. \E i \in Of("enter") : recorded[i].id = c
    BY <1>5
  <2> QED
    BY <2>1, Zenon DEF EnteredAt
<1>7. Calls \in SUBSET Nat /\ 0 \notin Calls /\ \A c \in Calls : c <= ids.call
  BY <1>2, <1>3, <1>5
<1>8. IsFiniteSet(Calls)
  BY <1>2, <1>7, FS_BoundedSetOfNaturals
<1>9. \A i \in Of("enter") : recorded[i].id \in Calls /\ EnteredAt(recorded[i].id) = i
  <2> TAKE i \in Of("enter")
  <2>1. recorded[i].id \in Calls
    BY <1>5
  <2>2. /\ EnteredAt(recorded[i].id) \in Of("enter")
        /\ recorded[EnteredAt(recorded[i].id)].id = recorded[i].id
    BY <1>6, <2>1
  <2> QED
    BY <1>4, <2>1, <2>2
<1>10. \A c \in Calls : ParentOf(c) \in Nat /\ ParentOf(c) < c
  BY <1>3, <1>6 DEF ParentOf
<1> QED
  BY <1>2, <1>6, <1>7, <1>8, <1>9, <1>10

\* A call is linked to its parent, if its parent is known.
LEMMA ChildrenAre ==
    ASSUME AttributionInv, NEW c \in Calls
    PROVE  Children(c) = {d \in Calls : ParentOf(d) = c}
<1>1. \A d \in Calls : /\ EnteredAt(d) \in Of("enter") /\ recorded[EnteredAt(d)].id = d
                       /\ ParentOf(d) < d /\ ParentOf(d) \in Nat /\ d \in Nat
  BY CallNumbers
<1>2. \A i \in Of("enter") : recorded[i].id \in Calls /\ EnteredAt(recorded[i].id) = i /\ i \in Nat
  BY CallNumbers, SessionFields DEF AttributionInv, Of
<1>3. ASSUME NEW d \in Calls, ParentOf(d) = c
      PROVE  EnteredAt(c) < EnteredAt(d)
  <2>1. /\ EnteredAt(c) \in Of("enter") /\ EnteredAt(d) \in Of("enter")
        /\ EnteredAt(c) \in Nat /\ EnteredAt(d) \in Nat
        /\ recorded[EnteredAt(c)].id = c /\ recorded[EnteredAt(d)].id = d /\ c < d
    BY <1>1, <1>2, <1>3
  <2>2. ~(EnteredAt(d) < EnteredAt(c))
    <3>1. EnteredAt(d) < EnteredAt(c) => d < c
      BY <2>1 DEF AttributionInv, CallsRise
    <3> QED
      BY <1>1, <2>1, <3>1
  <2>3. EnteredAt(c) # EnteredAt(d)
    BY <1>1, <2>1
  <2> QED
    BY <2>1, <2>2, <2>3
<1>4. \A d : d \in Children(c) => d \in Calls /\ ParentOf(d) = c
  <2> TAKE d
  <2> HAVE d \in Children(c)
  <2>1. PICK i \in Of("enter") : recorded[i].parent = c /\ d = recorded[i].id
    BY DEF Children
  <2>2. d \in Calls /\ EnteredAt(d) = i
    BY <1>2, <2>1
  <2> QED
    BY <2>1, <2>2 DEF ParentOf
<1>5. \A d \in Calls : ParentOf(d) = c => d \in Children(c)
  <2> TAKE d \in Calls
  <2> HAVE ParentOf(d) = c
  <2> DEFINE i == EnteredAt(d)
  <2>1. i \in Of("enter") /\ recorded[i].id = d /\ recorded[i].parent = c /\ EnteredAt(c) < i
    BY <1>1, <1>3 DEF ParentOf
  <2> HIDE DEF i
  <2> QED
    BY <2>1 DEF Children
<1> QED
  BY <1>4, <1>5

\* The tree shows a quantity of every call, once.
LEMMA ShownIsWhole ==
    ASSUME AttributionInv, NEW quantity \in [Calls -> Nat]
    PROVE  Shown(quantity) = SumFunctionOnSet(quantity, Calls)
<1> DEFINE C == Calls
           kids == [c \in C |-> Children(c)]
           parent == [c \in C |-> ParentOf(c)]
           N == ids.call
           K == CHOOSE f : f = [c \in C |-> quantity[c] + SumFunctionOnSet(f, Children(c))]
<1>1. /\ C \in SUBSET Nat /\ IsFiniteSet(C) /\ N \in Nat /\ \A c \in C : c <= N
      /\ \A c \in C : c \in Nat /\ ParentOf(c) \in Nat /\ ParentOf(c) < c
  BY CallNumbers
<1>2. \A c \in C : kids[c] = {d \in C : parent[d] = c} /\ kids[c] = Children(c)
  BY ChildrenAre
<1>3. parent \in [C -> Nat] /\ \A c \in C : parent[c] = ParentOf(c) /\ parent[c] < c
  BY <1>1
<1>4. Shown(quantity) = SumFunctionOnSet(K, Roots)
  BY Zenon DEF Shown
<1>5. Roots = {c \in C : parent[c] \notin C}
  BY <1>3 DEF Roots, ParentOf
<1>6. DOMAIN kids = C /\ kids = [c \in C |-> kids[c]]
  OBVIOUS
<1> HIDE DEF kids, parent, C, N
<1>7. Forest(C, kids, N)
  <2>1. \A c \in C : kids[c] \in SUBSET C /\ \A d \in kids[c] : c < d
    BY <1>1, <1>2, <1>3
  <2>2. kids \in [C -> SUBSET C]
    BY <1>6, <2>1
  <2> QED
    BY <1>1, <2>1, <2>2 DEF Forest
<1>8. quantity \in [C -> Nat]
  BY DEF C
<1>9. K = [c \in C |-> quantity[c] + SumFunctionOnSet(K, Children(c))]
  <2>1. PICK f : Tree(C, quantity, kids, f)
    BY <1>7, <1>8, TreeExists
  <2>2. \A c \in C : f[c] = quantity[c] + SumFunctionOnSet(f, Children(c))
    BY <1>2, <2>1 DEF Tree
  <2>3. f = [c \in C |-> f[c]]
    BY <2>1 DEF Tree
  <2>4. f = [c \in C |-> quantity[c] + SumFunctionOnSet(f, Children(c))]
    BY <2>2, <2>3
  <2> QED
    BY <2>4, Zenon
<1> HIDE DEF K
<1>10. K = [c \in C |-> quantity[c] + SumFunctionOnSet(K, kids[c])]
  <2>1. \A c \in C : K[c] = quantity[c] + SumFunctionOnSet(K, kids[c])
    BY <1>2, <1>9
  <2>2. K = [c \in C |-> K[c]]
    BY <1>9
  <2> QED
    BY <2>1, <2>2
<1>11. Tree(C, quantity, kids, K)
  BY <1>7, <1>8, <1>10, TreeIs
<1>12. SumFunctionOnSet(K, {c \in C : parent[c] \notin C}) = SumFunctionOnSet(quantity, C)
  <2>1. \A c \in C : parent[c] < c
    BY <1>3
  <2>2. \A c \in C : kids[c] = {d \in C : parent[d] = c}
    BY <1>2
  <2>3. parent \in [C -> Nat]
    BY <1>3
  <2> QED
    BY <1>7, <1>8, <1>11, <2>1, <2>2, <2>3, TreeSum
<1> QED
  BY <1>4, <1>5, <1>12 DEF C

-----------------------------------------------------------------------------
(* Attribution: what each buffer is charged to.                            *)

\* The buffers whose time is known, or all if no kernel was ever sampled.
Weighed == IF SeenOps THEN {i \in Cbs : recorded[i].ops} ELSE Cbs

LEMMA CbsAre ==
    ASSUME AttributionTypeOK
    PROVE  Cbs \in SUBSET (DOMAIN recorded) /\ IsFiniteSet(Cbs)
<1>1. Cbs \in SUBSET (DOMAIN recorded)
  BY DEF Cbs, Of
<1> QED
  BY <1>1, PartsAreFinite

LEMMA NsCounts ==
    ASSUME AttributionTypeOK, NEW X \in SUBSET Cbs
    PROVE  Ns(X) = Cardinality({i \in X : i \in Weighed}) /\ Ns(X) \in Nat
<1>1. IsFiniteSet(Cbs)
  BY CbsAre
<1>2. IsFiniteSet({i \in X : i \in Weighed})
  <2>1. {i \in X : i \in Weighed} \in SUBSET Cbs
    OBVIOUS
  <2> QED
    BY <1>1, <2>1, FS_Subset
<1>3. CASE SeenOps
  <2>1. {i \in X : i \in Weighed} = {i \in X : recorded[i].ops}
    BY <1>3 DEF Weighed
  <2>2. Ns(X) = Cardinality({i \in X : recorded[i].ops})
    BY <1>3 DEF Ns
  <2> QED
    BY <1>2, <2>1, <2>2, FS_CardinalityType
<1>4. CASE ~SeenOps
  <2>1. {i \in X : i \in Weighed} = X
    BY <1>4 DEF Weighed
  <2>2. Ns(X) = Cardinality(X)
    BY <1>4 DEF Ns
  <2> QED
    BY <1>2, <2>1, <2>2, FS_CardinalityType
<1> QED
  BY <1>3, <1>4

\* Of two parts the greater has no less time.
LEMMA NsGrows ==
    ASSUME AttributionTypeOK, NEW X \in SUBSET Cbs, NEW Y \in SUBSET X
    PROVE  Ns(Y) <= Ns(X)
<1> DEFINE A == {i \in X : i \in Weighed}
           B == {i \in Y : i \in Weighed}
<1>1. Ns(X) = Cardinality(A) /\ Ns(Y) = Cardinality(B)
  <2>1. Y \in SUBSET Cbs
    OBVIOUS
  <2> QED
    BY <2>1, NsCounts
<1>2. B \in SUBSET A /\ A \in SUBSET Cbs
  OBVIOUS
<1> HIDE DEF A, B
<1>3. IsFiniteSet(A)
  BY <1>2, CbsAre, FS_Subset
<1> QED
  BY <1>1, <1>2, <1>3, FS_Subset

LEMMA OwnersAre ==
    ASSUME AttributionTypeOK, SessionRises
    PROVE  Owners = [i \in Cbs |-> IF i \in InEval THEN LeafOf(CHOOSE w \in EvalOf(i) : TRUE)
                                   ELSE Innermost(recorded[i].ts)]
<1> DEFINE rest == Cbs \ InEval
           swept == Swept(rest)
<1>1. rest \in SUBSET (DOMAIN recorded)
  BY CbsAre
<1>2. Owners = [i \in Cbs |-> IF i \in InEval THEN LeafOf(CHOOSE w \in EvalOf(i) : TRUE)
                              ELSE swept[i]]
  BY Zenon DEF Owners
<1>3. \A i \in Cbs : i \notin InEval => swept[i] = Innermost(recorded[i].ts)
  <2>1. \A i \in Cbs : i \notin InEval => i \in rest
    OBVIOUS
  <2> HIDE DEF rest
  <2>2. Swept(rest) = [i \in rest |-> Innermost(recorded[i].ts)]
    BY <1>1, SweptIsInnermost
  <2> QED
    BY <2>1, <2>2
<1> HIDE DEF swept
<1> QED
  BY <1>2, <1>3

\* A buffer goes to a call that is known, or to none.
LEMMA OwnersAreCalls ==
    ASSUME AttributionInv
    PROVE  \A i \in Cbs : Owners[i] \in Calls \/ Owners[i] = 0
<1>1. AttributionTypeOK /\ SessionRises
  BY DEF AttributionInv
<1>2. \A w : LeafOf(w) \in Calls \/ LeafOf(w) = 0
  BY DEF LeafOf
<1>3. \A ts \in Nat : Innermost(ts) \in Calls \/ Innermost(ts) = 0
  <2> TAKE ts \in Nat
  <2> DEFINE covering == {w \in ScopeWindows : w.in <= ts /\ ts <= w.out + Grace}
             c == CHOOSE w \in covering : \A v \in covering : v.in <= w.in
  <2>1. Innermost(ts) = IF covering = {} THEN 0 ELSE c.id
    BY Zenon DEF Innermost
  <2>2. \A w \in ScopeWindows : w.id \in Calls
    BY ScopeWindowsAre DEF ScopeWindow, Calls
  <2>3. covering # {} => c \in covering
    <3> HAVE covering # {}
    <3> DEFINE G == {w.in : w \in covering}
               m == Max(G)
    <3>1. \A w \in covering : w.in \in 0 .. ts
      BY <1>1, WindowsAreOK DEF WindowsOK
    <3> HIDE DEF covering
    <3>2. G \in SUBSET (0 .. ts) /\ G # {}
      BY <3>1
    <3>3. m \in G /\ \A k \in G : m >= k
      <4> HIDE DEF G
      <4> QED
        BY <3>2, GreatestIsMember
    <3> HIDE DEF m
    <3>4. PICK w \in covering : w.in = m
      BY <3>3
    <3>5. \A v \in covering : v.in <= w.in
      <4> TAKE v \in covering
      <4>1. m >= v.in /\ v.in \in 0 .. ts /\ w.in \in 0 .. ts
        BY <3>1, <3>3
      <4> QED
        BY <3>4, <4>1
    <3> QED
      BY <3>5, Zenon
  <2>4. c \in covering => c \in ScopeWindows
    OBVIOUS
  <2> HIDE DEF c, covering
  <2> QED
    BY <2>1, <2>2, <2>3, <2>4
<1>4. \A i \in Cbs : recorded[i].ts \in Nat
  BY <1>1, CbsAre, SessionFields
<1> HIDE DEF Cbs
<1>5. ASSUME NEW i \in Cbs
      PROVE  Owners[i] \in Calls \/ Owners[i] = 0
  <2>1. Owners[i] = IF i \in InEval THEN LeafOf(CHOOSE w \in EvalOf(i) : TRUE)
                    ELSE Innermost(recorded[i].ts)
    BY <1>1, OwnersAre
  <2>2. Innermost(recorded[i].ts) \in Calls \/ Innermost(recorded[i].ts) = 0
    BY <1>3, <1>4
  <2> DEFINE w == CHOOSE w \in EvalOf(i) : TRUE
  <2>3. LeafOf(w) \in Calls \/ LeafOf(w) = 0
    BY <1>2
  <2>4. Owners[i] = LeafOf(w) \/ Owners[i] = Innermost(recorded[i].ts)
    BY <2>1
  <2> HIDE DEF w
  <2> QED
    BY <2>2, <2>3, <2>4
<1> QED
  BY <1>5

\* No time is lost or counted twice.
LEMMA ShownAddsUp ==
    ASSUME AttributionInv
    PROVE  Shown(Self(Owners)) + Unscoped(Owners) = Ns(Cbs)
<1> DEFINE W == Weighed
           owner == Owners
           C == Calls
           B == Cbs
           all == {i \in B : i \in W}
           known == Owned(C, B, owner, W)
           unknown == {i \in B : owner[i] = 0 /\ i \in W}
           q == OwnedBy(C, B, owner, W)
<1>1. AttributionTypeOK /\ IsFiniteSet(B) /\ IsFiniteSet(C) /\ 0 \notin C
  BY CbsAre, CallNumbers DEF AttributionInv
<1>2. \A i \in B : owner[i] \in C \/ owner[i] = 0
  BY OwnersAreCalls
<1> HIDE DEF owner, C, B, W
<1>3. \A k : Ns({i \in B : owner[i] = k}) = Cardinality({i \in B : owner[i] = k /\ i \in W})
             /\ Ns({i \in B : owner[i] = k}) \in Nat
  <2> TAKE k
  <2> DEFINE X == {i \in B : owner[i] = k}
  <2>1. X \in SUBSET Cbs
    BY DEF B
  <2>2. {i \in X : i \in Weighed} = {i \in B : owner[i] = k /\ i \in W}
    BY DEF W
  <2> HIDE DEF X
  <2>3. Ns(X) = Cardinality({i \in X : i \in Weighed}) /\ Ns(X) \in Nat
    BY <1>1, <2>1, NsCounts
  <2>4. Ns(X) = Cardinality({i \in B : owner[i] = k /\ i \in W}) /\ Ns(X) \in Nat
    BY <2>2, <2>3, Zenon
  <2> QED
    BY <2>4 DEF X
<1>4. Self(Owners) = q
  <2>1. Self(Owners) = [c \in C |-> Ns({i \in B : owner[i] = c})]
    BY DEF Self, C, B, owner
  <2> QED
    BY <1>3, <2>1 DEF OwnedBy
<1>5. Unscoped(Owners) = Cardinality(unknown)
  <2>1. Unscoped(Owners) = Ns({i \in B : owner[i] = 0})
    BY DEF Unscoped, B, owner
  <2> QED
    BY <1>3, <2>1
<1>6. Ns(Cbs) = Cardinality(all)
  <2>1. Cbs \in SUBSET Cbs
    OBVIOUS
  <2>2. Ns(Cbs) = Cardinality({i \in Cbs : i \in Weighed})
    BY <1>1, <2>1, NsCounts
  <2> QED
    BY <2>2 DEF B, W
<1>7. q \in [C -> Nat]
  <2>1. q = [c \in C |-> Ns({i \in B : owner[i] = c})]
    BY <1>3 DEF OwnedBy
  <2> QED
    BY <1>3, <2>1
<1> HIDE DEF q
<1>8. Shown(q) = SumFunctionOnSet(q, C)
  BY <1>7, ShownIsWhole DEF C
<1>9. SumFunctionOnSet(q, C) = Cardinality(known)
  BY <1>1, SumOfParts DEF q
<1>10. known \cup unknown = all /\ known \cap unknown = {} /\ known \in SUBSET B /\ unknown \in SUBSET B
  BY <1>1, <1>2 DEF Owned
<1> HIDE DEF known, unknown, all
<1>11. IsFiniteSet(known) /\ IsFiniteSet(unknown)
  BY <1>1, <1>10, FS_Subset
<1>12. Cardinality(known \cup unknown)
         = Cardinality(known) + Cardinality(unknown) - Cardinality(known \cap unknown)
  BY <1>11, FS_Union
<1>13. Cardinality(known \cap unknown) = 0 /\ Cardinality(known) \in Nat /\ Cardinality(unknown) \in Nat
  BY <1>10, <1>11, FS_EmptySet, FS_CardinalityType
<1>14. Cardinality(all) = Cardinality(known) + Cardinality(unknown)
  BY <1>10, <1>12, <1>13
<1> QED
  BY <1>4, <1>5, <1>6, <1>8, <1>9, <1>14

LEMMA EveryCallIsShown ==
    ASSUME AttributionInv
    PROVE  Shown([c \in Calls |-> 1]) = Cardinality(Calls)
<1> DEFINE q == [c \in Calls |-> 1]
<1>1. q \in [Calls -> Nat]
  OBVIOUS
<1>2. IsFiniteSet(Calls)
  BY CallNumbers
<1>3. SumFunctionOnSet(q, Calls) = Cardinality(Calls)
  BY <1>2, SumOfOnes
<1> HIDE DEF q
<1>4. Shown(q) = SumFunctionOnSet(q, Calls)
  BY <1>1, ShownIsWhole
<1> QED
  BY <1>3, <1>4 DEF q

\* When stacks are captured, the origins are those of the breakdown.
LEMMA OriginsAgree ==
    ASSUME AttributionInv, capture
    PROVE  \A i \in DOMAIN Origin :
              Origin[i] = [eval |-> EvalOf(i), scope |-> IF i \in InEval THEN 0 ELSE Owners[i]]
<1> DEFINE framed == {w \in EvalWindows : w.framed}
           sampled == {i \in Cbs : recorded[i].ops}
           rest == {i \in sampled : EvalAt(framed, recorded[i].ts) = {}}
           swept == Swept(rest)
<1>1. AttributionTypeOK /\ SessionRises /\ EvalsAreFramed
  BY DEF AttributionInv
<1>2. framed = EvalWindows
  <2>1. \A w \in EvalWindows : w.framed = TRUE
    <3> TAKE w \in EvalWindows
    <3>1. PICK i \in Of("evalIn"), j \in Of("evalOut") : w = EvalWindow(recorded[i], recorded[j])
      BY DEF EvalWindows
    <3>2. w.framed = recorded[i].framed
      BY <3>1 DEF EvalWindow
    <3>3. recorded[i].framed = capture
      BY <1>1 DEF EvalsAreFramed
    <3> QED
      BY <3>2, <3>3
  <2> QED
    BY <2>1
<1>3. Origin = [i \in sampled |->
                  IF i \in DOMAIN swept THEN [eval |-> {}, scope |-> swept[i]]
                  ELSE [eval |-> EvalAt(framed, recorded[i].ts), scope |-> 0]]
  BY Zenon DEF Origin
<1>4. \A i \in Cbs : EvalAt(framed, recorded[i].ts) = EvalOf(i) /\ (i \in InEval <=> EvalOf(i) # {})
  BY <1>2 DEF EvalOf, InEval
<1> HIDE DEF framed
<1>5. \A i : i \in rest <=> i \in sampled /\ i \notin InEval
  BY <1>4
<1>6. sampled \in SUBSET Cbs
  OBVIOUS
<1>7. rest \in SUBSET (DOMAIN recorded)
  BY <1>1, <1>6, CbsAre
<1> HIDE DEF rest, sampled
<1>8. swept = [i \in rest |-> Innermost(recorded[i].ts)]
  BY <1>1, <1>7, SweptIsInnermost
<1>9. \A i \in Cbs : i \notin InEval => Owners[i] = Innermost(recorded[i].ts)
  BY <1>1, OwnersAre
<1> HIDE DEF swept
<1>10. ASSUME NEW i \in sampled
       PROVE  Origin[i] = [eval |-> EvalOf(i), scope |-> IF i \in InEval THEN 0 ELSE Owners[i]]
  <2>1. i \in Cbs
    BY <1>6
  <2>2. CASE i \in InEval
    <3>1. i \notin DOMAIN swept
      BY <1>5, <1>8, <2>2
    <3>2. Origin[i] = [eval |-> EvalAt(framed, recorded[i].ts), scope |-> 0]
      BY <1>3, <3>1
    <3> QED
      BY <1>4, <2>1, <2>2, <3>2
  <2>3. CASE i \notin InEval
    <3>1. i \in rest /\ i \in DOMAIN swept /\ swept[i] = Innermost(recorded[i].ts)
      BY <1>5, <1>8, <2>3
    <3>2. Origin[i] = [eval |-> {}, scope |-> swept[i]]
      BY <1>3, <3>1
    <3>3. EvalOf(i) = {} /\ Owners[i] = swept[i]
      BY <1>4, <1>9, <2>1, <2>3, <3>1
    <3> QED
      BY <2>3, <3>2, <3>3
  <2> QED
    BY <2>2, <2>3
<1>11. DOMAIN Origin = sampled
  BY <1>3
<1> QED
  BY <1>10, <1>11

LEMMA ConservedWhenSound ==
    ASSUME AttributionInv
    PROVE  TimeIsConserved
<1>1. Shown(Self(Owners)) + Unscoped(Owners) = Ns(Cbs)
  BY ShownAddsUp
<1>2. Shown([c \in Calls |-> 1]) = Cardinality(Calls)
  BY EveryCallIsShown
<1>3. \A i \in Cbs \ InEval : Owners[i] = Innermost(recorded[i].ts)
  BY OwnersAre DEF AttributionInv
<1>4. capture => \A i \in DOMAIN Origin :
         Origin[i] = [eval |-> EvalOf(i), scope |-> IF i \in InEval THEN 0 ELSE Owners[i]]
  BY OriginsAgree
<1> QED
  BY <1>1, <1>2, <1>3, <1>4, Zenon DEF TimeIsConserved

-----------------------------------------------------------------------------
(* Attribution: the advice.                                                *)

\* The evals found at a time are one: they have the same stack.
LEMMA EvalIsOne ==
    ASSUME AttributionInv, NEW i \in Cbs
    PROVE  \A v, w \in EvalOf(i) : v.stack = w.stack
<1>1. AttributionTypeOK /\ SessionRises
  BY DEF AttributionInv
<1> TAKE v, w \in EvalOf(i)
<1>2. v \in EvalWindows /\ w \in EvalWindows /\ v.in <= w.in /\ w.in <= v.in
  BY DEF EvalOf, EvalAt
<1>3. PICK a \in Of("evalIn"), b \in Of("evalOut") : v = EvalWindow(recorded[a], recorded[b])
  BY <1>2 DEF EvalWindows
<1>4. PICK c \in Of("evalIn"), d \in Of("evalOut") : w = EvalWindow(recorded[c], recorded[d])
  BY <1>2 DEF EvalWindows
<1>5. /\ v.in = recorded[a].ts /\ v.stack = recorded[a].stack
      /\ w.in = recorded[c].ts /\ w.stack = recorded[c].stack
  BY <1>3, <1>4 DEF EvalWindow
<1>6. /\ a \in DOMAIN recorded /\ c \in DOMAIN recorded /\ a \in Nat /\ c \in Nat
      /\ recorded[a].ts \in Nat /\ recorded[c].ts \in Nat
  BY <1>1, SessionFields DEF Of
<1>7. ~(a < c) /\ ~(c < a)
  BY <1>1, <1>2, <1>5, <1>6 DEF SessionRises
<1>8. a = c
  BY <1>6, <1>7
<1> QED
  BY <1>5, <1>8

LEMMA GapIsUnscoped ==
    ASSUME AttributionInv
    PROVE  LazyGapNs <= Unscoped(Owners)
<1> DEFINE gap == {i \in Cbs : \E w \in EvalAt(EvalWindows, recorded[i].ts) : w.stack = <<>>}
           none == {i \in Cbs : Owners[i] = 0}
<1>1. AttributionTypeOK /\ SessionRises
  BY DEF AttributionInv
<1>2. \A i \in Cbs : Owners[i] = IF i \in InEval THEN LeafOf(CHOOSE w \in EvalOf(i) : TRUE)
                                  ELSE Innermost(recorded[i].ts)
  BY <1>1, OwnersAre
<1>3. ASSUME NEW i \in gap
      PROVE  i \in none
  <2>1. PICK v \in EvalOf(i) : v.stack = <<>>
    BY DEF EvalOf
  <2>2. i \in Cbs /\ i \in InEval
    BY <2>1 DEF InEval
  <2> DEFINE c == CHOOSE w \in EvalOf(i) : TRUE
  <2>3. c \in EvalOf(i)
    BY <2>1
  <2>4. Owners[i] = LeafOf(c)
    BY <1>2, <2>2
  <2> HIDE DEF c
  <2>5. c.stack = <<>>
    BY <2>1, <2>2, <2>3, EvalIsOne
  <2>6. LeafOf(c) = 0
    BY <2>5 DEF LeafOf
  <2> QED
    BY <2>2, <2>4, <2>6
<1>4. gap \in SUBSET none /\ none \in SUBSET Cbs
  BY <1>3
<1>5. LazyGapNs = Ns(gap) /\ Unscoped(Owners) = Ns(none)
  BY DEF LazyGapNs, Unscoped
<1> HIDE DEF gap, none
<1>6. Ns(gap) <= Ns(none)
  BY <1>1, <1>4, NsGrows
<1> QED
  BY <1>5, <1>6

LEMMA NoSidecarNoScope ==
    ASSUME AttributionInv, SidecarAbsent
    PROVE  Unscoped(Owners) = Ns(Cbs) /\ ~LazyGap
<1>1. AttributionTypeOK /\ SessionRises
  BY DEF AttributionInv
<1>2. Of("enter") = {} /\ Of("evalIn") = {}
  BY DEF SidecarAbsent
<1>3. EvalWindows = {} /\ ScopeWindows = {}
  BY <1>2, ScopeWindowsAre DEF EvalWindows
<1>4. \A ts : Innermost(ts) = 0
  BY <1>3 DEF Innermost
<1>5. \A ts : EvalAt(EvalWindows, ts) = {}
  BY <1>3 DEF EvalAt
<1>6. \A i \in Cbs : Owners[i] = 0
  <2>1. \A i : i \notin InEval
    BY <1>5 DEF InEval, EvalOf
  <2> QED
    BY <1>1, <1>4, <2>1, OwnersAre
<1>7. {i \in Cbs : Owners[i] = 0} = Cbs
  BY <1>6
<1>8. Unscoped(Owners) = Ns(Cbs)
  BY <1>7 DEF Unscoped
<1>9. LazyGapNs = 0
  <2>1. {i \in Cbs : \E w \in EvalAt(EvalWindows, recorded[i].ts) : w.stack = <<>>} = {}
    BY <1>5
  <2>2. LazyGapNs = Ns({})
    BY <2>1 DEF LazyGapNs
  <2>3. Ns({}) = Cardinality({i \in {} : i \in Weighed})
    BY <1>1, NsCounts
  <2>4. {i \in {} : i \in Weighed} = {}
    OBVIOUS
  <2> QED
    BY <2>2, <2>3, <2>4, FS_EmptySet, Zenon
<1> QED
  BY <1>8, <1>9 DEF LazyGap

LEMMA SoundWhenInvariant == AttributionInv => AttributionIsSound
BY ConservedWhenSound, GapIsUnscoped, NoSidecarNoScope
   DEF AttributionIsSound, AdviceExplainsUnscoped

-----------------------------------------------------------------------------
(* Attribution: the steps.                                                 *)

\* What an event may be recorded now.
Fits(e) ==
    /\ e \in SessionEvents /\ e.ts = now + 1
    /\ e.kind = "enter" => e.id = ids.call /\ ids'.call = ids.call + 1 /\ e.parent < e.id
    /\ e.kind = "evalIn" => e.framed = capture

LEMMA SessionGrows ==
    ASSUME AttributionInv, NEW e, Fits(e), now' = now + 1, capture' = capture,
           ids'.call \in {ids.call, ids.call + 1},
           recorded' = recorded \/ recorded' = Append(recorded, e)
    PROVE  /\ recorded' \in Seq(SessionEvents) /\ now' \in Nat /\ capture' \in BOOLEAN
           /\ SessionRises' /\ CallsRise' /\ EvalsAreFramed'
<1>1. AttributionTypeOK /\ SessionRises /\ CallsRise /\ EvalsAreFramed
  BY DEF AttributionInv
<1>2. recorded \in Seq(SessionEvents) /\ now \in Nat /\ capture \in BOOLEAN /\ ids.call \in Nat
  BY <1>1 DEF AttributionTypeOK
<1>3. /\ Len(recorded) \in Nat /\ DOMAIN recorded = 1 .. Len(recorded)
      /\ \A i \in DOMAIN recorded : i \in Nat /\ recorded[i].ts \in Nat
      /\ \A i \in Of("enter") : recorded[i].id \in Nat
  BY <1>1, SessionFields
<1>4. ids'.call \in Nat /\ ids.call <= ids'.call
  BY <1>2
<1>5. CASE recorded' = recorded
  <2>1. SessionRises'
    <3>1. \A i \in DOMAIN recorded : recorded[i].ts <= now + 1
      BY <1>1, <1>2, <1>3 DEF SessionRises
    <3> QED
      BY <1>1, <1>5, <3>1 DEF SessionRises
  <2>2. Of("enter")' = Of("enter") /\ Of("evalIn")' = Of("evalIn")
    BY <1>5 DEF Of
  <2>3. CallsRise'
    <3>1. \A i \in Of("enter") : recorded[i].id < ids'.call
      BY <1>1, <1>2, <1>3, <1>4 DEF CallsRise
    <3> QED
      BY <1>1, <1>5, <2>2, <3>1 DEF CallsRise
  <2>4. EvalsAreFramed'
    BY <1>1, <1>5, <2>2 DEF EvalsAreFramed
  <2> QED
    BY <1>2, <1>5, <2>1, <2>3, <2>4
<1>6. CASE recorded' = Append(recorded, e)
  <2> DEFINE l == Len(recorded) + 1
  <2>0. e \in SessionEvents /\ e.ts = now + 1
    BY DEF Fits
  <2>1. /\ recorded' \in Seq(SessionEvents) /\ DOMAIN recorded' = 1 .. l
        /\ recorded'[l] = e /\ \A i \in DOMAIN recorded : recorded'[i] = recorded[i]
    BY <1>2, <1>3, <1>6, <2>0
  <2>2. l \in Nat /\ l \in 1 .. l /\ \A i \in 1 .. l : i = l \/ (i \in DOMAIN recorded /\ i < l)
    BY <1>3
  <2>3. \A i \in DOMAIN recorded : i < l /\ i \in 1 .. l /\ i # l
    BY <1>3
  <2> HIDE DEF l
  <2>4. SessionRises'
    <3>1. \A i \in 1 .. l : recorded'[i].ts <= now + 1
      <4> TAKE i \in 1 .. l
      <4>1. CASE i = l
        BY <1>2, <2>0, <2>1, <4>1
      <4>2. CASE i \in DOMAIN recorded
        BY <1>1, <1>2, <1>3, <2>1, <4>2 DEF SessionRises
      <4> QED
        BY <2>2, <4>1, <4>2
    <3>2. \A i, j \in 1 .. l : i < j => recorded'[i].ts < recorded'[j].ts
      <4> TAKE i, j \in 1 .. l
      <4> HAVE i < j
      <4>1. i \in DOMAIN recorded
        <5>1. i # l
          BY <2>2
        <5> QED
          BY <2>2, <5>1
      <4>2. CASE j = l
        <5>1. recorded[i].ts <= now /\ recorded[i].ts \in Nat
          BY <1>1, <1>3, <4>1 DEF SessionRises
        <5> QED
          BY <1>2, <2>0, <2>1, <4>1, <4>2, <5>1
      <4>3. CASE j \in DOMAIN recorded
        BY <1>1, <2>1, <4>1, <4>3 DEF SessionRises
      <4> QED
        BY <2>2, <4>2, <4>3
    <3> QED
      BY <2>1, <3>1, <3>2 DEF SessionRises
  <2>5. \A k : \A i \in Of(k)' :
           \/ i \in Of(k) /\ recorded'[i] = recorded[i] /\ i \in DOMAIN recorded
           \/ i = l /\ e.kind = k
    <3> TAKE k
    <3> TAKE i \in Of(k)'
    <3>1. i \in 1 .. l /\ recorded'[i].kind = k
      BY <2>1 DEF Of
    <3>2. CASE i = l
      BY <2>1, <3>1, <3>2
    <3>3. CASE i \in DOMAIN recorded
      <4>1. recorded'[i] = recorded[i]
        BY <2>1, <3>3
      <4>2. recorded[i].kind = k
        BY <3>1, <4>1
      <4>3. i \in Of(k)
        BY <3>3, <4>2 DEF Of
      <4> QED
        BY <3>3, <4>1, <4>3
    <3> QED
      BY <2>2, <3>1, <3>2, <3>3
  <2>6. CallsRise'
    <3>1. ASSUME NEW i \in Of("enter")'
          PROVE  recorded'[i].id < ids'.call /\ recorded'[i].parent < recorded'[i].id
      <4>1. CASE i \in Of("enter") /\ recorded'[i] = recorded[i]
        BY <1>1, <1>2, <1>3, <1>4, <4>1 DEF CallsRise
      <4>2. CASE i = l /\ e.kind = "enter"
        BY <1>2, <2>1, <4>2 DEF Fits
      <4> QED
        BY <2>5, <3>1, <4>1, <4>2
    <3>2. ASSUME NEW i \in Of("enter")', NEW j \in Of("enter")', i < j
          PROVE  recorded'[i].id < recorded'[j].id
      <4>1. i \in Of("enter") /\ recorded'[i] = recorded[i]
        <5>1. ~(i = l)
          <6>1. j = l \/ j \in DOMAIN recorded
            BY <2>5
          <6>2. j = l \/ (j < l /\ j \in Nat)
            BY <1>3, <2>3, <6>1
          <6> QED
            BY <2>2, <3>2, <6>2
        <5> QED
          BY <2>5, <5>1
      <4>2. CASE j \in Of("enter") /\ recorded'[j] = recorded[j]
        BY <1>1, <3>2, <4>1, <4>2 DEF CallsRise
      <4>3. CASE j = l /\ e.kind = "enter"
        BY <1>1, <2>1, <4>1, <4>3 DEF CallsRise, Fits
      <4> QED
        BY <2>5, <4>2, <4>3
    <3> QED
      BY <3>1, <3>2 DEF CallsRise
  <2>7. EvalsAreFramed'
    <3>1. ASSUME NEW i \in Of("evalIn")'
          PROVE  recorded'[i].framed = capture'
      <4>1. CASE i \in Of("evalIn") /\ recorded'[i] = recorded[i]
        BY <1>1, <4>1 DEF EvalsAreFramed
      <4>2. CASE i = l /\ e.kind = "evalIn"
        BY <2>1, <4>2 DEF Fits
      <4> QED
        BY <2>5, <4>1, <4>2
    <3> QED
      BY <3>1 DEF EvalsAreFramed
  <2> QED
    BY <1>2, <2>1, <2>4, <2>6, <2>7
<1> QED
  BY <1>5, <1>6

LEMMA EmitFields ==
    ASSUME NEW e, EmitEvent(e)
    PROVE  now' = now + 1 /\ (recorded' = recorded \/ recorded' = Append(recorded, e))
BY DEF EmitEvent

\* The stack of a thread in its parts.
LEMMA StackFields ==
    ASSUME AttributionTypeOK, NEW t \in Threads
    PROVE  /\ ids.call \in Nat /\ ids.call # 0 /\ ids.eval \in Nat /\ now \in Nat /\ capture \in BOOLEAN
           /\ stacks[t] \in Seq(0 .. ids.call - 1) /\ stacks[t] \in Seq(Nat)
           /\ stacks[t] # <<>> => Last(stacks[t]) \in Nat /\ Last(stacks[t]) < ids.call
           /\ evaling[t] \in [id : Nat, since : Nat]
<1>1. /\ ids.call \in Nat /\ ids.call # 0 /\ ids.eval \in Nat /\ now \in Nat /\ capture \in BOOLEAN
      /\ stacks[t] \in Seq(0 .. ids.call - 1) /\ evaling[t] \in [id : Nat, since : Nat]
  BY DEF AttributionTypeOK
<1>2. stacks[t] \in Seq(Nat)
  <2>1. 0 .. ids.call - 1 \subseteq Nat
    BY <1>1
  <2> QED
    BY <1>1, <2>1, SeqMonotonic
<1>3. ASSUME stacks[t] # <<>>
      PROVE  Last(stacks[t]) \in Nat /\ Last(stacks[t]) < ids.call
  <2> DEFINE s == stacks[t]
             l == Len(s)
  <2>1. s \in Seq(0 .. ids.call - 1) /\ l \in 1 .. l
    BY <1>1, <1>3
  <2>2. s[l] \in 0 .. ids.call - 1
    BY <2>1, ElementOfSeq
  <2>3. Last(s) = s[l]
    BY DEF Last
  <2> HIDE DEF s, l
  <2>4. Last(s) \in Nat /\ Last(s) < ids.call
    BY <1>1, <2>2, <2>3
  <2> QED
    BY <2>4 DEF s
<1> QED
  BY <1>1, <1>2, <1>3

LEMMA CallEnters ==
    ASSUME AttributionInv, NEW t \in Threads, EnterCall(t)
    PROVE  AttributionInv'
<1> DEFINE e == [kind |-> "enter", ts |-> now + 1, id |-> ids.call,
                 parent |-> IF stacks[t] = <<>> THEN 0 ELSE Last(stacks[t])]
<1>0. AttributionTypeOK
  BY DEF AttributionInv
<1>1. /\ ids.call \in Nat /\ ids.call # 0 /\ ids.eval \in Nat /\ now \in Nat
      /\ stacks[t] \in Seq(0 .. ids.call - 1)
      /\ stacks[t] # <<>> => Last(stacks[t]) \in Nat /\ Last(stacks[t]) < ids.call
  BY <1>0, StackFields
<1>2. /\ ids \in [call : Nat \ {0}, eval : Nat] /\ stacks \in [Threads -> Seq(0 .. ids.call - 1)]
      /\ evaling \in [Threads -> [id : Nat, since : Nat]]
  BY <1>0 DEF AttributionTypeOK
<1>3. /\ EmitEvent(e) /\ stacks' = [stacks EXCEPT ![t] = Append(@, ids.call)]
      /\ ids' = [ids EXCEPT !.call = @ + 1] /\ evaling' = evaling /\ capture' = capture
  BY DEF EnterCall
<1>4. ids' \in [call : Nat \ {0}, eval : Nat] /\ ids'.call = ids.call + 1
  <2>1. ids' = [call |-> ids.call + 1, eval |-> ids.eval]
    BY <1>2, <1>3
  <2>2. ids.call + 1 \in Nat \ {0}
    BY <1>1
  <2> QED
    BY <1>1, <2>1, <2>2
<1>5. Fits(e)
  BY <1>1, <1>4 DEF Fits, SessionEvents
<1> HIDE DEF e
<1>6. now' = now + 1 /\ (recorded' = recorded \/ recorded' = Append(recorded, e))
  BY <1>3, EmitFields
<1>7. /\ recorded' \in Seq(SessionEvents) /\ now' \in Nat /\ capture' \in BOOLEAN
      /\ SessionRises' /\ CallsRise' /\ EvalsAreFramed'
  BY <1>3, <1>4, <1>5, <1>6, SessionGrows
<1>8. stacks' \in [Threads -> Seq(0 .. ids'.call - 1)]
  <2> DEFINE S == 0 .. ids'.call - 1
  <2>1. 0 .. ids.call - 1 \subseteq S /\ ids.call \in S
    BY <1>1, <1>4
  <2> HIDE DEF S
  <2>2. \A u \in Threads : stacks[u] \in Seq(S)
    <3> TAKE u \in Threads
    <3>1. stacks[u] \in Seq(0 .. ids.call - 1)
      BY <1>2
    <3> QED
      BY <2>1, <3>1, SeqMonotonic
  <2>3. Append(stacks[t], ids.call) \in Seq(S)
    BY <2>1, <2>2
  <2>4. stacks' \in [Threads -> Seq(S)]
    BY <1>2, <1>3, <2>2, <2>3
  <2> QED
    BY <2>4 DEF S
<1> QED
  BY <1>2, <1>3, <1>4, <1>7, <1>8 DEF AttributionInv, AttributionTypeOK

LEMMA CallReturns ==
    ASSUME AttributionInv, NEW t \in Threads, NEW n \in DOMAIN stacks[t], ReturnCall(t, n)
    PROVE  AttributionInv'
<1> DEFINE e == [kind |-> "return", ts |-> now + 1, id |-> stacks[t][n]]
           s == stacks[t]
           S == 0 .. ids.call - 1
<1>0. AttributionTypeOK
  BY DEF AttributionInv
<1>1. /\ ids.call \in Nat /\ now \in Nat /\ s \in Seq(S) /\ s \in Seq(Nat)
  BY <1>0, StackFields
<1>2. /\ ids \in [call : Nat \ {0}, eval : Nat] /\ stacks \in [Threads -> Seq(S)]
      /\ evaling \in [Threads -> [id : Nat, since : Nat]]
  BY <1>0 DEF AttributionTypeOK
<1>3. /\ EmitEvent(e) /\ stacks' = [stacks EXCEPT ![t] = RemoveAt(@, n)]
      /\ ids' = ids /\ evaling' = evaling /\ capture' = capture
  BY DEF ReturnCall
<1>4. n \in 1 .. Len(s) /\ Len(s) \in Nat
  BY <1>1
<1>5. stacks[t][n] \in Nat
  BY <1>1, <1>4
<1>6. Fits(e)
  BY <1>1, <1>5 DEF Fits, SessionEvents
<1> HIDE DEF e
<1>7. now' = now + 1 /\ (recorded' = recorded \/ recorded' = Append(recorded, e))
  BY <1>3, EmitFields
<1>8. /\ recorded' \in Seq(SessionEvents) /\ now' \in Nat /\ capture' \in BOOLEAN
      /\ SessionRises' /\ CallsRise' /\ EvalsAreFramed'
  BY <1>3, <1>6, <1>7, SessionGrows
<1>9. RemoveAt(s, n) \in Seq(S)
  <2> HIDE DEF s, S
  <2>1. \A i \in 1 .. Len(s) : s[i] \in S
    BY <1>1
  <2>2. SubSeq(s, 1, n - 1) \in Seq(S)
    <3>1. \A i \in 1 .. n - 1 : s[i] \in S
      BY <1>4, <2>1
    <3>2. 1 \in Int /\ n - 1 \in Int
      BY <1>4
    <3> QED
      BY <3>1, <3>2, SubSeqProperties
  <2>3. SubSeq(s, n + 1, Len(s)) \in Seq(S)
    <3>1. \A i \in n + 1 .. Len(s) : s[i] \in S
      BY <1>4, <2>1
    <3>2. n + 1 \in Int /\ Len(s) \in Int
      BY <1>4
    <3> QED
      BY <3>1, <3>2, SubSeqProperties
  <2> QED
    BY <2>2, <2>3, ConcatProperties DEF RemoveAt
<1>10. stacks' \in [Threads -> Seq(S)]
  <2> HIDE DEF S
  <2> QED
    BY <1>2, <1>3, <1>9
<1> QED
  BY <1>2, <1>3, <1>8, <1>10 DEF AttributionInv, AttributionTypeOK

LEMMA EvalEnters ==
    ASSUME AttributionInv, NEW t \in Threads, EnterEval(t)
    PROVE  AttributionInv'
<1> DEFINE e == [kind |-> "evalIn", ts |-> now + 1, id |-> ids.eval,
                 stack |-> stacks[t], framed |-> capture]
<1>0. AttributionTypeOK
  BY DEF AttributionInv
<1>1. /\ ids.call \in Nat /\ ids.eval \in Nat /\ now \in Nat /\ stacks[t] \in Seq(Nat)
      /\ capture \in BOOLEAN
  BY <1>0, StackFields
<1>2. /\ ids \in [call : Nat \ {0}, eval : Nat] /\ stacks \in [Threads -> Seq(0 .. ids.call - 1)]
      /\ evaling \in [Threads -> [id : Nat, since : Nat]]
  BY <1>0 DEF AttributionTypeOK
<1>3. /\ EmitEvent(e) /\ evaling' = [evaling EXCEPT ![t] = [id |-> ids.eval, since |-> now + 1]]
      /\ ids' = [ids EXCEPT !.eval = @ + 1] /\ stacks' = stacks /\ capture' = capture
  BY DEF EnterEval
<1>4. ids' \in [call : Nat \ {0}, eval : Nat] /\ ids'.call = ids.call
  <2>1. ids' = [call |-> ids.call, eval |-> ids.eval + 1]
    BY <1>2, <1>3
  <2>2. ids.call \in Nat \ {0} /\ ids.eval + 1 \in Nat
    BY <1>1, <1>2
  <2> QED
    BY <2>1, <2>2
<1>5. Fits(e)
  BY <1>1 DEF Fits, SessionEvents
<1> HIDE DEF e
<1>6. now' = now + 1 /\ (recorded' = recorded \/ recorded' = Append(recorded, e))
  BY <1>3, EmitFields
<1>7. /\ recorded' \in Seq(SessionEvents) /\ now' \in Nat /\ capture' \in BOOLEAN
      /\ SessionRises' /\ CallsRise' /\ EvalsAreFramed'
  BY <1>3, <1>4, <1>5, <1>6, SessionGrows
<1>8. evaling' \in [Threads -> [id : Nat, since : Nat]]
  BY <1>1, <1>2, <1>3
<1> QED
  BY <1>2, <1>3, <1>4, <1>7, <1>8 DEF AttributionInv, AttributionTypeOK

LEMMA EvalReturns ==
    ASSUME AttributionInv, NEW t \in Threads, ReturnEval(t)
    PROVE  AttributionInv'
<1> DEFINE e == [kind |-> "evalOut", ts |-> now + 1, id |-> evaling[t].id,
                 async |-> now + 1 - evaling[t].since < AsyncBelow]
<1>0. AttributionTypeOK
  BY DEF AttributionInv
<1>1. /\ ids.call \in Nat /\ now \in Nat /\ evaling[t] \in [id : Nat, since : Nat]
  BY <1>0, StackFields
<1>2. /\ ids \in [call : Nat \ {0}, eval : Nat] /\ stacks \in [Threads -> Seq(0 .. ids.call - 1)]
      /\ evaling \in [Threads -> [id : Nat, since : Nat]]
  BY <1>0 DEF AttributionTypeOK
<1>3. /\ EmitEvent(e) /\ evaling' = [evaling EXCEPT ![t] = NoEval]
      /\ ids' = ids /\ stacks' = stacks /\ capture' = capture
  BY DEF ReturnEval
<1>4. e.async \in BOOLEAN /\ e.id \in Nat
  BY <1>1
<1>5. Fits(e)
  BY <1>1, <1>4 DEF Fits, SessionEvents
<1> HIDE DEF e
<1>6. now' = now + 1 /\ (recorded' = recorded \/ recorded' = Append(recorded, e))
  BY <1>3, EmitFields
<1>7. /\ recorded' \in Seq(SessionEvents) /\ now' \in Nat /\ capture' \in BOOLEAN
      /\ SessionRises' /\ CallsRise' /\ EvalsAreFramed'
  BY <1>3, <1>5, <1>6, SessionGrows
<1>8. evaling' \in [Threads -> [id : Nat, since : Nat]]
  BY <1>2, <1>3 DEF NoEval
<1> QED
  BY <1>2, <1>3, <1>7, <1>8 DEF AttributionInv, AttributionTypeOK

LEMMA WorkCommits ==
    ASSUME AttributionInv, NEW ops \in BOOLEAN, CommitWork(ops)
    PROVE  AttributionInv'
<1> DEFINE e == [kind |-> "cb", ts |-> now + 1, ops |-> ops]
<1>1. /\ now \in Nat /\ ids \in [call : Nat \ {0}, eval : Nat]
      /\ stacks \in [Threads -> Seq(0 .. ids.call - 1)]
      /\ evaling \in [Threads -> [id : Nat, since : Nat]]
  BY DEF AttributionInv, AttributionTypeOK
<1>2. /\ now' = now + 1 /\ recorded' = Append(recorded, e)
      /\ evaling' = evaling /\ ids' = ids /\ stacks' = stacks /\ capture' = capture
  BY DEF CommitWork
<1>3. Fits(e)
  BY <1>1 DEF Fits, SessionEvents
<1> HIDE DEF e
<1>4. /\ recorded' \in Seq(SessionEvents) /\ now' \in Nat /\ capture' \in BOOLEAN
      /\ SessionRises' /\ CallsRise' /\ EvalsAreFramed'
  BY <1>2, <1>3, SessionGrows
<1> QED
  BY <1>1, <1>2, <1>4 DEF AttributionInv, AttributionTypeOK

LEMMA AttributionStarts == AttributionInit => AttributionInv
<1> SUFFICES ASSUME AttributionInit PROVE AttributionInv
  OBVIOUS
<1> DEFINE hello == [kind |-> "hello", ts |-> 0]
<1>1. hello \in SessionEvents /\ hello.kind = "hello" /\ hello.ts = 0
  BY DEF SessionEvents
<1>2. recorded = <<>> \/ recorded = <<hello>>
  BY DEF AttributionInit
<1>3. ids.call = 1 /\ now = 0
  BY DEF AttributionInit
<1>4. AttributionTypeOK
  <2>1. recorded \in Seq(SessionEvents)
    <3> HIDE DEF hello
    <3>1. hello \in SessionEvents /\ <<>> \in Seq(SessionEvents)
      BY <1>1
    <3>2. <<hello>> \in Seq(SessionEvents)
      BY <3>1
    <3> QED
      BY <1>2, <3>1, <3>2
  <2>2. stacks \in [Threads -> Seq(0 .. ids.call - 1)]
    BY <1>3 DEF AttributionInit
  <2>3. evaling \in [Threads -> [id : Nat, since : Nat]]
    BY DEF AttributionInit, NoEval
  <2> QED
    BY <2>1, <2>2, <2>3 DEF AttributionInit, AttributionTypeOK
<1> HIDE DEF hello
<1>5. \A i \in DOMAIN recorded : i = 1 /\ recorded[i] = hello
  BY <1>2
<1>6. SessionRises
  BY <1>1, <1>3, <1>5 DEF SessionRises
<1>7. Of("enter") = {} /\ Of("evalIn") = {}
  BY <1>1, <1>5 DEF Of
<1> QED
  BY <1>4, <1>6, <1>7 DEF AttributionInv, CallsRise, EvalsAreFramed

LEMMA AttributionStep == AttributionInv /\ [AttributionNext]_attributionVars => AttributionInv'
<1> SUFFICES ASSUME AttributionInv, [AttributionNext]_attributionVars
             PROVE  AttributionInv'
  OBVIOUS
<1>1. CASE AttributionNext
  BY <1>1, CallEnters, CallReturns, EvalEnters, EvalReturns, WorkCommits DEF AttributionNext
<1>2. CASE UNCHANGED attributionVars
  <2>1. Of("enter")' = Of("enter") /\ Of("evalIn")' = Of("evalIn")
    BY <1>2 DEF attributionVars, Of
  <2> QED
    BY <1>2, <2>1 DEF attributionVars, AttributionInv, AttributionTypeOK, SessionRises, CallsRise,
       EvalsAreFramed
<1> QED
  BY <1>1, <1>2

\* Of every session that the sidecar and the driver can leave, whatever was
\* dropped of it: the breakdown shows the time of every completed buffer once,
\* charges what no eval covers to the innermost call, agrees with the origins,
\* and explains by its advice what it leaves unscoped (breakdown.rs, windows.rs,
\* dispatch_origins.rs).
THEOREM AttributionIsSoundAlways == AttributionSpec => []AttributionIsSound
<1>1. AttributionSpec => []AttributionInv
  BY AttributionStarts, AttributionStep, PTL DEF AttributionSpec
<1> QED
  BY <1>1, SoundWhenInvariant, PTL
=============================================================================
