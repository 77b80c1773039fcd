----------------------------- MODULE ReadingProofs -----------------------------
(***************************************************************************)
(* Proofs about the readers of a session.                                  *)
(*                                                                         *)
(* SessionCache: an entry of the cache is no older than its key, and a key *)
(* no older than the call that took it, because the key is read first and  *)
(* the files only grow.                                                    *)
(* CrashVerdict: the end a session is given never passes the death of its  *)
(* run, so that the window an analysis searches holds every report of it;  *)
(* one that was due when a call began stays within its reach until the     *)
(* call reads it, or until it changes.                                     *)
(* Replay: the events passed are those up to the clock, and the screen is  *)
(* folded from those of them that were not cleared away.                   *)
(* SessionDamage: whatever decodes in a damaged file lies where the writer *)
(* laid it, so that a reader gets some of the events that were there, in   *)
(* their order: as many as the metadata counts are all of them, and when   *)
(* no damaged length or offset misleads it, those of every whole unit.     *)
(* CommandBuffers: a pointer belongs to one buffer at a time, so that when *)
(* every frame is heard the pairs, the trace and the panel are those of    *)
(* the buffers themselves; a lost frame is missing from its own buffer,    *)
(* and one lost frame never makes the clamp take the window of another.    *)
(***************************************************************************)
EXTENDS SessionDamage, SessionWriterProofs, SessionCache, CrashVerdict, Replay,
        CommandBuffers, SequenceTheorems, WellFoundedInduction, TLAPS

Versions == [events : Nat, meta : Nat]
Pcs == {"idle", "statEvents", "statMeta", "lookup", "readEvents", "readMeta", "store",
        "returned"}
Calls == [pc : Pcs, dir : Sessions \cup {"none"}, key : Versions, data : Versions,
          stores : BOOLEAN, since : Versions]

CacheTypeOK ==
    /\ version \in [Sessions -> Versions]
    /\ cache \in [dir : Sessions \cup {"none"}, key : Versions, data : Versions]
    /\ tools \in [Tools -> Calls]

\* One version is no newer than another.
UpTo(a, b) == a.events <= b.events /\ a.meta <= b.meta

\* The entry was decoded after its key was read.
EntryIsFresh ==
    cache.dir \in Sessions => UpTo(cache.key, cache.data) /\ UpTo(cache.data, version[cache.dir])

\* What a call has read so far was there when it read it, and nothing it has
\* read is older than what it read before.
CallIsFresh(t) ==
    LET c == tools[t]
        now == version[c.dir]
    IN  c.pc # "idle" =>
          /\ c.dir \in Sessions
          /\ UpTo(c.since, now)
          /\ c.pc \notin {"statEvents", "returned"} =>
                c.since.events <= c.key.events /\ c.key.events <= now.events
          /\ c.pc \in {"lookup", "readEvents", "readMeta", "store"} =>
                c.since.meta <= c.key.meta /\ c.key.meta <= now.meta
          /\ c.pc \in {"readMeta", "store"} =>
                c.key.events <= c.data.events /\ c.data.events <= now.events
          /\ c.pc = "store" => c.key.meta <= c.data.meta /\ c.data.meta <= now.meta
          /\ c.pc = "returned" => UpTo(c.since, c.data) /\ UpTo(c.data, now)

CacheInv ==
    /\ CacheTypeOK
    /\ EntryIsFresh
    /\ \A t \in Tools : CallIsFresh(t)

-----------------------------------------------------------------------------
\* The files of a session only grow, so what was fresh stays so.
LEMMA VersionsGrow ==
  ASSUME CacheInv, NEW d \in Sessions, NEW f \in {"events", "meta"}, ChangeFile(d, f)
  PROVE  CacheInv'
<1> USE DEF CacheInv, CacheTypeOK, Versions
<1>1. version' \in [Sessions -> Versions]
  BY DEF ChangeFile
<1>2. \A s \in Sessions : UpTo(version[s], version'[s])
  BY DEF ChangeFile, UpTo
<1>3. EntryIsFresh'
  BY <1>1, <1>2 DEF EntryIsFresh, UpTo, ChangeFile
<1>4. ASSUME NEW t \in Tools PROVE CallIsFresh(t)'
  <2>1. tools[t] \in Calls /\ CallIsFresh(t) /\ tools'[t] = tools[t]
    BY DEF ChangeFile
  <2> QED
    BY <1>1, <1>2, <2>1 DEF CallIsFresh, UpTo, Calls
<1> QED
  BY <1>1, <1>3, <1>4 DEF ChangeFile

\* A step of one call leaves the others fresh: the files are as they were.
LEMMA OneCall ==
  ASSUME CacheInv, NEW t \in Tools, NEW c \in Calls,
         tools' = [tools EXCEPT ![t] = c], version' = version, CallIsFresh(t)'
  PROVE  tools' \in [Tools -> Calls] /\ \A u \in Tools : CallIsFresh(u)'
<1>1. tools' \in [Tools -> Calls]
  BY DEF CacheInv, CacheTypeOK
<1>2. ASSUME NEW u \in Tools, u # t PROVE CallIsFresh(u)'
  BY <1>2 DEF CacheInv, CacheTypeOK, CallIsFresh
<1> QED
  BY <1>1, <1>2

\* A call of the cache answers for one session; nothing is read yet.
LEMMA CallBegins ==
  ASSUME CacheInv, NEW t \in Tools, NEW d \in Sessions, NEW stores \in BOOLEAN,
         CallTool(t, d, stores)
  PROVE  CacheInv'
<1> USE DEF CacheInv, CacheTypeOK, Versions
<1> DEFINE c == [pc |-> "statEvents", dir |-> d, key |-> Blank, data |-> Blank,
                 stores |-> stores, since |-> version[d]]
<1>1. c \in Calls
  BY DEF Calls, Pcs, Blank
<1>2. tools' = [tools EXCEPT ![t] = c] /\ version' = version /\ cache' = cache
  BY DEF CallTool
<1>3. CallIsFresh(t)'
  BY <1>2 DEF CallIsFresh, UpTo
<1> HIDE DEF c
<1> QED
  BY <1>1, <1>2, <1>3, OneCall DEF EntryIsFresh

\* The first half of the key: no older than the call.
LEMMA StatEventsFresh ==
  ASSUME CacheInv, NEW t \in Tools, StatEvents(t)
  PROVE  CacheInv'
<1> USE DEF CacheInv, CacheTypeOK, Versions
<1> DEFINE c == [pc |-> "statMeta", dir |-> tools[t].dir,
                 key |-> [events |-> version[tools[t].dir].events, meta |-> tools[t].key.meta],
                 data |-> tools[t].data, stores |-> tools[t].stores, since |-> tools[t].since]
<1>0. tools[t] \in Calls /\ CallIsFresh(t)
  OBVIOUS
<1>1. tools[t].dir \in Sessions /\ tools[t].pc = "statEvents"
  BY <1>0 DEF StatEvents, CallIsFresh
<1>2. c \in Calls
  BY <1>0, <1>1 DEF Calls, Pcs
<1>3. tools' = [tools EXCEPT ![t] = c] /\ version' = version /\ cache' = cache
  <2>1. tools'[t] \in Calls
    BY <1>0, <1>1 DEF StatEvents, Calls, Pcs
  <2>2. /\ tools'[t].pc = c.pc /\ tools'[t].dir = c.dir /\ tools'[t].key = c.key
        /\ tools'[t].data = c.data /\ tools'[t].stores = c.stores /\ tools'[t].since = c.since
    BY <1>0 DEF StatEvents, Calls
  <2>3. tools'[t] = c
    BY <1>2, <2>1, <2>2 DEF Calls
  <2>4. tools' = [tools EXCEPT ![t] = tools'[t]]
    BY ZenonT(40) DEF StatEvents
  <2> QED
    BY <2>3, <2>4 DEF StatEvents
<1>4. CallIsFresh(t)'
  BY <1>0, <1>1, <1>3 DEF CallIsFresh, UpTo, Calls
<1> HIDE DEF c
<1> QED
  BY <1>2, <1>3, <1>4, OneCall DEF EntryIsFresh

\* The second half.
LEMMA StatMetaFresh ==
  ASSUME CacheInv, NEW t \in Tools, StatMeta(t)
  PROVE  CacheInv'
<1> USE DEF CacheInv, CacheTypeOK, Versions
<1> DEFINE c == [pc |-> "lookup", dir |-> tools[t].dir,
                 key |-> [meta |-> version[tools[t].dir].meta, events |-> tools[t].key.events],
                 data |-> tools[t].data, stores |-> tools[t].stores, since |-> tools[t].since]
<1>0. tools[t] \in Calls /\ CallIsFresh(t)
  OBVIOUS
<1>1. tools[t].dir \in Sessions /\ tools[t].pc = "statMeta"
  BY <1>0 DEF StatMeta, CallIsFresh
<1>2. c \in Calls
  BY <1>0, <1>1 DEF Calls, Pcs
<1>3. tools' = [tools EXCEPT ![t] = c] /\ version' = version /\ cache' = cache
  <2>1. tools'[t] \in Calls
    BY <1>0, <1>1 DEF StatMeta, Calls, Pcs
  <2>2. /\ tools'[t].pc = c.pc /\ tools'[t].dir = c.dir /\ tools'[t].key = c.key
        /\ tools'[t].data = c.data /\ tools'[t].stores = c.stores /\ tools'[t].since = c.since
    BY <1>0 DEF StatMeta, Calls
  <2>3. tools'[t] = c
    BY <1>2, <2>1, <2>2 DEF Calls
  <2>4. tools' = [tools EXCEPT ![t] = tools'[t]]
    <3>1. tools \in [Tools -> Calls]
      OBVIOUS
    <3> HIDE DEF CacheInv, CacheTypeOK, c
    <3>2. tools' = [u \in Tools |-> tools'[u]]
      BY <3>1 DEF StatMeta
    <3>3. \A u \in Tools : u # t => tools'[u] = tools[u]
      BY <3>1 DEF StatMeta
    <3>4. [tools EXCEPT ![t] = tools'[t]] =
          [u \in Tools |-> IF u = t THEN tools'[t] ELSE tools[u]]
      BY <3>1
    <3> QED
      BY <3>2, <3>3, <3>4
  <2> QED
    BY <2>3, <2>4 DEF StatMeta
<1>4. CallIsFresh(t)'
  BY <1>0, <1>1, <1>3 DEF CallIsFresh, UpTo, Calls
<1> HIDE DEF c
<1> QED
  BY <1>2, <1>3, <1>4, OneCall DEF EntryIsFresh

\* A hit is as new as the key that was found equal.
LEMMA LookUpFresh ==
  ASSUME CacheInv, NEW t \in Tools, LookUp(t)
  PROVE  CacheInv'
<1> USE DEF CacheInv, CacheTypeOK, Versions
<1> DEFINE c == [tools[t] EXCEPT !.pc = IF Cached(t) THEN "returned" ELSE "readEvents",
                                 !.data = IF Cached(t) THEN cache.data ELSE @]
<1>0. tools[t] \in Calls /\ CallIsFresh(t)
  OBVIOUS
<1>1. tools' = [tools EXCEPT ![t] = c] /\ version' = version
  BY DEF LookUp
<1>2. tools[t].dir \in Sessions /\ tools[t].pc = "lookup"
  BY <1>0 DEF LookUp, CallIsFresh
<1>3. c \in Calls
  BY <1>0, <1>2 DEF Calls, Pcs
<1>4. Cached(t) => UpTo(tools[t].key, cache.data) /\ UpTo(cache.data, version[tools[t].dir])
  BY <1>2 DEF Cached, EntryIsFresh
<1>5. CallIsFresh(t)'
  <2>1. CASE Cached(t)
    BY <1>0, <1>1, <1>2, <1>4, <2>1 DEF CallIsFresh, UpTo, Calls
  <2>2. CASE ~Cached(t)
    BY <1>0, <1>1, <1>2, <2>2 DEF CallIsFresh, UpTo, Calls
  <2> QED
    BY <2>1, <2>2
<1>6. cache' = cache \/ cache' = Empty
  BY DEF LookUp
<1>7. cache' \in [dir : Sessions \cup {"none"}, key : Versions, data : Versions]
  BY <1>6 DEF Empty, Blank
<1>8. EntryIsFresh'
  BY <1>0, <1>1, <1>6 DEF EntryIsFresh, Empty, Blank, UpTo
<1> HIDE DEF c
<1> QED
  BY <1>1, <1>3, <1>5, <1>7, <1>8, OneCall

\* The events are decoded after the key was read.
LEMMA ReadEventsFresh ==
  ASSUME CacheInv, NEW t \in Tools, ReadEvents(t)
  PROVE  CacheInv'
<1> USE DEF CacheInv, CacheTypeOK, Versions
<1> DEFINE c == [pc |-> "readMeta", dir |-> tools[t].dir,
                 data |-> [events |-> version[tools[t].dir].events, meta |-> tools[t].data.meta],
                 key |-> tools[t].key, stores |-> tools[t].stores, since |-> tools[t].since]
<1>0. tools[t] \in Calls /\ CallIsFresh(t)
  OBVIOUS
<1>1. tools[t].dir \in Sessions /\ tools[t].pc = "readEvents"
  BY <1>0 DEF ReadEvents, CallIsFresh
<1>2. c \in Calls
  BY <1>0, <1>1 DEF Calls, Pcs
<1>3. tools' = [tools EXCEPT ![t] = c] /\ version' = version /\ cache' = cache
  <2>1. tools'[t] \in Calls
    BY <1>0, <1>1 DEF ReadEvents, Calls, Pcs
  <2>2. /\ tools'[t].pc = c.pc /\ tools'[t].dir = c.dir /\ tools'[t].key = c.key
        /\ tools'[t].data = c.data /\ tools'[t].stores = c.stores /\ tools'[t].since = c.since
    BY <1>0 DEF ReadEvents, Calls
  <2>3. tools'[t] = c
    BY <1>2, <2>1, <2>2 DEF Calls
  <2>4. tools' = [tools EXCEPT ![t] = tools'[t]]
    BY ZenonT(40) DEF ReadEvents
  <2> QED
    BY <2>3, <2>4 DEF ReadEvents
<1>4. CallIsFresh(t)'
  BY <1>0, <1>1, <1>3 DEF CallIsFresh, UpTo, Calls
<1> HIDE DEF c
<1> QED
  BY <1>2, <1>3, <1>4, OneCall DEF EntryIsFresh

\* And the metadata after them.
LEMMA ReadMetaFresh ==
  ASSUME CacheInv, NEW t \in Tools, ReadMeta(t)
  PROVE  CacheInv'
<1> USE DEF CacheInv, CacheTypeOK, Versions
<1> DEFINE c == [pc |-> IF tools[t].stores THEN "store" ELSE "returned", dir |-> tools[t].dir,
                 data |-> [meta |-> version[tools[t].dir].meta, events |-> tools[t].data.events],
                 key |-> tools[t].key, stores |-> tools[t].stores, since |-> tools[t].since]
<1>0. tools[t] \in Calls /\ CallIsFresh(t)
  OBVIOUS
<1>1. tools[t].dir \in Sessions /\ tools[t].pc = "readMeta"
  BY <1>0 DEF ReadMeta, CallIsFresh
<1>2. c \in Calls
  BY <1>0, <1>1 DEF Calls, Pcs
<1>3. tools' = [tools EXCEPT ![t] = c] /\ version' = version /\ cache' = cache
  <2>1. tools'[t] \in Calls
    BY <1>0, <1>1 DEF ReadMeta, Calls, Pcs
  <2>2. /\ tools'[t].pc = c.pc /\ tools'[t].dir = c.dir /\ tools'[t].key = c.key
        /\ tools'[t].data = c.data /\ tools'[t].stores = c.stores /\ tools'[t].since = c.since
    BY <1>0 DEF ReadMeta, Calls
  <2>3. tools'[t] = c
    BY <1>2, <2>1, <2>2 DEF Calls
  <2>4. tools' = [tools EXCEPT ![t] = tools'[t]]
    <3>1. PICK p : tools' = [tools EXCEPT ![t].pc = p,
                                          ![t].data.meta = version[tools[t].dir].meta]
      BY DEF ReadMeta
    <3> QED
      BY <3>1, ZenonT(40)
  <2> QED
    BY <2>3, <2>4 DEF ReadMeta
<1>4. CallIsFresh(t)'
  BY <1>0, <1>1, <1>3 DEF CallIsFresh, UpTo, Calls
<1> HIDE DEF c
<1> QED
  BY <1>2, <1>3, <1>4, OneCall DEF EntryIsFresh

\* What is stored is no older than the key it is stored under.
LEMMA StoreFresh ==
  ASSUME CacheInv, NEW t \in Tools, Store(t)
  PROVE  CacheInv'
<1> USE DEF CacheInv, CacheTypeOK, Versions
<1> DEFINE c == [tools[t] EXCEPT !.pc = "returned"]
    e == [dir |-> tools[t].dir, key |-> tools[t].key, data |-> tools[t].data]
<1>0. tools[t] \in Calls /\ CallIsFresh(t)
  OBVIOUS
<1>1. tools' = [tools EXCEPT ![t] = c] /\ version' = version /\ cache' = e
  BY DEF Store
<1>2. tools[t].dir \in Sessions /\ tools[t].pc = "store"
  BY <1>0 DEF Store, CallIsFresh
<1>3. c \in Calls
  BY <1>0, <1>2 DEF Calls, Pcs
<1>4. CallIsFresh(t)'
  BY <1>0, <1>1, <1>2 DEF CallIsFresh, UpTo, Calls
<1>5. cache' \in [dir : Sessions \cup {"none"}, key : Versions, data : Versions]
  BY <1>0, <1>1 DEF Calls
<1>6. EntryIsFresh'
  BY <1>0, <1>1, <1>2 DEF EntryIsFresh, CallIsFresh, UpTo, Calls
<1> HIDE DEF c, e
<1> QED
  BY <1>1, <1>3, <1>4, <1>5, <1>6, OneCall

\* The cache may be emptied at any time.
LEMMA EvictionIsHarmless ==
  ASSUME CacheInv, EvictIdle
  PROVE  CacheInv'
<1>1. cache' = Empty /\ version' = version /\ tools' = tools
  BY DEF EvictIdle
<1>2. EntryIsFresh'
  BY <1>1 DEF CacheInv, CacheTypeOK, EntryIsFresh, Empty, Blank, UpTo, Versions
<1> QED
  BY <1>1, <1>2 DEF CacheInv, CacheTypeOK, CallIsFresh, Empty, Blank, Versions

\* However many tools share the cache, and however they interleave with each
\* other, the eviction and the daemon, none answers with what is older than
\* its call (session_cache.rs: the key is taken before the files are read).
THEOREM CacheIsFreshAlways == CacheSpec => []CacheIsFresh
<1>1. CacheInit => CacheInv
  BY DEF CacheInit, CacheInv, CacheTypeOK, EntryIsFresh, CallIsFresh, Empty, Blank, Calls,
         Pcs, Versions, UpTo
<1>2. CacheInv /\ [CacheNext]_cacheVars => CacheInv'
  <2> SUFFICES ASSUME CacheInv, [CacheNext]_cacheVars PROVE CacheInv'
    OBVIOUS
  <2>1. CASE UNCHANGED cacheVars
    BY <2>1 DEF cacheVars, CacheInv, CacheTypeOK, EntryIsFresh, CallIsFresh
  <2> QED
    BY <2>1, VersionsGrow, CallBegins, StatEventsFresh, StatMetaFresh, LookUpFresh, ReadEventsFresh,
       ReadMetaFresh, StoreFresh, EvictionIsHarmless DEF CacheNext, ToolStep
<1>3. CacheInv => CacheIsFresh
  BY DEF CacheInv, CacheIsFresh, CallIsFresh, UpTo
<1> QED
  BY <1>1, <1>2, <1>3, PTL DEF CacheSpec

-----------------------------------------------------------------------------
(* How a death is explained (CrashVerdict): times of the session do not    *)
(* pass the run's death, so a report about another process that got the    *)
(* pid comes too late to be taken for it; a report that an analysis was    *)
(* due to find stays in reach until it is read, or changes.                *)

Hows == DOMAIN Signals \cup {"clean", "failed", "alive"}
Kinds == {"none", "crash", "jetsam"}
States == {"absent", "partial", "whole"}
Dues == [crash : BOOLEAN, jetsam : BOOLEAN, kept : BOOLEAN, passes : Nat]
Places == {"idle", "kept", "scan", "copy", "write", "again", "returned"}
Analyses == [at : Places, ended : Int, end : Int, crash : BOOLEAN, jetsam : BOOLEAN,
             presumed : BOOLEAN, due : Dues]

Runs == [how : Hows, died : Nat, victim : {"child", "grandchild"}, sampled : BOOLEAN]
Endings == [ended : Int, code : {"none", "0", "1", "-1"},
            signal : {"none", "INT", "HUP", "SEGV", "KILL"},
            by : {"nobody", "record", "daemon", "recovery"}]
Files == [state : States, kind : Kinds, at : Nat, passes : Nat]
Probes == [up : BOOLEAN, watches : BOOLEAN, queue : Seq(Incidents), seen : Seq(Incidents),
           notified : SUBSET Incidents]

VerdictTypeOK ==
    /\ today \in Nat /\ run \in Runs /\ metadata \in Endings
    /\ lastWrite \in [at : Nat, stamp : Nat]
    /\ reports \in [Incidents -> Files] /\ kept \in {"absent", "torn", "whole"}
    /\ probe \in Probes /\ emitted \in Seq([of : Incidents, read : States])
    /\ analysis \in [Analysts -> Analyses]

\* A time the session was written or closed at is not after the run's death.
BeforeDeath(time) == IF Over THEN time <= run.died ELSE time <= today
ClockInv ==
    /\ run.died <= today
    /\ Over /\ Open /\ probe.up => today = run.died
    /\ lastWrite.stamp <= lastWrite.at
    /\ BeforeDeath(lastWrite.at) /\ BeforeDeath(metadata.ended)
    /\ ~Open => lastWrite.at <= metadata.ended
    /\ \A t \in Analysts : BeforeDeath(analysis[t].ended) /\ BeforeDeath(analysis[t].end)

\* Only record knows how its child ended.
MetadataInv ==
    /\ metadata.by = "nobody" <=> Open
    /\ metadata.by = "record" <=> metadata.code # "none"
    /\ metadata.by = "record" => Over
    /\ metadata.code = "0" => ~(run.how \in DOMAIN Signals /\ run.victim = "child")
    /\ metadata.code = "-1" => run.how \in DOMAIN Signals /\ metadata.signal = Signals[run.how]

Crashed == run.how = "faulted" /\ run.victim = "child"
ReportsInv ==
    /\ reports["ours"].kind = "crash" => run.how = "faulted"
    /\ reports["ours"].kind = "jetsam" => run.how = "killed"
    /\ reports["stranger"].kind = "crash" =>
          Over /\ reports["stranger"].at > run.died + ReportGrace
    /\ reports["ours"].passes <= MaxPasses["ours"]
    /\ kept # "absent" => Crashed

\* The report an analysis was due to find is still as it was.
There(t) ==
    /\ reports["ours"].state = "whole"
    /\ reports["ours"].passes = analysis[t].due.passes
CallInv(t) ==
    LET own == analysis[t]
    IN  /\ own.crash => Crashed
        /\ own.at \in {"copy", "write"} => own.crash
        /\ own.jetsam => run.how = "killed"
        /\ own.presumed => own.at = "returned"
        /\ PresumptionIsFair(t)
        /\ own.due.passes <= reports["ours"].passes
        /\ own.due.crash /\ There(t) =>
              /\ own.at = "kept" => Found("ours", "crash", WindowEnd(own.ended))
              /\ own.at = "scan" => Found("ours", "crash", own.end)
              /\ own.at \notin {"kept", "scan"} => own.crash
        /\ own.due.jetsam /\ There(t) =>
              IF own.at = "returned" THEN own.jetsam ELSE Found("ours", "jetsam", LastSign)
        /\ own.due.kept =>
              /\ own.at = "kept" => kept = "whole" /\ \A u \in Analysts : ~Keeping(u)
              /\ own.at # "kept" => own.at # "scan" /\ own.crash

\* What was emitted is what is remembered, and what the probe was told of a
\* whole report it has emitted, or will.
ProbeInv ==
    /\ Len(probe.seen) = Len(emitted)
    /\ \A n \in 1 .. Len(emitted) : probe.seen[n] = emitted[n].of /\ emitted[n].read = "whole"
    /\ \A m, n \in 1 .. Len(probe.seen) : probe.seen[m] = probe.seen[n] => m = n
    /\ \A i \in probe.notified : reports[i].state = "whole" =>
          \/ \E n \in 1 .. Len(probe.queue) : probe.queue[n] = i
          \/ Seen(i)

VerdictInv ==
    /\ VerdictTypeOK /\ ClockInv /\ MetadataInv /\ ReportsInv /\ ProbeInv
    /\ \A t \in Analysts : CallInv(t)

LEMMA VerdictStarts == VerdictInit => VerdictInv
<1> SUFFICES ASSUME VerdictInit PROVE VerdictInv
  OBVIOUS
<1>1. VerdictTypeOK
  <2>1. analysis \in [Analysts -> Analyses]
    BY DEF VerdictInit, NoCall, NotYet, Analyses, Dues, Places
  <2>2. \A S : <<>> \in Seq(S)
    OBVIOUS
  <2>3. probe \in Probes
    BY <2>2 DEF VerdictInit, Probes
  <2>4. reports \in [Incidents -> Files]
    BY DEF VerdictInit, Files, States, Kinds
  <2>5. run \in Runs
    BY DEF VerdictInit, Runs, Hows
  <2>6. metadata \in Endings
    BY DEF VerdictInit, Unread, NotYet, Endings
  <2> QED
    BY <2>1, <2>2, <2>3, <2>4, <2>5, <2>6 DEF VerdictInit, VerdictTypeOK
<1>2. ClockInv
  BY DEF VerdictInit, ClockInv, BeforeDeath, Over, Open, Unread, NoCall, NotYet
<1>3. MetadataInv
  BY DEF VerdictInit, MetadataInv, Open, Unread
<1>4. ReportsInv
  BY VerdictAssumption DEF VerdictInit, ReportsInv, Incidents
<1>5. ProbeInv
  BY DEF VerdictInit, ProbeInv
<1>6. \A t \in Analysts : CallInv(t)
  BY DEF VerdictInit, CallInv, PresumptionIsFair, NoCall, Incidents
<1> QED
  BY <1>1, <1>2, <1>3, <1>4, <1>5, <1>6 DEF VerdictInv

LEMMA CallFields ==
    ASSUME NEW c \in Analyses
    PROVE  /\ \A x \in Places : [c EXCEPT !.at = x] \in Analyses
           /\ \A x \in Int : [c EXCEPT !.ended = x] \in Analyses /\ [c EXCEPT !.end = x] \in Analyses
           /\ \A x \in BOOLEAN : [c EXCEPT !.crash = x] \in Analyses
           /\ \A x \in BOOLEAN : [c EXCEPT !.jetsam = x] \in Analyses
           /\ \A x \in BOOLEAN : [c EXCEPT !.presumed = x] \in Analyses
           /\ \A x \in Dues : [c EXCEPT !.due = x] \in Analyses
<1>1. \A x \in Places : [c EXCEPT !.at = x] \in Analyses
  BY DEF Analyses
<1>2. \A x \in Int : [c EXCEPT !.ended = x] \in Analyses /\ [c EXCEPT !.end = x] \in Analyses
  BY DEF Analyses
<1>3. \A x \in BOOLEAN : [c EXCEPT !.crash = x] \in Analyses
  BY DEF Analyses
<1>4. \A x \in BOOLEAN : [c EXCEPT !.jetsam = x] \in Analyses
  BY DEF Analyses
<1>5. \A x \in BOOLEAN : [c EXCEPT !.presumed = x] \in Analyses
  BY DEF Analyses
<1>6. \A x \in Dues : [c EXCEPT !.due = x] \in Analyses
  BY DEF Analyses
<1> QED
  BY <1>1, <1>2, <1>3, <1>4, <1>5, <1>6

\* What each step of an analysis makes of its call.
LEMMA CallMoves ==
    ASSUME VerdictTypeOK, NEW t \in Analysts, AnalysisStep(t)
    PROVE  /\ analysis' \in [Analysts -> Analyses]
           /\ \A u \in Analysts : u # t => analysis'[u] = analysis[u]
           /\ UNCHANGED <<today, run, metadata, lastWrite, reports, probe, emitted>>
<1>1. analysis[t] \in Analyses /\ metadata.ended \in Int
  BY DEF VerdictTypeOK, Endings
<1>2. PICK own : Go(t, own)
  BY DEF AnalysisStep, Analyze, LookKept, ScanReports, CopyReport, WriteJoin, Conclude
<1>3. /\ \A u \in Analysts : u # t => analysis'[u] = analysis[u]
      /\ analysis'[t] = own
  BY <1>2 DEF Go, VerdictTypeOK
<1>4. \A i, kind, end : Found(i, kind, end) \in BOOLEAN
  BY DEF Found
<1>5. \A ended \in Int : WindowEnd(ended) \in Int
  BY DEF WindowEnd, VerdictTypeOK
<1>6. analysis'[t] \in Analyses
  <2>1. CASE Analyze(t)
    <3> DEFINE crash == metadata.code # "0" /\ Found("ours", "crash", LastSign)
               jetsam == Found("ours", "jetsam", LastSign)
               whole == kept = "whole" /\ \A u \in Analysts : ~Keeping(u)
               due == [crash |-> crash, jetsam |-> jetsam, kept |-> whole,
                       passes |-> reports["ours"].passes]
    <3>1. /\ analysis'[t] = [NoCall EXCEPT
                !.at = IF metadata.code = "0" THEN "again" ELSE "kept",
                !.ended = metadata.ended, !.due = due]
          /\ crash \in BOOLEAN /\ jetsam \in BOOLEAN /\ whole \in BOOLEAN
      <4>1. Go(t, [NoCall EXCEPT
                !.at = IF metadata.code = "0" THEN "again" ELSE "kept",
                !.ended = metadata.ended, !.due = due])
        BY <2>1, Zenon DEF Analyze
      <4>2. analysis'[t] = [NoCall EXCEPT
                !.at = IF metadata.code = "0" THEN "again" ELSE "kept",
                !.ended = metadata.ended, !.due = due]
        BY <4>1, Zenon DEF Go, VerdictTypeOK
      <4>3. crash \in BOOLEAN /\ jetsam \in BOOLEAN /\ whole \in BOOLEAN
        BY <1>4
      <4> QED
        BY <4>2, <4>3
    <3> HIDE DEF crash, jetsam, whole
    <3>2. due \in Dues
      BY <3>1 DEF Dues, VerdictTypeOK, Incidents, Files
    <3> HIDE DEF due
    <3> DEFINE c == NoCall
               place == IF metadata.code = "0" THEN "again" ELSE "kept"
               c1 == [c EXCEPT !.at = place]
               c2 == [c1 EXCEPT !.ended = metadata.ended]
    <3>3. c \in Analyses
      BY DEF NoCall, NotYet, Analyses, Dues, Places
    <3>4. place \in Places /\ analysis'[t] = [c2 EXCEPT !.due = due]
      BY <3>1 DEF Places
    <3> HIDE DEF c, place
    <3>5. c1 \in Analyses
      BY <3>3, <3>4, CallFields
    <3> HIDE DEF c1
    <3>6. c2 \in Analyses
      BY <1>1, <3>5, CallFields
    <3> HIDE DEF c2
    <3> QED
      BY <3>2, <3>4, <3>6, CallFields
  <2>2. CASE LookKept(t)
    BY <1>1, <1>5, <2>2 DEF LookKept, Go, Analyses, Places, VerdictTypeOK
  <2>3. CASE ScanReports(t)
    <3> DEFINE crash == \E i \in Incidents : Found(i, "crash", analysis[t].end)
    <3>1. /\ analysis'[t] = [analysis[t] EXCEPT !.at = IF crash THEN "copy" ELSE "again",
                                                !.crash = crash]
          /\ crash \in BOOLEAN
      BY <2>3, Zenon DEF ScanReports, Go, VerdictTypeOK
    <3> HIDE DEF crash
    <3> QED
      BY <1>1, <3>1 DEF Analyses, Places
  <2>4. CASE CopyReport(t)
    <3>1. analysis'[t] \in {[analysis[t] EXCEPT !.at = "again"], [analysis[t] EXCEPT !.at = "write"]}
      BY <2>4, Zenon DEF CopyReport, Go, VerdictTypeOK
    <3> QED
      BY <1>1, <3>1 DEF Analyses, Places
  <2>5. CASE WriteJoin(t)
    <3>1. analysis'[t] = [analysis[t] EXCEPT !.at = "again"]
      BY <2>5, Zenon DEF WriteJoin, Go, VerdictTypeOK
    <3> QED
      BY <1>1, <3>1 DEF Analyses, Places
  <2>6. CASE Conclude(t)
    <3> DEFINE jetsam == \E i \in Incidents : Found(i, "jetsam", WindowEnd(metadata.ended))
               presumed == ~jetsam /\ ~analysis[t].crash /\ Presumes
    <3>1. /\ analysis'[t] = [analysis[t] EXCEPT !.at = "returned", !.jetsam = jetsam,
                                !.ended = NotYet, !.end = 0, !.presumed = presumed]
          /\ jetsam \in BOOLEAN /\ presumed \in BOOLEAN
      BY <2>6, Zenon DEF Conclude, Go, VerdictTypeOK
    <3> HIDE DEF jetsam, presumed
    <3> DEFINE c1 == [analysis[t] EXCEPT !.at = "returned"]
               c2 == [c1 EXCEPT !.jetsam = jetsam]
               c3 == [c2 EXCEPT !.ended = NotYet]
               c4 == [c3 EXCEPT !.end = 0]
    <3>2. "returned" \in Places /\ NotYet \in Int /\ 0 \in Int
      BY DEF Places, NotYet
    <3>3. analysis'[t] = [c4 EXCEPT !.presumed = presumed]
      BY <3>1
    <3>4. c1 \in Analyses
      BY <1>1, <3>2, CallFields
    <3> HIDE DEF c1
    <3>5. c2 \in Analyses
      BY <3>1, <3>4, CallFields
    <3> HIDE DEF c2
    <3>6. c3 \in Analyses
      BY <3>2, <3>5, CallFields
    <3> HIDE DEF c3
    <3>7. c4 \in Analyses
      BY <3>2, <3>6, CallFields
    <3> HIDE DEF c4
    <3> QED
      BY <3>1, <3>3, <3>7, CallFields
  <2> QED
    BY <2>1, <2>2, <2>3, <2>4, <2>5, <2>6 DEF AnalysisStep
<1>7. analysis' \in [Analysts -> Analyses]
  BY <1>2, <1>3, <1>6 DEF Go, VerdictTypeOK
<1>8. UNCHANGED <<today, run, metadata, lastWrite, reports, probe, emitted>>
  BY DEF AnalysisStep, Analyze, LookKept, ScanReports, CopyReport, WriteJoin, Conclude, ReadOnly
<1> QED
  BY <1>3, <1>7, <1>8

\* The fields of a call that looks in the system's reports.
LEMMA ScanMoves ==
    ASSUME VerdictTypeOK, NEW t \in Analysts, ScanReports(t)
    PROVE  /\ analysis[t].at = "scan" /\ kept' = kept
           /\ analysis'[t].crash <=> \E i \in Incidents : Found(i, "crash", analysis[t].end)
           /\ analysis'[t].at = IF analysis'[t].crash THEN "copy" ELSE "again"
           /\ analysis'[t].ended = analysis[t].ended /\ analysis'[t].end = analysis[t].end
           /\ analysis'[t].jetsam = analysis[t].jetsam
           /\ analysis'[t].presumed = analysis[t].presumed /\ analysis'[t].due = analysis[t].due
<1> DEFINE crash == \E i \in Incidents : Found(i, "crash", analysis[t].end)
<1>1. /\ analysis'[t] = [analysis[t] EXCEPT !.at = IF crash THEN "copy" ELSE "again",
                                            !.crash = crash]
      /\ crash \in BOOLEAN /\ analysis[t] \in Analyses
  BY Zenon DEF ScanReports, Go, VerdictTypeOK
<1> HIDE DEF crash
<1>2. /\ analysis'[t].crash = crash
      /\ analysis'[t].at = IF crash THEN "copy" ELSE "again"
      /\ analysis'[t].ended = analysis[t].ended /\ analysis'[t].end = analysis[t].end
      /\ analysis'[t].jetsam = analysis[t].jetsam
      /\ analysis'[t].presumed = analysis[t].presumed /\ analysis'[t].due = analysis[t].due
  BY <1>1 DEF Analyses
<1>3. analysis[t].at = "scan" /\ kept' = kept
  BY DEF ScanReports, At, ReadOnly
<1> QED
  BY <1>2, <1>3, Zenon DEF crash

\* Of one that copies what it found.
LEMMA KeepMoves ==
    ASSUME VerdictTypeOK, NEW t \in Analysts, CopyReport(t) \/ WriteJoin(t)
    PROVE  /\ analysis[t].at \in {"copy", "write"} /\ analysis'[t].at \in {"again", "write"}
           /\ analysis'[t].ended = analysis[t].ended /\ analysis'[t].end = analysis[t].end
           /\ analysis'[t].crash = analysis[t].crash /\ analysis'[t].jetsam = analysis[t].jetsam
           /\ analysis'[t].presumed = analysis[t].presumed /\ analysis'[t].due = analysis[t].due
<1>1. /\ \/ analysis'[t] = [analysis[t] EXCEPT !.at = "again"]
         \/ analysis'[t] = [analysis[t] EXCEPT !.at = "write"]
      /\ analysis[t].at \in {"copy", "write"} /\ analysis[t] \in Analyses
  BY Zenon DEF CopyReport, WriteJoin, Go, VerdictTypeOK, At
<1> QED
  BY <1>1 DEF Analyses

\* Of one that concludes.
LEMMA ConclusionMoves ==
    ASSUME VerdictTypeOK, NEW t \in Analysts, Conclude(t)
    PROVE  /\ analysis[t].at = "again" /\ analysis'[t].at = "returned" /\ kept' = kept
           /\ analysis'[t].jetsam <=>
                 \E i \in Incidents : Found(i, "jetsam", WindowEnd(metadata.ended))
           /\ analysis'[t].presumed => ~analysis'[t].jetsam /\ ~analysis[t].crash /\ Presumes
           /\ analysis'[t].ended = NotYet /\ analysis'[t].end = 0
           /\ analysis'[t].crash = analysis[t].crash /\ analysis'[t].due = analysis[t].due
<1> DEFINE jetsam == \E i \in Incidents : Found(i, "jetsam", WindowEnd(metadata.ended))
           presumed == ~jetsam /\ ~analysis[t].crash /\ Presumes
<1>1. /\ analysis'[t] = [analysis[t] EXCEPT !.at = "returned", !.jetsam = jetsam,
                            !.ended = NotYet, !.end = 0, !.presumed = presumed]
      /\ jetsam \in BOOLEAN /\ presumed \in BOOLEAN /\ analysis[t] \in Analyses
  BY Zenon DEF Conclude, Go, VerdictTypeOK
<1>2. presumed => ~jetsam /\ ~analysis[t].crash /\ Presumes
  OBVIOUS
<1> HIDE DEF jetsam, presumed
<1>3. /\ analysis'[t].at = "returned"
      /\ analysis'[t].jetsam = jetsam /\ analysis'[t].presumed = presumed
      /\ analysis'[t].ended = NotYet /\ analysis'[t].end = 0
      /\ analysis'[t].crash = analysis[t].crash /\ analysis'[t].due = analysis[t].due
  BY <1>1 DEF Analyses
<1>4. analysis[t].at = "again" /\ kept' = kept
  BY DEF Conclude, At, ReadOnly
<1> QED
  BY <1>2, <1>3, <1>4, Zenon DEF jetsam

LEMMA VerdictTyped ==
    ASSUME VerdictTypeOK, [VerdictNext]_verdictVars
    PROVE  VerdictTypeOK'
<1>1. CASE PassTime
  <2>1. lastWrite' \in [at : Nat, stamp : Nat]
    BY <1>1 DEF PassTime, VerdictTypeOK
  <2> QED
    BY <1>1, <2>1 DEF PassTime, VerdictTypeOK
<1>2. ASSUME NEW how \in DOMAIN Signals \cup {"clean", "failed"},
             NEW victim \in {"child", "grandchild"}, NEW sampled \in BOOLEAN,
             RunEnds(how, victim, sampled)
      PROVE  VerdictTypeOK'
  <2>1. run' \in Runs
    BY <1>2 DEF RunEnds, VerdictTypeOK, Runs, Hows
  <2> QED
    BY <1>2, <2>1 DEF RunEnds, VerdictTypeOK
<1>3. CASE Detached \/ ClosedByDaemon \/ DaemonKilled \/ Recover
  <2>1. metadata' \in Endings
    <3>1. \A status \in Statuses \cup {NoStatus} :
             /\ status.code \in {"none", "0", "1", "-1"}
             /\ status.signal \in {"none", "INT", "HUP", "SEGV", "KILL"}
      BY DEF Statuses, NoStatus, Signals
    <3>2. \A status \in Statuses \cup {NoStatus}, by \in {"record", "daemon", "recovery"},
             end \in Nat : Close(status, by, end) => metadata' \in Endings
      BY <3>1 DEF Close, Endings
    <3>3. today \in Nat /\ lastWrite.at \in Nat /\ metadata \in Endings
      BY DEF VerdictTypeOK
    <3> QED
      BY <1>3, <3>2, <3>3 DEF Detached, ClosedByDaemon, DaemonKilled, Recover
  <2>2. probe' \in Probes /\ emitted' \in Seq([of : Incidents, read : States])
    <3>1. \A S : <<>> \in Seq(S)
      OBVIOUS
    <3>2. probe \in Probes /\ emitted \in Seq([of : Incidents, read : States])
      BY DEF VerdictTypeOK
    <3>3. CASE Detached \/ ClosedByDaemon
      BY <3>2, <3>3 DEF Detached, ClosedByDaemon
    <3>4. CASE DaemonKilled
      BY <3>1, <3>2, <3>4 DEF DaemonKilled, Probes
    <3>5. CASE Recover
      BY <3>1, <3>2, <3>5 DEF Recover, Probes
    <3> QED
      BY <1>3, <3>3, <3>4, <3>5
  <2> QED
    BY <1>3, <2>1, <2>2 DEF Detached, ClosedByDaemon, DaemonKilled, Recover, VerdictTypeOK
<1>4. ASSUME NEW i \in Incidents, NEW kind \in {"crash", "jetsam"},
             NEW state \in {"partial", "whole"}, WritePass(i, kind, state)
      PROVE  VerdictTypeOK'
  <2>1. reports' \in [Incidents -> Files]
    BY <1>4 DEF WritePass, VerdictTypeOK, Files, States, Kinds
  <2>2. probe' \in Probes
    <3>1. probe \in Probes /\ Append(probe.queue, i) \in Seq(Incidents)
      BY DEF VerdictTypeOK, Probes
    <3> QED
      BY <1>4, <3>1 DEF WritePass, Probes
  <2> QED
    BY <1>4, <2>1, <2>2 DEF WritePass, VerdictTypeOK
<1>5. CASE PurgeReport
  <2>1. MaxPasses["ours"] \in Nat
    BY VerdictAssumption
  <2>2. reports' \in [Incidents -> Files]
    BY <1>5, <2>1 DEF PurgeReport, VerdictTypeOK, Files, States, Incidents
  <2> QED
    BY <1>5, <2>2 DEF PurgeReport, VerdictTypeOK
<1>6. CASE TakeNotice
  <2>1. PICK i : /\ i = Head(probe.queue) /\ probe.queue # <<>>
                 /\ probe' = [probe EXCEPT
                       !.queue = Tail(@),
                       !.seen = IF reports[i].state = "whole" /\ ~Seen(i)
                                THEN Remembered(i) ELSE @]
                 /\ emitted' = IF reports[i].state = "whole" /\ ~Seen(i)
                               THEN Append(emitted, [of |-> i, read |-> reports[i].state])
                               ELSE emitted
    BY <1>6 DEF TakeNotice
  <2>2. /\ probe \in Probes /\ probe.queue \in Seq(Incidents) /\ probe.seen \in Seq(Incidents)
        /\ i \in Incidents /\ Tail(probe.queue) \in Seq(Incidents)
    BY <2>1 DEF VerdictTypeOK, Probes
  <2>3. Remembered(i) \in Seq(Incidents)
    <3>1. Append(probe.seen, i) \in Seq(Incidents) /\ Append(probe.seen, i) # <<>>
      BY <2>2, AppendProperties
    <3>2. Tail(Append(probe.seen, i)) \in Seq(Incidents)
      BY <3>1
    <3> QED
      BY <3>1, <3>2 DEF Remembered
  <2>4. probe' \in Probes
    BY <2>1, <2>2, <2>3 DEF Probes
  <2>5. emitted' \in Seq([of : Incidents, read : States])
    <3>1. [of |-> i, read |-> reports[i].state] \in [of : Incidents, read : States]
      BY <2>2 DEF VerdictTypeOK, Files
    <3> QED
      BY <2>1, <3>1, AppendProperties DEF VerdictTypeOK
  <2> QED
    BY <1>6, <2>4, <2>5 DEF TakeNotice, VerdictTypeOK
<1>7. ASSUME NEW t \in Analysts, AnalysisStep(t)
      PROVE  VerdictTypeOK'
  <2>1. kept' \in {"absent", "torn", "whole"}
    BY <1>7 DEF AnalysisStep, Analyze, LookKept, ScanReports, CopyReport, WriteJoin, Conclude,
                ReadOnly, VerdictTypeOK
  <2> QED
    BY <1>7, <2>1, CallMoves DEF VerdictTypeOK
<1>8. CASE UNCHANGED verdictVars
  BY <1>8 DEF verdictVars, VerdictTypeOK
<1> HIDE DEF VerdictTypeOK
<1> QED
  BY <1>1, <1>2, <1>3, <1>4, <1>5, <1>6, <1>7, <1>8 DEF VerdictNext

\* The actions but the analyses' own leave these alone.
LEMMA AnalysesAlone ==
    ASSUME [VerdictNext]_verdictVars, \A t \in Analysts : ~AnalysisStep(t)
    PROVE  analysis' = analysis /\ kept' = kept
  BY DEF VerdictNext, verdictVars, PassTime, RunEnds, Detached, ClosedByDaemon, DaemonKilled,
         Recover, WritePass, PurgeReport, TakeNotice

LEMMA ClockKept ==
    ASSUME VerdictTypeOK, ClockInv, [VerdictNext]_verdictVars
    PROVE  ClockInv'
<1>1. /\ today \in Nat /\ run.died \in Nat /\ lastWrite.at \in Nat /\ lastWrite.stamp \in Nat
      /\ metadata.ended \in Int
      /\ \A t \in Analysts : analysis[t].ended \in Int /\ analysis[t].end \in Int
  BY DEF VerdictTypeOK, Runs, Endings, Analyses
<1>2. CASE PassTime
  <2>1. /\ today' = today + 1 /\ UNCHANGED <<run, metadata, analysis, probe>>
        /\ Over /\ Open => ~probe.up
        /\ \/ UNCHANGED lastWrite
           \/ Open /\ ~Over /\ lastWrite'.at = today + 1
              /\ lastWrite'.stamp \in {lastWrite.stamp, lastWrite.stamp + 1}
    BY <1>2 DEF PassTime
  <2> QED
    BY <1>1, <2>1 DEF ClockInv, BeforeDeath, Over, Open
<1>3. ASSUME NEW how \in DOMAIN Signals \cup {"clean", "failed"},
             NEW victim \in {"child", "grandchild"}, NEW sampled \in BOOLEAN,
             RunEnds(how, victim, sampled)
      PROVE  ClockInv'
  <2>1. how # "alive"
    BY DEF Signals
  <2>2. /\ ~Over /\ Over' /\ run'.died = today
        /\ UNCHANGED <<today, metadata, lastWrite, probe, analysis>>
    BY <1>3, <2>1 DEF RunEnds, Over
  <2> QED
    BY <1>1, <2>2 DEF ClockInv, BeforeDeath, Open
<1>4. CASE Detached \/ ClosedByDaemon \/ Recover
  <2>1. /\ Open /\ UNCHANGED <<today, run, lastWrite, analysis>>
        /\ \/ probe.up /\ metadata'.ended = today
           \/ metadata'.ended = lastWrite.at
    BY <1>4 DEF Detached, ClosedByDaemon, Recover, Close
  <2>2. ~Open'
    BY <1>1, <2>1 DEF Open, NotYet
  <2> QED
    BY <1>1, <2>1, <2>2 DEF ClockInv, BeforeDeath, Over
<1>5. CASE DaemonKilled
  <2>1. /\ ~probe'.up /\ UNCHANGED <<today, run, metadata, lastWrite, analysis>>
    BY <1>5 DEF DaemonKilled, VerdictTypeOK, Probes
  <2> QED
    BY <1>1, <2>1 DEF ClockInv, BeforeDeath, Over, Open
<1>6. ASSUME NEW i \in Incidents, NEW kind \in {"crash", "jetsam"},
             NEW state \in {"partial", "whole"}, WritePass(i, kind, state)
      PROVE  ClockInv'
  <2>1. probe'.up = probe.up
    BY <1>6 DEF WritePass, VerdictTypeOK, Probes
  <2> QED
    BY <1>6, <2>1 DEF WritePass, ClockInv, BeforeDeath, Over, Open
<1>7. CASE PurgeReport \/ TakeNotice
  <2>1. probe'.up = probe.up
    BY <1>7 DEF PurgeReport, TakeNotice, VerdictTypeOK, Probes
  <2> QED
    BY <1>7, <2>1 DEF PurgeReport, TakeNotice, ClockInv, BeforeDeath, Over, Open
<1>8. ASSUME NEW t \in Analysts, AnalysisStep(t)
      PROVE  ClockInv'
  <2>1. UNCHANGED <<today, run, metadata, lastWrite, probe>>
    BY <1>8, CallMoves
  <2>2. ASSUME NEW u \in Analysts
        PROVE  BeforeDeath(analysis'[u].ended) /\ BeforeDeath(analysis'[u].end)
    <3>1. /\ BeforeDeath(metadata.ended) /\ BeforeDeath(NotYet) /\ BeforeDeath(0)
          /\ BeforeDeath(WindowEnd(analysis[u].ended))
          /\ BeforeDeath(analysis[u].ended) /\ BeforeDeath(analysis[u].end)
      BY <1>1 DEF ClockInv, BeforeDeath, WindowEnd, NotYet
    <3>2. /\ analysis'[u].ended \in {analysis[u].ended, metadata.ended, NotYet}
          /\ analysis'[u].end \in {analysis[u].end, WindowEnd(analysis[u].ended), 0}
      <4>1. CASE u # t
        BY <1>8, <4>1, CallMoves
      <4>2. CASE u = t
        <5>1. analysis[t] \in Analyses
          BY DEF VerdictTypeOK
        <5>2. CASE Analyze(t)
          BY <4>2, <5>2 DEF Analyze, Go, VerdictTypeOK, NoCall
        <5>3. CASE LookKept(t)
          BY <4>2, <5>1, <5>3 DEF LookKept, Go, VerdictTypeOK, Analyses
        <5>4. CASE ScanReports(t)
          BY <4>2, <5>4, ScanMoves
        <5>5. CASE CopyReport(t) \/ WriteJoin(t)
          BY <4>2, <5>5, KeepMoves
        <5>6. CASE Conclude(t)
          BY <4>2, <5>6, ConclusionMoves
        <5> QED
          BY <1>8, <5>2, <5>3, <5>4, <5>5, <5>6 DEF AnalysisStep
      <4> QED
        BY <4>1, <4>2
    <3> QED
      BY <3>1, <3>2
  <2> QED
    BY <2>1, <2>2 DEF ClockInv, BeforeDeath, Over, Open
<1>9. CASE UNCHANGED verdictVars
  BY <1>9 DEF verdictVars, ClockInv, BeforeDeath, Over, Open
<1> QED
  BY <1>2, <1>3, <1>4, <1>5, <1>6, <1>7, <1>8, <1>9 DEF VerdictNext

LEMMA MetadataKept ==
    ASSUME VerdictTypeOK, MetadataInv, [VerdictNext]_verdictVars
    PROVE  MetadataInv'
<1>1. CASE UNCHANGED <<run, metadata>>
  BY <1>1 DEF MetadataInv, Over, Open
<1>2. ASSUME NEW how \in DOMAIN Signals \cup {"clean", "failed"},
             NEW victim \in {"child", "grandchild"}, NEW sampled \in BOOLEAN,
             RunEnds(how, victim, sampled)
      PROVE  MetadataInv'
  <2>1. ~Over /\ UNCHANGED metadata
    BY <1>2 DEF RunEnds, Over
  <2>2. metadata.by # "record" /\ metadata.code = "none"
    BY <2>1 DEF MetadataInv
  <2> QED
    BY <2>1, <2>2 DEF MetadataInv, Open
<1>3. CASE Detached
  <2>1. PICK status \in Statuses : Close(status, "record", today)
    BY <1>3 DEF Detached
  <2>2. /\ metadata'.by = "record" /\ metadata'.ended = today
        /\ metadata'.code = status.code /\ metadata'.signal = status.signal
        /\ run' = run /\ Over
    BY <1>3, <2>1 DEF Close, Detached
  <2>3. today # NotYet
    BY DEF VerdictTypeOK, NotYet
  <2>4. CASE run.how \in DOMAIN Signals /\ run.victim = "child"
    <3>1. status = [code |-> "-1", signal |-> Signals[run.how]]
      BY <2>1, <2>4 DEF Statuses
    <3> QED
      BY <2>2, <2>3, <2>4, <3>1 DEF MetadataInv, Over, Open
  <2>5. CASE ~(run.how \in DOMAIN Signals /\ run.victim = "child")
    <3>1. status.code \in {"0", "1"}
      BY <2>1, <2>5 DEF Statuses
    <3> QED
      BY <2>2, <2>3, <2>5, <3>1 DEF MetadataInv, Over, Open
  <2> QED
    BY <2>4, <2>5
<1>4. CASE ClosedByDaemon \/ Recover
  <2>1. /\ metadata'.by \in {"daemon", "recovery"} /\ metadata'.code = "none"
        /\ metadata'.ended \in Nat /\ run' = run
    BY <1>4 DEF ClosedByDaemon, Recover, Close, NoStatus, VerdictTypeOK
  <2> QED
    BY <2>1 DEF MetadataInv, Open, NotYet
<1>5. ASSUME NEW t \in Analysts, AnalysisStep(t)
      PROVE  MetadataInv'
  BY <1>1, <1>5, CallMoves
<1>6. CASE PassTime \/ DaemonKilled \/ PurgeReport \/ TakeNotice \/ UNCHANGED verdictVars
  BY <1>1, <1>6 DEF PassTime, DaemonKilled, PurgeReport, TakeNotice, verdictVars
<1>7. ASSUME NEW i \in Incidents, NEW kind \in {"crash", "jetsam"},
             NEW state \in {"partial", "whole"}, WritePass(i, kind, state)
      PROVE  MetadataInv'
  BY <1>1, <1>7 DEF WritePass
<1> QED
  BY <1>2, <1>3, <1>4, <1>5, <1>6, <1>7 DEF VerdictNext

LEMMA ReportsKept ==
    ASSUME VerdictTypeOK, ClockInv, ReportsInv, \A t \in Analysts : CallInv(t),
           [VerdictNext]_verdictVars
    PROVE  ReportsInv'
<1>1. CASE UNCHANGED <<run, reports, kept>>
  BY <1>1 DEF ReportsInv, Crashed, Over
<1>2. ASSUME NEW how \in DOMAIN Signals \cup {"clean", "failed"},
             NEW victim \in {"child", "grandchild"}, NEW sampled \in BOOLEAN,
             RunEnds(how, victim, sampled)
      PROVE  ReportsInv'
  <2>1. run.how = "alive" /\ ~Over /\ UNCHANGED <<reports, kept>>
    BY <1>2 DEF RunEnds, Over
  <2> QED
    BY <2>1 DEF ReportsInv, Crashed
<1>3. ASSUME NEW i \in Incidents, NEW kind \in {"crash", "jetsam"},
             NEW state \in {"partial", "whole"}, WritePass(i, kind, state)
      PROVE  ReportsInv'
  <2>1. /\ Writable(i, kind) /\ reports[i].passes < MaxPasses[i]
        /\ reports' = [reports EXCEPT ![i] = [state |-> state, kind |-> kind, at |-> today,
                                              passes |-> @.passes + 1]]
        /\ UNCHANGED <<run, kept>>
    BY <1>3 DEF WritePass
  <2>2. /\ reports'[i].kind = kind /\ reports'[i].at = today
        /\ reports'[i].passes = reports[i].passes + 1
        /\ \A u \in Incidents : u # i => reports'[u] = reports[u]
    BY <2>1 DEF VerdictTypeOK
  <2>3. reports[i].passes \in Nat /\ MaxPasses[i] \in Nat
    BY VerdictAssumption DEF VerdictTypeOK, Files, Incidents
  <2>4. CASE i = "ours"
    BY <2>1, <2>2, <2>3, <2>4 DEF ReportsInv, Crashed, Over, Writable, Incidents
  <2>5. CASE i = "stranger"
    BY <2>1, <2>2, <2>5 DEF ReportsInv, Crashed, Over, Writable, Incidents
  <2> QED
    BY <2>4, <2>5 DEF Incidents
<1>4. CASE PurgeReport
  <2>1. /\ reports'["ours"].kind = reports["ours"].kind
        /\ reports'["ours"].passes = MaxPasses["ours"]
        /\ reports'["stranger"] = reports["stranger"]
    BY <1>4 DEF PurgeReport, VerdictTypeOK, Files, Incidents
  <2>2. MaxPasses["ours"] \in Nat
    BY VerdictAssumption
  <2> QED
    BY <1>4, <2>1, <2>2 DEF PurgeReport, ReportsInv, Crashed, Over
<1>5. ASSUME NEW t \in Analysts, AnalysisStep(t)
      PROVE  ReportsInv'
  <2>1. UNCHANGED <<run, reports>>
    BY <1>5, CallMoves
  <2>2. kept' # kept => Crashed
    <3>1. CASE CopyReport(t) \/ WriteJoin(t)
      <4>1. analysis[t].at \in {"copy", "write"}
        BY <3>1 DEF CopyReport, WriteJoin, At
      <4> QED
        BY <4>1 DEF CallInv
    <3>2. CASE ~(CopyReport(t) \/ WriteJoin(t))
      BY <1>5, <3>2 DEF AnalysisStep, Analyze, LookKept, ScanReports, Conclude, ReadOnly
    <3> QED
      BY <3>1, <3>2
  <2> QED
    BY <2>1, <2>2 DEF ReportsInv, Crashed, Over
<1>6. CASE \/ PassTime \/ Detached \/ ClosedByDaemon \/ DaemonKilled \/ Recover \/ TakeNotice
           \/ UNCHANGED verdictVars
  BY <1>1, <1>6 DEF PassTime, Detached, ClosedByDaemon, DaemonKilled, Recover, TakeNotice,
                    verdictVars
<1> QED
  BY <1>2, <1>3, <1>4, <1>5, <1>6 DEF VerdictNext

\* A report that is written or removed is not the one it was.
LEMMA ReportMoves ==
    ASSUME VerdictTypeOK, ReportsInv, [VerdictNext]_verdictVars
    PROVE  /\ reports["ours"].passes <= reports'["ours"].passes
           /\ \/ reports'["ours"] = reports["ours"]
              \/ reports["ours"].passes < reports'["ours"].passes
              \/ reports'["ours"].state = "absent"
<1>1. reports["ours"].passes \in Nat /\ MaxPasses["ours"] \in Nat
  BY VerdictAssumption DEF VerdictTypeOK, Files, Incidents
<1>2. CASE UNCHANGED reports
  BY <1>1, <1>2
<1>3. ASSUME NEW i \in Incidents, NEW kind \in {"crash", "jetsam"},
             NEW state \in {"partial", "whole"}, WritePass(i, kind, state)
      PROVE  \/ reports'["ours"] = reports["ours"]
             \/ reports'["ours"].passes = reports["ours"].passes + 1
  BY <1>3 DEF WritePass, VerdictTypeOK, Incidents
<1>4. CASE PurgeReport
  <2>1. /\ reports'["ours"].state = "absent"
        /\ reports'["ours"].passes = MaxPasses["ours"]
    BY <1>4 DEF PurgeReport, VerdictTypeOK, Files, Incidents
  <2> QED
    BY <1>1, <2>1 DEF ReportsInv
<1>5. CASE \A i \in Incidents, kind \in {"crash", "jetsam"}, state \in {"partial", "whole"} :
              ~WritePass(i, kind, state)
  <2>1. PurgeReport \/ UNCHANGED reports
    <3>1. ASSUME NEW t \in Analysts, AnalysisStep(t)
          PROVE  UNCHANGED reports
      BY <3>1, CallMoves
    <3> QED
      BY <1>5, <3>1 DEF VerdictNext, verdictVars, PassTime, RunEnds, Detached, ClosedByDaemon,
                        DaemonKilled, Recover, TakeNotice
  <2> QED
    BY <1>2, <1>4, <2>1
<1> QED
  BY <1>1, <1>3, <1>5

\* What a reader takes for the end of the session only moves on, and once it is
\* closed the metadata and the files stay; a run ends once.
LEMMA SessionMoves ==
    ASSUME VerdictTypeOK, ClockInv, [VerdictNext]_verdictVars
    PROVE  /\ LastSign <= LastSign' /\ lastWrite.at <= lastWrite'.at
           /\ Over => run' = run
           /\ ~Open => metadata' = metadata
<1>1. /\ today \in Nat /\ run.died \in Nat /\ lastWrite.at \in Nat /\ metadata.ended \in Int
  BY DEF VerdictTypeOK, Runs, Endings
<1>2. CASE UNCHANGED <<run, metadata, lastWrite>>
  BY <1>1, <1>2 DEF LastSign, Open
<1>3. CASE PassTime
  <2>1. /\ UNCHANGED <<run, metadata>>
        /\ \/ UNCHANGED lastWrite
           \/ Open /\ ~Over /\ lastWrite'.at = today + 1
    BY <1>3 DEF PassTime
  <2> QED
    BY <1>1, <2>1 DEF LastSign, Open, ClockInv, BeforeDeath
<1>4. ASSUME NEW how \in DOMAIN Signals \cup {"clean", "failed"},
             NEW victim \in {"child", "grandchild"}, NEW sampled \in BOOLEAN,
             RunEnds(how, victim, sampled)
      PROVE  /\ LastSign <= LastSign' /\ lastWrite.at <= lastWrite'.at /\ ~Over
             /\ metadata' = metadata
  BY <1>1, <1>4 DEF RunEnds, LastSign, Open, Over
<1>5. CASE Detached \/ ClosedByDaemon \/ Recover
  <2>1. /\ Open /\ UNCHANGED <<run, lastWrite>>
        /\ metadata'.ended = today \/ metadata'.ended = lastWrite.at
    BY <1>5 DEF Detached, ClosedByDaemon, Recover, Close
  <2>2. lastWrite.at <= today
    BY <1>1 DEF ClockInv, BeforeDeath
  <2> QED
    BY <1>1, <2>1, <2>2 DEF LastSign, Open, NotYet
<1>6. CASE DaemonKilled \/ PurgeReport \/ TakeNotice \/ UNCHANGED verdictVars
  BY <1>2, <1>6 DEF DaemonKilled, PurgeReport, TakeNotice, verdictVars
<1>7. ASSUME NEW i \in Incidents, NEW kind \in {"crash", "jetsam"},
             NEW state \in {"partial", "whole"}, WritePass(i, kind, state)
      PROVE  UNCHANGED <<run, metadata, lastWrite>>
  BY <1>7 DEF WritePass
<1>8. ASSUME NEW t \in Analysts, AnalysisStep(t)
      PROVE  UNCHANGED <<run, metadata, lastWrite>>
  BY <1>8, CallMoves
<1> QED
  BY <1>2, <1>3, <1>4, <1>5, <1>6, <1>7, <1>8 DEF VerdictNext

\* What the other actions do leaves a call as sound as it was.
LEMMA CallWaits ==
    ASSUME VerdictTypeOK, ClockInv, ClockInv', MetadataInv, ReportsInv,
           NEW t \in Analysts, CallInv(t),
           [VerdictNext]_verdictVars, \A u \in Analysts : ~AnalysisStep(u)
    PROVE  CallInv(t)'
<1>1. analysis' = analysis /\ kept' = kept
  BY AnalysesAlone
<1>2. /\ LastSign <= LastSign' /\ lastWrite.at <= lastWrite'.at
      /\ Over => run' = run
      /\ ~Open => metadata' = metadata
  BY SessionMoves
<1>3. /\ reports["ours"] \in Files /\ lastWrite \in [at : Nat, stamp : Nat]
      /\ lastWrite' \in [at : Nat, stamp : Nat] /\ metadata \in Endings /\ metadata' \in Endings
      /\ analysis[t] \in Analyses
  BY VerdictTyped DEF VerdictTypeOK, Incidents
<1>4. There(t)' => There(t) /\ reports'["ours"] = reports["ours"]
  BY <1>1, <1>3, ReportMoves DEF There, CallInv, Files, Analyses, Dues
<1>5. reports["ours"].kind # "none" => Over
  BY <1>3 DEF ReportsInv, Over, Files, Kinds
<1>6. ASSUME NEW kind \in {"crash", "jetsam"}, NEW end \in Int, NEW later \in Int,
             Found("ours", kind, end), end <= later, reports'["ours"] = reports["ours"]
      PROVE  Found("ours", kind, later)'
  <2>1. reports["ours"].kind = kind /\ reports["ours"].at <= end + ReportGrace
    BY <1>6 DEF Found
  <2>2. run' = run /\ reports["ours"].at <= later + ReportGrace
    BY <1>2, <1>3, <1>5, <1>6, <2>1, VerdictAssumption DEF Files
  <2> QED
    BY <1>6, <2>2 DEF Found
<1>7. /\ Crashed => Crashed'
      /\ run.how = "killed" => run'.how = "killed"
  BY <1>2 DEF Crashed, Over
<1>8. PresumptionIsFair(t)'
  <2>1. SUFFICES ASSUME analysis[t].presumed PROVE PresumptionIsFair(t)'
    BY <1>1 DEF PresumptionIsFair
  <2>2. ~Open /\ metadata' = metadata
    BY <1>2, <2>1 DEF CallInv, PresumptionIsFair
  <2>3. metadata.by = "record" => run' = run
    BY <1>2 DEF MetadataInv
  <2> QED
    BY <1>1, <2>1, <2>2, <2>3 DEF CallInv, PresumptionIsFair, Open
<1>9. analysis[t].due.passes <= reports'["ours"].passes
  <2>1. reports'["ours"] \in Files
    BY VerdictTyped DEF VerdictTypeOK, Incidents
  <2> QED
    BY <1>3, <2>1, ReportMoves DEF CallInv, Files, Analyses, Dues
<1>10. ASSUME analysis[t].due.crash, There(t)'
       PROVE  /\ analysis[t].at = "kept" => Found("ours", "crash", WindowEnd(analysis[t].ended))'
              /\ analysis[t].at = "scan" => Found("ours", "crash", analysis[t].end)'
              /\ analysis[t].at \notin {"kept", "scan"} => analysis[t].crash
  <2>1. There(t) /\ reports'["ours"] = reports["ours"]
    BY <1>4, <1>10
  <2> DEFINE early == WindowEnd(analysis[t].ended)
             late == WindowEnd(analysis[t].ended)'
  <2>2. early \in Int /\ late \in Int /\ early <= late
    BY <1>1, <1>2, <1>3 DEF WindowEnd, ClockInv, Analyses
  <2>3. ASSUME analysis[t].at = "kept"
        PROVE  Found("ours", "crash", WindowEnd(analysis[t].ended))'
    <3>1. Found("ours", "crash", early)
      BY <1>10, <2>1, <2>3 DEF CallInv
    <3>2. PICK e : e = early
      OBVIOUS
    <3>3. PICK l : l = late
      OBVIOUS
    <3>4. Found("ours", "crash", l)'
      BY <1>6, <2>1, <2>2, <3>1, <3>2, <3>3
    <3> QED
      BY <3>3, <3>4 DEF Found
  <2>4. ASSUME analysis[t].at = "scan"
        PROVE  Found("ours", "crash", analysis[t].end)'
    <3>1. PICK e \in Int : e = analysis[t].end
      BY <1>3 DEF Analyses
    <3>2. Found("ours", "crash", e)
      BY <1>10, <2>1, <2>4, <3>1 DEF CallInv
    <3>3. Found("ours", "crash", e)'
      BY <1>6, <2>1, <3>2
    <3> QED
      BY <1>1, <3>1, <3>3
  <2> QED
    BY <1>10, <2>1, <2>3, <2>4 DEF CallInv
<1>11. ASSUME analysis[t].due.jetsam, There(t)'
       PROVE  IF analysis[t].at = "returned" THEN analysis[t].jetsam
              ELSE Found("ours", "jetsam", LastSign)'
  <2>1. There(t) /\ reports'["ours"] = reports["ours"]
    BY <1>4, <1>11
  <2>2. CASE analysis[t].at # "returned"
    <3>1. PICK e \in Int : e = LastSign
      BY <1>3 DEF LastSign, Endings
    <3>2. PICK l \in Int : l = LastSign'
      BY <1>3 DEF LastSign, Endings
    <3>3. Found("ours", "jetsam", e)
      BY <1>11, <2>1, <2>2, <3>1 DEF CallInv
    <3>4. Found("ours", "jetsam", l)'
      BY <1>2, <1>6, <2>1, <3>1, <3>2, <3>3
    <3> QED
      BY <2>2, <3>2, <3>4
  <2> QED
    BY <1>11, <2>1, <2>2 DEF CallInv
<1> QED
  BY <1>1, <1>7, <1>8, <1>9, <1>10, <1>11 DEF CallInv, Keeping

\* A report found is about the run.
LEMMA FoundIsOurs ==
    ASSUME VerdictTypeOK, ReportsInv, NEW end \in Int, BeforeDeath(end), NEW i \in Incidents
    PROVE  /\ Found(i, "crash", end) => Crashed
           /\ Found(i, "jetsam", end) => run.how = "killed"
<1>1. CASE i = "ours"
  BY <1>1 DEF Found, ReportsInv, Crashed
<1>2. CASE i = "stranger"
  <2>1. reports[i].at \in Nat /\ run.died \in Nat
    BY DEF VerdictTypeOK, Files, Runs
  <2> QED
    BY <1>2, <2>1, VerdictAssumption DEF Found, ReportsInv, BeforeDeath
<1> QED
  BY <1>1, <1>2 DEF Incidents

\* An analysis leaves the calls of the others as sound as they were.
LEMMA OtherCalls ==
    ASSUME VerdictTypeOK, NEW t \in Analysts, NEW u \in Analysts, u # t,
           AnalysisStep(t), CallInv(u)
    PROVE  CallInv(u)'
<1>1. /\ analysis'[u] = analysis[u]
      /\ \A v \in Analysts : v # t => analysis'[v] = analysis[v]
      /\ UNCHANGED <<today, run, metadata, lastWrite, reports, probe, emitted>>
  BY CallMoves
<1>2. ASSUME analysis[u].due.kept, analysis[u].at = "kept"
      PROVE  kept' = "whole" /\ \A v \in Analysts : ~Keeping(v)'
  <2>1. kept = "whole" /\ \A v \in Analysts : ~Keeping(v)
    BY <1>2 DEF CallInv
  <2>2. Analyze(t) \/ LookKept(t) \/ Conclude(t)
    BY <2>1 DEF AnalysisStep, ScanReports, CopyReport, WriteJoin, At, Keeping
  <2>3. kept' = kept
    BY <2>2 DEF Analyze, LookKept, Conclude, ReadOnly
  <2>4. analysis'[t].at \in {"kept", "again", "returned"}
    <3>1. CASE Analyze(t)
      BY <3>1 DEF Analyze, Go, VerdictTypeOK, NoCall
    <3>2. CASE LookKept(t)
      BY <2>1, <3>2 DEF LookKept, Go, VerdictTypeOK, Analyses
    <3>3. CASE Conclude(t)
      BY <3>3 DEF Conclude, Go, VerdictTypeOK, Analyses
    <3> QED
      BY <2>2, <3>1, <3>2, <3>3
  <2> QED
    BY <1>1, <2>1, <2>3, <2>4 DEF Keeping
<1> QED
  BY <1>1, <1>2 DEF CallInv, PresumptionIsFair, There, Found, LastSign, WindowEnd, Open, Crashed

\* A call stays sound through its own steps.
LEMMA CallKept ==
    ASSUME VerdictTypeOK, ClockInv, MetadataInv, ReportsInv, NEW t \in Analysts, CallInv(t),
           AnalysisStep(t)
    PROVE  CallInv(t)'
<1>1. /\ UNCHANGED <<today, run, metadata, lastWrite, reports>>
      /\ analysis' \in [Analysts -> Analyses]
      /\ \A u \in Analysts : u # t => analysis'[u] = analysis[u]
  BY CallMoves
<1>2. /\ metadata \in Endings /\ lastWrite \in [at : Nat, stamp : Nat]
      /\ analysis[t] \in Analyses /\ analysis'[t] \in Analyses
      /\ reports["ours"].passes \in Nat
  BY <1>1 DEF VerdictTypeOK, Files, Incidents
<1>3. /\ LastSign = WindowEnd(metadata.ended) /\ LastSign \in Int
      /\ LastSign' = LastSign
  BY <1>1, <1>2 DEF LastSign, WindowEnd, Open, ClockInv, Endings
<1>4. There(t)' => reports["ours"].state = "whole" /\ reports["ours"].passes = analysis'[t].due.passes
  BY <1>1 DEF There
<1>5. /\ \A kind, end : Found("ours", kind, end)' <=> Found("ours", kind, end)
      /\ \A ended : WindowEnd(ended)' = WindowEnd(ended)
      /\ Crashed' = Crashed
  BY <1>1 DEF Found, WindowEnd, Crashed
<1>6. CASE Analyze(t)
  <2>1. /\ analysis'[t].at = IF metadata.code = "0" THEN "again" ELSE "kept"
        /\ analysis'[t].ended = metadata.ended /\ analysis'[t].due.passes = reports["ours"].passes
        /\ analysis'[t].crash = FALSE /\ analysis'[t].jetsam = FALSE
        /\ analysis'[t].presumed = FALSE /\ kept' = kept
    BY <1>6 DEF Analyze, Go, VerdictTypeOK, NoCall, ReadOnly
  <2>2. /\ analysis'[t].due.crash <=> metadata.code # "0" /\ Found("ours", "crash", LastSign)
        /\ analysis'[t].due.jetsam <=> Found("ours", "jetsam", LastSign)
        /\ analysis'[t].due.kept <=> kept = "whole" /\ \A u \in Analysts : ~Keeping(u)
    <3> DEFINE crash == metadata.code # "0" /\ Found("ours", "crash", LastSign)
               jetsam == Found("ours", "jetsam", LastSign)
               whole == kept = "whole" /\ \A u \in Analysts : ~Keeping(u)
    <3>1. analysis'[t].due = [crash |-> crash, jetsam |-> jetsam, kept |-> whole,
                              passes |-> reports["ours"].passes]
      <4> HIDE DEF crash, jetsam, whole
      <4>1. analysis'[t] = [NoCall EXCEPT
                !.at = IF metadata.code = "0" THEN "again" ELSE "kept",
                !.ended = metadata.ended,
                !.due = [crash |-> crash, jetsam |-> jetsam, kept |-> whole,
                         passes |-> reports["ours"].passes]]
        BY <1>6, Zenon DEF Analyze, Go, VerdictTypeOK, crash, jetsam, whole
      <4> QED
        BY <4>1 DEF NoCall
    <3>2. crash \in BOOLEAN /\ jetsam \in BOOLEAN /\ whole \in BOOLEAN
      BY DEF Found
    <3> HIDE DEF crash, jetsam, whole
    <3>3. /\ analysis'[t].due.crash = crash /\ analysis'[t].due.jetsam = jetsam
          /\ analysis'[t].due.kept = whole
      BY <3>1
    <3> QED
      BY <3>3, Zenon DEF crash, jetsam, whole
  <2>3. analysis'[t].due.kept => metadata.code # "0"
    BY <2>2 DEF ReportsInv, MetadataInv, Crashed, Signals
  <2>4. analysis'[t].due.kept => \A u \in Analysts : ~Keeping(u)'
    BY <1>1, <2>1, <2>2 DEF Keeping
  <2>5. PresumptionIsFair(t)'
    BY <2>1 DEF PresumptionIsFair
  <2> QED
    BY <1>1, <1>2, <1>3, <1>5, <2>1, <2>2, <2>3, <2>4, <2>5 DEF CallInv
<1>7. CASE LookKept(t)
  <2>1. /\ analysis[t].at = "kept" /\ kept' = kept
        /\ IF kept = "whole" THEN analysis'[t] = [analysis[t] EXCEPT !.at = "again", !.crash = TRUE]
           ELSE analysis'[t] = [analysis[t] EXCEPT !.at = "scan",
                                                   !.end = WindowEnd(analysis[t].ended)]
    BY <1>7 DEF LookKept, At, Go, VerdictTypeOK, ReadOnly
  <2>2. /\ analysis'[t].due = analysis[t].due /\ analysis'[t].jetsam = analysis[t].jetsam
        /\ analysis'[t].presumed = analysis[t].presumed
        /\ kept = "whole" => analysis'[t].at = "again" /\ analysis'[t].crash
        /\ kept # "whole" => /\ analysis'[t].at = "scan" /\ analysis'[t].crash = analysis[t].crash
                             /\ analysis'[t].end = WindowEnd(analysis[t].ended)
    BY <1>2, <2>1 DEF Analyses
  <2>3. There(t)' <=> There(t)
    BY <1>1, <2>2 DEF There
  <2>4. kept = "whole" => Crashed
    BY DEF ReportsInv
  <2>5. ~analysis'[t].presumed
    BY <2>1, <2>2 DEF CallInv
  <2> QED
    BY <1>1, <1>2, <1>3, <1>5, <2>1, <2>2, <2>3, <2>4, <2>5 DEF CallInv, PresumptionIsFair
<1>8. CASE ScanReports(t)
  <2>1. There(t)' <=> There(t)
    BY <1>1, <1>8, ScanMoves DEF There
  <2>2. ~analysis'[t].presumed
    BY <1>8, ScanMoves DEF CallInv
  <2>3. analysis'[t].crash => Crashed
    BY <1>2, <1>8, ScanMoves, FoundIsOurs DEF ClockInv, Analyses
  <2>4. analysis[t].due.crash /\ There(t) => analysis'[t].crash
    BY <1>8, ScanMoves DEF CallInv, Incidents
  <2>5. ~analysis[t].due.kept
    BY <1>8, ScanMoves DEF CallInv
  <2> QED
    BY <1>1, <1>2, <1>3, <1>5, <1>8, <2>1, <2>2, <2>3, <2>4, <2>5, ScanMoves
    DEF CallInv, PresumptionIsFair
<1>9. CASE CopyReport(t) \/ WriteJoin(t)
  <2>1. There(t)' <=> There(t)
    BY <1>1, <1>9, KeepMoves DEF There
  <2>2. ~analysis'[t].presumed /\ analysis'[t].crash
    BY <1>9, KeepMoves DEF CallInv
  <2> QED
    BY <1>1, <1>2, <1>3, <1>5, <1>9, <2>1, <2>2, KeepMoves DEF CallInv, PresumptionIsFair
<1>10. CASE Conclude(t)
  <2>1. There(t)' <=> There(t)
    BY <1>1, <1>10, ConclusionMoves DEF There
  <2>2. analysis'[t].jetsam => run.how = "killed"
    BY <1>2, <1>3, <1>10, ConclusionMoves, FoundIsOurs DEF ClockInv, Endings, WindowEnd, BeforeDeath
  <2>3. analysis[t].due.jetsam /\ There(t) => analysis'[t].jetsam
    BY <1>3, <1>10, ConclusionMoves DEF CallInv, Incidents
  <2>4. PresumptionIsFair(t)'
    <3>1. SUFFICES ASSUME analysis'[t].presumed PROVE PresumptionIsFair(t)'
      BY DEF PresumptionIsFair
    <3>2. ~analysis'[t].jetsam /\ ~analysis'[t].crash /\ Presumes
      BY <1>10, <3>1, ConclusionMoves
    <3>3. ~Open
      BY <3>2 DEF Presumes, MetadataInv
    <3>4. metadata.by = "record" => run.how \in {"hungUp", "faulted", "killed"}
      BY <3>2 DEF Presumes, MetadataInv, Signals
    <3> QED
      BY <1>1, <3>2, <3>3, <3>4 DEF PresumptionIsFair, Open
  <2> QED
    BY <1>1, <1>2, <1>3, <1>5, <1>10, <2>1, <2>2, <2>3, <2>4, ConclusionMoves DEF CallInv
<1> QED
  BY <1>6, <1>7, <1>8, <1>9, <1>10 DEF AnalysisStep

\* The probe remembers every incident: two are fewer than it can.
LEMMA ProbeKept ==
    ASSUME VerdictTypeOK, ProbeInv, [VerdictNext]_verdictVars
    PROVE  ProbeInv'
<1>1. /\ probe \in Probes /\ emitted \in Seq([of : Incidents, read : States])
      /\ probe.queue \in Seq(Incidents) /\ probe.seen \in Seq(Incidents)
      /\ reports \in [Incidents -> Files]
  BY DEF VerdictTypeOK, Probes
<1>2. CASE UNCHANGED <<probe, emitted>> /\ \A i \in Incidents :
              reports'[i].state = "whole" => reports[i].state = "whole"
  BY <1>1, <1>2 DEF ProbeInv, Seen, Probes
<1>3. CASE DaemonKilled
  BY <1>1, <1>3 DEF DaemonKilled, ProbeInv, Probes
<1>4. CASE Recover
  <2>1. /\ probe'.queue = probe.queue /\ probe'.seen = probe.seen
        /\ probe'.notified = probe.notified /\ UNCHANGED <<emitted, reports>>
    BY <1>1, <1>4 DEF Recover, Probes
  <2> QED
    BY <2>1 DEF ProbeInv, Seen
<1>5. ASSUME NEW i \in Incidents, NEW kind \in {"crash", "jetsam"},
             NEW state \in {"partial", "whole"}, WritePass(i, kind, state)
      PROVE  ProbeInv'
  <2>1. /\ probe'.seen = probe.seen /\ emitted' = emitted
        /\ \A j \in Incidents : j # i => reports'[j] = reports[j]
        /\ \/ /\ probe'.queue = Append(probe.queue, i)
              /\ probe'.notified = probe.notified \cup {i}
           \/ /\ probe'.queue = probe.queue
              /\ probe'.notified = probe.notified \ {i}
    BY <1>1, <1>5 DEF WritePass, Probes
  <2>2. /\ Len(Append(probe.queue, i)) = Len(probe.queue) + 1
        /\ Append(probe.queue, i)[Len(probe.queue) + 1] = i
        /\ \A n \in 1 .. Len(probe.queue) : Append(probe.queue, i)[n] = probe.queue[n]
    BY <1>1, AppendProperties
  <2>3. ASSUME NEW j \in probe'.notified, reports'[j].state = "whole"
        PROVE  \/ \E n \in 1 .. Len(probe'.queue) : probe'.queue[n] = j
               \/ Seen(j)'
    <3>1. CASE j = i
      <4>1. probe'.queue = Append(probe.queue, i)
        BY <2>1, <3>1
      <4>2. Len(probe.queue) + 1 \in 1 .. Len(probe'.queue)
        BY <1>1, <2>2, <4>1
      <4> QED
        BY <2>2, <3>1, <4>1, <4>2
    <3>2. CASE j # i
      <4>1. j \in probe.notified /\ reports[j].state = "whole"
        BY <1>1, <2>1, <2>3, <3>2 DEF Probes
      <4>2. CASE Seen(j)
        BY <2>1, <4>2 DEF Seen
      <4>3. CASE ~Seen(j)
        <5>1. PICK n \in 1 .. Len(probe.queue) : probe.queue[n] = j
          BY <4>1, <4>3 DEF ProbeInv
        <5>2. n \in 1 .. Len(probe'.queue) /\ probe'.queue[n] = j
          <6> DEFINE q == probe.queue
                     r == probe'.queue
          <6>1. Len(q) \in Nat
            BY <1>1
          <6>2. r = q \/ r = Append(q, i)
            BY <2>1
          <6>3. n \in 1 .. Len(Append(q, i))
            BY <2>2, <5>1, <6>1
          <6>4. Append(q, i)[n] = q[n]
            BY <2>2, <5>1
          <6> HIDE DEF q, r
          <6>5. q[n] = j /\ n \in 1 .. Len(q)
            BY <5>1 DEF q
          <6>6. n \in 1 .. Len(r) /\ r[n] = j
            BY <6>2, <6>3, <6>4, <6>5
          <6> QED
            BY <6>6 DEF r
        <5> QED
          BY <5>2
      <4> QED
        BY <4>2, <4>3
    <3> QED
      BY <3>1, <3>2
  <2> QED
    BY <2>1, <2>3 DEF ProbeInv
<1>6. CASE PurgeReport
  <2>1. \A i \in Incidents : reports'[i].state = "whole" => reports[i].state = "whole"
    BY <1>1, <1>6 DEF PurgeReport, Files
  <2> QED
    BY <1>2, <1>6, <2>1 DEF PurgeReport
<1>7. CASE TakeNotice
  <2>1. PICK i : /\ i = Head(probe.queue) /\ probe.queue # <<>>
                 /\ probe' = [probe EXCEPT
                       !.queue = Tail(@),
                       !.seen = IF reports[i].state = "whole" /\ ~Seen(i)
                                THEN Remembered(i) ELSE @]
                 /\ emitted' = IF reports[i].state = "whole" /\ ~Seen(i)
                               THEN Append(emitted, [of |-> i, read |-> reports[i].state])
                               ELSE emitted
                 /\ reports' = reports
    BY <1>7 DEF TakeNotice
  <2>2. /\ i \in Incidents /\ i = probe.queue[1] /\ Len(probe.queue) > 0
        /\ Len(Tail(probe.queue)) = Len(probe.queue) - 1
        /\ \A n \in 1 .. Len(probe.queue) - 1 : Tail(probe.queue)[n] = probe.queue[n + 1]
    BY <1>1, <2>1
  <2>3. /\ probe'.queue = Tail(probe.queue) /\ probe'.notified = probe.notified
        /\ probe'.seen = IF reports[i].state = "whole" /\ ~Seen(i) THEN Remembered(i)
                         ELSE probe.seen
    BY <1>1, <2>1 DEF Probes
  <2>4. ASSUME reports[i].state = "whole", ~Seen(i)
        PROVE  Remembered(i) = Append(probe.seen, i)
    <3>1. Len(probe.seen) <= 1
      <4>1. SUFFICES ASSUME Len(probe.seen) >= 2 PROVE FALSE
        BY <1>1
      <4>2. 1 \in 1 .. Len(probe.seen) /\ 2 \in 1 .. Len(probe.seen)
        BY <1>1, <4>1
      <4>3. probe.seen[1] \in Incidents \ {i} /\ probe.seen[2] \in Incidents \ {i}
        BY <1>1, <2>4, <4>2 DEF Seen
      <4>4. probe.seen[1] = probe.seen[2]
        BY <2>2, <4>3 DEF Incidents
      <4> QED
        BY <4>2, <4>4 DEF ProbeInv
    <3>2. Len(Append(probe.seen, i)) <= SeenCap
      BY <1>1, <2>2, <3>1, VerdictAssumption, AppendProperties
    <3>3. ~(Len(Append(probe.seen, i)) > SeenCap)
      BY <1>1, <2>2, <3>2, VerdictAssumption, AppendProperties
    <3> QED
      BY <3>3, Zenon DEF Remembered
  <2> DEFINE new == reports[i].state = "whole" /\ ~Seen(i)
             row == [of |-> i, read |-> "whole"]
  <2>5. /\ probe'.seen = IF new THEN Append(probe.seen, i) ELSE probe.seen
        /\ emitted' = IF new THEN Append(emitted, row) ELSE emitted
    BY <2>1, <2>3, <2>4
  <2>6. /\ Len(Append(probe.seen, i)) = Len(probe.seen) + 1
        /\ Append(probe.seen, i)[Len(probe.seen) + 1] = i
        /\ \A n \in 1 .. Len(probe.seen) : Append(probe.seen, i)[n] = probe.seen[n]
    BY <1>1, <2>2, AppendProperties
  <2>7. /\ Len(Append(emitted, row)) = Len(emitted) + 1
        /\ Append(emitted, row)[Len(emitted) + 1] = row
        /\ \A n \in 1 .. Len(emitted) : Append(emitted, row)[n] = emitted[n]
    <3>1. row \in [of : Incidents, read : States]
      BY <2>2 DEF States
    <3> HIDE DEF row
    <3> QED
      BY <1>1, <3>1, AppendProperties
  <2>8. row.of = i /\ row.read = "whole"
    OBVIOUS
  <2> HIDE DEF new, row
  <2>9. Len(probe.seen) \in Nat /\ Len(emitted) \in Nat /\ Len(probe.queue) \in Nat
    BY <1>1
  <2>10. Len(probe'.seen) = Len(emitted')
    BY <2>5, <2>6, <2>7, <2>9 DEF ProbeInv
  <2>11. \A n \in 1 .. Len(emitted') : probe'.seen[n] = emitted'[n].of /\ emitted'[n].read = "whole"
    BY <2>5, <2>6, <2>7, <2>8, <2>9 DEF ProbeInv
  <2>12. \A m, n \in 1 .. Len(probe'.seen) : probe'.seen[m] = probe'.seen[n] => m = n
    <3>1. new => \A n \in 1 .. Len(probe.seen) : probe.seen[n] # i
      BY DEF new, Seen
    <3> QED
      BY <2>5, <2>6, <2>9, <3>1 DEF ProbeInv
  <2>13. /\ \A j : Seen(j) => Seen(j)'
         /\ reports[i].state = "whole" => Seen(i)'
    <3>1. \A j : Seen(j) => Seen(j)'
      BY <2>5, <2>6, <2>9 DEF Seen
    <3>2. new => Seen(i)'
      <4>1. ASSUME new PROVE Len(probe.seen) + 1 \in 1 .. Len(probe'.seen)
        BY <2>5, <2>6, <2>9, <4>1
      <4> QED
        BY <2>5, <2>6, <4>1 DEF Seen
    <3> QED
      BY <3>1, <3>2 DEF new
  <2>14. ASSUME NEW j \in probe'.notified, reports'[j].state = "whole"
         PROVE  \/ \E n \in 1 .. Len(probe'.queue) : probe'.queue[n] = j
                \/ Seen(j)'
    <3>1. j \in probe.notified /\ reports[j].state = "whole"
      BY <2>1, <2>3, <2>14
    <3>2. CASE Seen(j) \/ j = i
      BY <2>13, <3>1, <3>2
    <3>3. CASE ~Seen(j) /\ j # i
      <4>1. PICK n \in 1 .. Len(probe.queue) : probe.queue[n] = j
        BY <3>1, <3>3 DEF ProbeInv
      <4>2. n # 1 /\ n - 1 \in 1 .. Len(probe.queue) - 1
        BY <2>2, <2>9, <3>3, <4>1
      <4>3. Tail(probe.queue)[n - 1] = j /\ n - 1 \in 1 .. Len(Tail(probe.queue))
        BY <2>2, <2>9, <4>1, <4>2
      <4> QED
        BY <2>3, <4>3
    <3> QED
      BY <3>2, <3>3
  <2> QED
    BY <2>10, <2>11, <2>12, <2>14 DEF ProbeInv
<1>8. ASSUME NEW t \in Analysts, AnalysisStep(t)
      PROVE  ProbeInv'
  BY <1>2, <1>8, CallMoves
<1>9. CASE PassTime \/ Detached \/ ClosedByDaemon \/ UNCHANGED verdictVars
  BY <1>2, <1>9 DEF PassTime, Detached, ClosedByDaemon, verdictVars
<1>10. ASSUME NEW how \in DOMAIN Signals \cup {"clean", "failed"},
              NEW victim \in {"child", "grandchild"}, NEW sampled \in BOOLEAN,
              RunEnds(how, victim, sampled)
       PROVE  ProbeInv'
  BY <1>2, <1>10 DEF RunEnds
<1> QED
  BY <1>3, <1>4, <1>5, <1>6, <1>7, <1>8, <1>9, <1>10 DEF VerdictNext

\* For any analysts, grace, clock and passes of the reports: a call that
\* returned tells of a crash or a kill only when it was the run's own, of each
\* that was there to be found, or kept, when it began and has not changed, and
\* presumes a death of memory beside no verdict; and the probe emits an
\* incident once, from a whole report.
THEOREM DeathIsExplainedAlways == VerdictSpec => []DeathIsExplained
<1>1. VerdictInit => VerdictInv
  BY VerdictStarts
<1>2. VerdictInv /\ [VerdictNext]_verdictVars => VerdictInv'
  <2> SUFFICES ASSUME VerdictInv, [VerdictNext]_verdictVars PROVE VerdictInv'
    OBVIOUS
  <2>1. /\ VerdictTypeOK /\ ClockInv /\ MetadataInv /\ ReportsInv /\ ProbeInv
        /\ \A t \in Analysts : CallInv(t)
    BY DEF VerdictInv
  <2>2. VerdictTypeOK' /\ ClockInv' /\ MetadataInv'
    BY <2>1, VerdictTyped, ClockKept, MetadataKept
  <2>3. ReportsInv' /\ ProbeInv'
    BY <2>1, ReportsKept, ProbeKept
  <2>4. ASSUME NEW t \in Analysts
        PROVE  CallInv(t)'
    <3>1. CASE \A u \in Analysts : ~AnalysisStep(u)
      BY <2>1, <2>2, <3>1, CallWaits
    <3>2. ASSUME NEW u \in Analysts, AnalysisStep(u)
          PROVE  CallInv(t)'
      BY <2>1, <3>2, CallKept, OtherCalls
    <3> QED
      BY <3>1, <3>2
  <2> QED
    BY <2>2, <2>3, <2>4 DEF VerdictInv
<1>3. VerdictInv => DeathIsExplained
  <2> SUFFICES ASSUME VerdictInv PROVE DeathIsExplained
    OBVIOUS
  <2>1. EmittedOnce
    BY DEF VerdictInv, ProbeInv, EmittedOnce, Seen
  <2>2. ASSUME NEW t \in Analysts, At(t, "returned")
        PROVE  VerdictIsTrue(t) /\ VerdictIsFound(t) /\ PresumptionIsFair(t)
    BY <2>2 DEF VerdictInv, CallInv, VerdictIsTrue, VerdictIsFound, Crashed, There, At
  <2> QED
    BY <2>1, <2>2 DEF DeathIsExplained
<1> QED
  BY <1>1, <1>2, <1>3, PTL DEF VerdictSpec

-----------------------------------------------------------------------------
(* Replay.  The events passed are those up to the clock, and the screen is *)
(* folded from those of them that were not cleared away.                   *)

Ordered == \A i, j \in DOMAIN timeline : i <= j => timeline[i] <= timeline[j]

ReplayTypeOK ==
    /\ timeline \in Seq(Nat) /\ Len(timeline) > 0
    /\ speed \in Nat
    /\ clock \in 0 .. Duration
    /\ position \in 0 .. Len(timeline)
    /\ cleared \in 0 .. position

ReplayInv == ReplayTypeOK /\ Ordered /\ ReplayShowsTheMoment

\* A bounded set of naturals that is not empty has a greatest member.
LEMMA GreatestIsMember ==
    ASSUME NEW n \in Nat, NEW G \in SUBSET (0 .. n), G # {}
    PROVE  Max(G) \in G /\ \A k \in G : Max(G) >= k
<1> DEFINE T == {n - k : k \in G}
<1>1. T \subseteq Nat /\ T # {}
  <2>1. \A k \in G : n - k \in Nat
    OBVIOUS
  <2> QED
    BY <2>1
<1> HIDE DEF T
<1>2. PICK m \in T : \A k \in T : <<k, m>> \notin OpToRel(<, Nat)
  BY <1>1, WFMin, NatLessThanWellFounded, Zenon
<1>3. \A k \in T : ~(k < m)
  <2> SUFFICES ASSUME NEW k \in T PROVE ~(k < m)
    OBVIOUS
  <2> QED
    BY <1>1, <1>2, Zenon DEF OpToRel
<1>4. PICK g \in G : m = n - g
  BY DEF T
<1>5. ASSUME NEW k \in G
      PROVE  g >= k
  <2>1. n - k \in T
    BY DEF T
  <2> QED
    BY <1>3, <1>4, <2>1
<1>6. \E x \in G : \A y \in G : x >= y
  BY <1>5
<1> QED
  BY <1>6, Zenon DEF Max

\* Catching up passes the events up to the time, if those passed already are.
LEMMA CatchingUp ==
    ASSUME ReplayTypeOK, Ordered, NEW from \in 0 .. Len(timeline), NEW time \in Nat,
           \A i \in 1 .. from : Rel(i) <= time
    PROVE  /\ CaughtUp(from, time) \in from .. Len(timeline)
           /\ CaughtUp(from, time) > 0
           /\ {i \in DOMAIN timeline : Rel(i) <= time} = 1 .. CaughtUp(from, time)
<1> DEFINE n == Len(timeline)
           passed == {i \in from + 1 .. n : \A j \in from + 1 .. i : Rel(j) <= time}
           G == {from} \cup passed
           p == CaughtUp(from, time)
<1>1. /\ n \in Nat /\ n > 0 /\ DOMAIN timeline = 1 .. n
      /\ \A i \in 1 .. n : timeline[i] \in Nat
      /\ \A i \in 1 .. n : Rel(i) \in Int
  BY DEF ReplayTypeOK, Rel
<1>2. G \subseteq 0 .. n /\ G # {}
  BY <1>1
<1>3. p = Max(G)
  BY DEF CaughtUp
<1>4. p \in G /\ \A k \in G : p >= k
  <2> HIDE DEF G, p
  <2> QED
    BY <1>1, <1>2, <1>3, GreatestIsMember
<1>5. p \in from .. n
  <2> HIDE DEF p
  <2> QED
    BY <1>1, <1>4
<1>6. \A i \in 1 .. p : Rel(i) <= time
  <2> HIDE DEF p
  <2> SUFFICES ASSUME NEW i \in 1 .. p, i > from PROVE Rel(i) <= time
    BY <1>1, <1>5
  <2>1. p \in passed
    BY <1>4, <1>5
  <2> QED
    BY <1>1, <1>5, <2>1
<1>7. \A i \in 1 .. n : i > p => Rel(i) > time
  <2> HIDE DEF p
  <2> SUFFICES ASSUME NEW i \in 1 .. n, i > p, ~(Rel(i) > time) PROVE FALSE
    OBVIOUS
  <2>1. \A j \in 1 .. i : Rel(j) <= Rel(i)
    <3> SUFFICES ASSUME NEW j \in 1 .. i PROVE Rel(j) <= Rel(i)
      OBVIOUS
    <3>1. timeline[j] <= timeline[i]
      BY SMTT(30), <1>1 DEF Ordered
    <3> QED
      BY <1>1, <3>1 DEF Rel
  <2>2. \A j \in 1 .. i : Rel(j) <= time
    BY <1>1, <2>1
  <2>3. i \in passed
    BY <1>1, <1>5, <2>2
  <2> QED
    BY <1>1, <1>4, <1>5, <2>3
<1>8. p > 0
  <2>1. Rel(1) = 0
    BY <1>1 DEF Rel
  <2> HIDE DEF p
  <2> QED
    BY <1>1, <1>5, <1>7, <2>1
<1>9. {i \in DOMAIN timeline : Rel(i) <= time} = 1 .. p
  <2> HIDE DEF p
  <2> QED
    BY <1>1, <1>5, <1>6, <1>7
<1> QED
  BY <1>5, <1>8, <1>9

\* Two slices in a row make one.
LEMMA SlicesJoin ==
    ASSUME NEW a \in Nat, NEW b \in Nat, NEW c \in Nat, a <= b, b <= c
    PROVE  Slice(a, b) \o Slice(b, c) = Slice(a, c)
<1>1. /\ Slice(a, b) \in Seq(Nat) /\ Slice(b, c) \in Seq(Nat) /\ Slice(a, c) \in Seq(Nat)
      /\ Len(Slice(a, b)) = b - a /\ Len(Slice(b, c)) = c - b /\ Len(Slice(a, c)) = c - a
      /\ \A n \in 1 .. b - a : Slice(a, b)[n] = a + n
      /\ \A n \in 1 .. c - b : Slice(b, c)[n] = b + n
      /\ \A n \in 1 .. c - a : Slice(a, c)[n] = a + n
  BY DEF Slice
<1> DEFINE s == Slice(a, b)
           t == Slice(b, c)
           u == Slice(a, c)
<1> HIDE DEF s, t, u
<1>2. /\ s \o t \in Seq(Nat) /\ Len(s \o t) = Len(s) + Len(t)
      /\ \A n \in 1 .. Len(s) + Len(t) :
            (s \o t)[n] = IF n <= Len(s) THEN s[n] ELSE t[n - Len(s)]
  BY <1>1, ConcatProperties DEF s, t
<1>3. /\ s \in Seq(Nat) /\ t \in Seq(Nat) /\ u \in Seq(Nat)
      /\ Len(s) = b - a /\ Len(t) = c - b /\ Len(u) = c - a
      /\ \A n \in 1 .. b - a : s[n] = a + n
      /\ \A n \in 1 .. c - b : t[n] = b + n
      /\ \A n \in 1 .. c - a : u[n] = a + n
  BY <1>1 DEF s, t, u
<1>4. \A n \in 1 .. Len(u) : (s \o t)[n] = u[n]
  <2> SUFFICES ASSUME NEW n \in 1 .. Len(u) PROVE (s \o t)[n] = u[n]
    OBVIOUS
  <2>1. CASE n <= b - a
    BY <1>2, <1>3, <2>1
  <2>2. CASE n > b - a
    <3>0. Len(u) = c - a /\ Len(s) = b - a /\ Len(t) = c - b
      BY <1>3
    <3>1. n - (b - a) \in 1 .. c - b /\ n \in 1 .. c - a
      BY <2>2, <3>0
    <3> DEFINE m == n - (b - a)
    <3>2. (s \o t)[n] = t[m]
      <4>1. n \in 1 .. Len(s) + Len(t) /\ ~(n <= Len(s))
        BY <2>2, <3>0, <3>1
      <4>2. (s \o t)[n] = t[n - Len(s)]
        BY <1>2, <4>1
      <4> QED
        BY <3>0, <4>2
    <3>3. m \in 1 .. c - b /\ b + m = a + n
      BY <3>1
    <3> HIDE DEF m
    <3>4. t[m] = b + m /\ u[n] = a + n
      BY <1>3, <3>1, <3>3
    <3> QED
      BY <3>2, <3>3, <3>4
  <2> QED
    <3>1. n <= b - a \/ n > b - a
      <4>1. Len(u) = c - a
        BY <1>3
      <4>2. n \in Nat
        BY <4>1
      <4> QED
        BY <4>2
    <3> QED
      BY <2>1, <2>2, <3>1
<1>5. Len(s \o t) = Len(u)
  BY <1>2, <1>3
<1>6. s \o t = u
  BY <1>2, <1>3, <1>4, <1>5, SeqEqual
<1> QED
  BY <1>6 DEF s, t, u

LEMMA DurationIsNat ==
    ASSUME ReplayTypeOK, Ordered PROVE Duration \in Nat
<1>1. /\ Len(timeline) \in Nat /\ Len(timeline) > 0
      /\ timeline[Len(timeline)] \in Nat /\ timeline[1] \in Nat
  BY DEF ReplayTypeOK
<1>2. 1 \in DOMAIN timeline /\ Len(timeline) \in DOMAIN timeline
  BY DEF ReplayTypeOK
<1>3. timeline[1] <= timeline[Len(timeline)]
  BY <1>1, <1>2 DEF Ordered
<1> QED
  BY <1>1, <1>3 DEF Duration, Rel

LEMMA ReplayStarts == ReplayInit => ReplayInv
<1> SUFFICES ASSUME ReplayInit PROVE ReplayInv
  OBVIOUS
<1>1. PICK r \in Recordings : timeline \in InOrder(r)
  BY DEF ReplayInit
<1>2. r \in Seq(Nat) /\ Len(r) > 0 /\ DOMAIN r = 1 .. Len(r)
  BY ReplayAssumption, EmptySeq
<1>3. PICK p \in Bijection(DOMAIN r, DOMAIN r) : timeline = [i \in DOMAIN r |-> r[p[i]]]
  BY <1>1 DEF InOrder
<1>4. \A i, j \in DOMAIN r : i <= j => timeline[i] <= timeline[j]
  BY <1>1 DEF InOrder
<1>5. p \in [DOMAIN r -> DOMAIN r]
  <2>1. p \in Bijection(DOMAIN r, DOMAIN r)
    BY <1>3
  <2> QED
    BY <2>1, Zenon DEF Bijection, Injection
<1>6. timeline \in Seq(Nat) /\ Len(timeline) = Len(r) /\ DOMAIN timeline = DOMAIN r
  <2>1. \A i \in DOMAIN r : r[p[i]] \in Nat
    BY <1>2, <1>5
  <2>2. timeline \in [1 .. Len(r) -> Nat]
    BY <1>2, <1>3, <2>1
  <2> QED
    BY <1>2, <2>2
<1>7. Ordered
  BY <1>4, <1>6 DEF Ordered
<1>8. Duration \in Nat
  <2>1. /\ Len(timeline) \in Nat /\ Len(timeline) > 0
        /\ timeline[Len(timeline)] \in Nat /\ timeline[1] \in Nat
        /\ 1 \in DOMAIN timeline /\ Len(timeline) \in DOMAIN timeline
    BY <1>2, <1>6
  <2>2. timeline[1] <= timeline[Len(timeline)]
    BY <1>7, <2>1 DEF Ordered
  <2> QED
    BY <2>1, <2>2 DEF Duration, Rel
<1>9. ReplayTypeOK
  <2>1. speed \in Nat /\ cleared = 0
    BY ReplayAssumption DEF ReplayInit
  <2> DEFINE d == Duration
  <2>2. \/ clock = Duration /\ position = Len(timeline)
        \/ clock = 0 /\ position = 0
    BY DEF ReplayInit
  <2>3. clock \in 0 .. d
    BY <1>8, <2>2
  <2>4. position \in 0 .. Len(timeline) /\ cleared \in 0 .. position
    BY <1>2, <1>6, <2>1, <2>2
  <2> QED
    BY <1>2, <1>6, <2>1, <2>3, <2>4 DEF ReplayTypeOK
<1>10. ReplayShowsTheMoment
  <2>1. folded = Slice(cleared, position)
    BY DEF ReplayInit
  <2>2. CASE speed = 0
    <3>1. clock = Duration /\ position = Len(timeline)
      BY <2>2 DEF ReplayInit
    <3>2. \A i \in DOMAIN timeline : Rel(i) <= Duration
      <4> SUFFICES ASSUME NEW i \in DOMAIN timeline PROVE Rel(i) <= Duration
        OBVIOUS
      <4>1. /\ timeline[i] \in Nat /\ timeline[1] \in Nat /\ timeline[Len(timeline)] \in Nat
            /\ timeline[i] <= timeline[Len(timeline)]
        BY <1>2, <1>6, <1>7 DEF Ordered
      <4> QED
        BY <4>1 DEF Rel, Duration
    <3>3. {i \in DOMAIN timeline : Rel(i) <= clock} = 1 .. position
      BY <1>2, <1>6, <3>1, <3>2
    <3> QED
      BY <1>2, <1>6, <2>1, <3>1, <3>3 DEF ReplayShowsTheMoment
  <2>3. CASE speed # 0
    <3>1. clock = 0 /\ position = 0
      BY <2>3 DEF ReplayInit
    <3> QED
      BY <2>1, <3>1 DEF ReplayShowsTheMoment
  <2> QED
    BY <2>2, <2>3
<1> QED
  BY <1>7, <1>9, <1>10 DEF ReplayInv

LEMMA MovedForward ==
    ASSUME ReplayInv, NEW time \in clock .. Duration, Forward(time),
           UNCHANGED <<timeline, speed>>
    PROVE  ReplayInv'
<1>1. ReplayTypeOK /\ Ordered /\ ReplayShowsTheMoment
  BY DEF ReplayInv
<1>2. Duration \in Nat /\ Duration' = Duration /\ clock \in Nat /\ time \in Nat
  BY <1>1, DurationIsNat DEF ReplayTypeOK, Duration, Rel
<1>3. \A i \in 1 .. position : Rel(i) <= time
  <2> SUFFICES ASSUME NEW i \in 1 .. position PROVE Rel(i) <= time
    OBVIOUS
  <2>1. position # 0 /\ Rel(i) <= clock
    BY <1>1 DEF ReplayShowsTheMoment, ReplayTypeOK
  <2>2. Rel(i) \in Int
    BY <1>1 DEF ReplayTypeOK, Rel
  <2> QED
    BY <1>2, <2>1, <2>2
<1>4. /\ position' \in position .. Len(timeline) /\ position' > 0
      /\ {i \in DOMAIN timeline : Rel(i) <= time} = 1 .. position'
  <2>1. position \in 0 .. Len(timeline) /\ position' = CaughtUp(position, time)
    BY <1>1 DEF ReplayTypeOK, Forward
  <2> QED
    BY <1>1, <1>2, <1>3, <2>1, CatchingUp
<1>5. folded' = Slice(cleared', position')
  <2>1. folded' = Slice(cleared, position) \o Slice(position, position') /\ cleared' = cleared
    BY <1>1 DEF Forward, ReplayShowsTheMoment
  <2>2. /\ cleared \in Nat /\ position \in Nat /\ position' \in Nat
        /\ cleared <= position /\ position <= position'
    BY <1>1, <1>4 DEF ReplayTypeOK
  <2> QED
    BY <2>1, <2>2, SlicesJoin
<1>6. clock' = time /\ cleared' = cleared
  BY DEF Forward
<1>7. ReplayTypeOK'
  BY <1>1, <1>2, <1>4, <1>6 DEF ReplayTypeOK
<1>8. Ordered'
  BY <1>1 DEF Ordered
<1>9. ReplayShowsTheMoment'
  <2>1. {i \in DOMAIN timeline' : Rel(i)' <= clock'} = 1 .. position'
    BY <1>4, <1>6 DEF Rel
  <2> QED
    BY <1>1, <1>4, <1>5, <2>1 DEF ReplayShowsTheMoment, ReplayTypeOK
<1> QED
  BY <1>7, <1>8, <1>9 DEF ReplayInv

LEMMA MovedBack ==
    ASSUME ReplayInv, NEW time \in 0 .. Duration, Rewind(time),
           UNCHANGED <<timeline, speed>>
    PROVE  ReplayInv'
<1>1. ReplayTypeOK /\ Ordered
  BY DEF ReplayInv
<1>2. Duration \in Nat /\ Duration' = Duration /\ time \in Nat
  BY <1>1, DurationIsNat DEF Duration, Rel
<1>3. /\ position' \in 0 .. Len(timeline) /\ position' > 0
      /\ {i \in DOMAIN timeline : Rel(i) <= time} = 1 .. position'
  <2>1. 0 \in 0 .. Len(timeline) /\ position' = CaughtUp(0, time)
    BY <1>1 DEF ReplayTypeOK, Rewind
  <2>2. \A i \in 1 .. 0 : Rel(i) <= time
    OBVIOUS
  <2> QED
    BY <1>1, <1>2, <2>1, <2>2, CatchingUp
<1>4. clock' = time /\ cleared' = 0 /\ folded' = Slice(cleared', position')
  BY DEF Rewind
<1>5. ReplayTypeOK'
  BY <1>1, <1>2, <1>3, <1>4 DEF ReplayTypeOK
<1>6. Ordered'
  BY <1>1 DEF Ordered
<1>7. ReplayShowsTheMoment'
  <2>1. {i \in DOMAIN timeline' : Rel(i)' <= clock'} = 1 .. position'
    BY <1>3, <1>4 DEF Rel
  <2> QED
    BY <1>3, <1>4, <2>1 DEF ReplayShowsTheMoment
<1> QED
  BY <1>5, <1>6, <1>7 DEF ReplayInv

LEMMA LesserOfTwo ==
    ASSUME NEW a \in Int, NEW b \in Int
    PROVE  /\ Min({a, b}) = IF a <= b THEN a ELSE b
           /\ Max({a, b}) = IF a >= b THEN a ELSE b
<1>1. \A x \in {a, b} : (\A y \in {a, b} : x <= y) <=> x = IF a <= b THEN a ELSE b
  OBVIOUS
<1>2. \A x \in {a, b} : (\A y \in {a, b} : x >= y) <=> x = IF a >= b THEN a ELSE b
  OBVIOUS
<1> QED
  BY <1>1, <1>2 DEF Min, Max

\* However the replay was moved, the screen shows the moment of the clock:
\* folded once, in time order, from the events up to it that were not cleared.
THEOREM ReplayShowsTheMomentAlways == ReplaySpec => []ReplayShowsTheMoment
<1>1. ReplayInit => ReplayInv
  BY ReplayStarts
<1>2. ReplayInv /\ [ReplayNext]_replayVars => ReplayInv'
  <2> SUFFICES ASSUME ReplayInv, [ReplayNext]_replayVars PROVE ReplayInv'
    OBVIOUS
  <2>1. /\ ReplayTypeOK /\ Ordered /\ ReplayShowsTheMoment
        /\ Duration \in Nat /\ clock \in 0 .. Duration /\ speed \in Nat
        /\ position \in 0 .. Len(timeline) /\ Len(timeline) \in Nat
    BY DurationIsNat DEF ReplayInv, ReplayTypeOK
  <2>2. CASE AdvanceClock(1)
    <3> DEFINE time == Min({clock + 1 * speed, Duration})
    <3>1. time \in clock .. Duration
      BY <2>1, LesserOfTwo
    <3>2. Forward(time) /\ UNCHANGED <<timeline, speed>>
      BY <2>2 DEF AdvanceClock
    <3> HIDE DEF time
    <3> QED
      BY <3>1, <3>2, MovedForward
  <2>3. ASSUME NEW delta \in Seconds, SeekBy(delta)
        PROVE  ReplayInv'
    <3> DEFINE from == Max({clock + delta, 0})
               target == Min({from, Duration})
    <3>1. delta \in Int
      BY ReplayAssumption
    <3>2. from = IF clock + delta >= 0 THEN clock + delta ELSE 0
      <4> DEFINE moved == clock + delta
      <4>1. moved \in Int
        BY <2>1, <3>1
      <4> HIDE DEF moved
      <4>2. Max({moved, 0}) = IF moved >= 0 THEN moved ELSE 0
        BY <4>1, LesserOfTwo
      <4> QED
        BY <4>2 DEF moved
    <3>3. target = IF from <= Duration THEN from ELSE Duration
      <4>1. from \in Int
        BY <2>1, <3>1, <3>2
      <4> HIDE DEF from
      <4>2. Min({from, Duration}) = IF from <= Duration THEN from ELSE Duration
        BY <2>1, <4>1, LesserOfTwo
      <4> QED
        BY <4>2 DEF target
    <3>4. target \in 0 .. Duration /\ (delta >= 0 => target \in clock .. Duration)
      <4> HIDE DEF from, target
      <4> QED
        BY <2>1, <3>1, <3>2, <3>3
    <3>5. /\ \/ delta >= 0 /\ Forward(target)
             \/ delta < 0 /\ target < clock /\ Rewind(target)
             \/ /\ folded' = Slice(0, position) /\ cleared' = 0
                /\ UNCHANGED <<position, clock>>
          /\ UNCHANGED <<timeline, speed>>
      BY <2>3 DEF SeekBy
    <3> HIDE DEF target
    <3>6. CASE delta >= 0 /\ Forward(target)
      BY <3>4, <3>5, <3>6, MovedForward
    <3>7. CASE Rewind(target)
      BY <3>4, <3>5, <3>7, MovedBack
    <3>8. CASE folded' = Slice(0, position) /\ cleared' = 0 /\ UNCHANGED <<position, clock>>
      <4>1. UNCHANGED timeline /\ UNCHANGED speed /\ Duration' = Duration
        BY <3>5 DEF Duration, Rel
      <4>2. ReplayTypeOK' /\ Ordered'
        BY <2>1, <3>8, <4>1 DEF ReplayTypeOK, Ordered
      <4>3. ReplayShowsTheMoment'
        BY <2>1, <3>8, <4>1 DEF ReplayShowsTheMoment, Rel
      <4> QED
        BY <4>2, <4>3 DEF ReplayInv
    <3> QED
      BY <3>5, <3>6, <3>7, <3>8
  <2>4. ASSUME NEW time \in {0, Duration}, SeekTo(time)
        PROVE  ReplayInv'
    <3>1. Min({time, Duration}) = time
      BY <2>1, LesserOfTwo
    <3>2. /\ \/ time \in clock .. Duration /\ Forward(time)
             \/ time \in 0 .. Duration /\ Rewind(time)
          /\ UNCHANGED <<timeline, speed>>
      BY <2>1, <2>4, <3>1 DEF SeekTo
    <3> QED
      BY <3>2, MovedForward, MovedBack
  <2>5. CASE Pause
    BY <2>1, <2>5
       DEF Pause, ReplayInv, ReplayTypeOK, Ordered, ReplayShowsTheMoment, Duration, Rel
  <2>6. CASE ClearScreen
    <3>1. /\ UNCHANGED timeline /\ UNCHANGED speed /\ UNCHANGED position /\ UNCHANGED clock
          /\ Duration' = Duration /\ cleared' = position /\ folded' = <<>>
      BY <2>6 DEF ClearScreen, Duration, Rel
    <3>2. Slice(position, position) = <<>>
      BY <2>1 DEF Slice
    <3>3. ReplayTypeOK' /\ Ordered'
      BY <2>1, <3>1 DEF ReplayTypeOK, Ordered
    <3>4. ReplayShowsTheMoment'
      BY <2>1, <3>1, <3>2 DEF ReplayShowsTheMoment, Rel
    <3> QED
      BY <3>3, <3>4 DEF ReplayInv
  <2>7. CASE UNCHANGED replayVars
    BY <2>1, <2>7
       DEF replayVars, ReplayInv, ReplayTypeOK, Ordered, ReplayShowsTheMoment, Duration, Rel
  <2>8. SeekTo(0) \/ SeekTo(Duration) => \E time \in {0, Duration} : SeekTo(time)
    OBVIOUS
  <2> QED
    BY <2>2, <2>3, <2>4, <2>5, <2>6, <2>7, <2>8 DEF ReplayNext
<1>3. ReplayInv => ReplayShowsTheMoment
  BY DEF ReplayInv
<1> QED
  BY <1>1, <1>2, <1>3, PTL DEF ReplaySpec

-----------------------------------------------------------------------------
(* Damage.  A damaged file is the one the writer left, cut off somewhere   *)
(* and with cells that no longer decode in place of some.  What a reader   *)
(* finds whole in it lies there as it was laid.                            *)

DCells == Cells \cup [kind : {"damaged"}, len : Nat]
                \cup [kind : {"badTrailer"}, offset : Nat]

\* F is what damage leaves of G.
DamageOf(F, G) ==
    /\ F \in Seq(DCells) /\ Len(F) \in HeadLen .. Len(G)
    /\ \A i \in 1 .. HeadLen : F[i] = MagicCell
    /\ \A i \in 1 .. Len(F) :
         \/ F[i] = G[i]
         \/ F[i] \in [kind : {"damaged"}, len : Nat]
         \/ F[i] \in [kind : {"badTrailer"}, offset : Nat] /\ G[i].kind = "trailer"

\* G is a layout with a tail, its events in order.
Whole(G, D, at, ev) ==
    /\ LaidOut(G, D, at, ev) /\ TailOf(G, at[Len(D)], EntriesOf(D, at))
    /\ Rising(ev[Len(D)])

\* The ends of the units of a layout, and the units, with their types.
Placed(G, D, at, ev) ==
    /\ G \in Seq(Cells) /\ Len(G) \in Nat /\ Len(D) \in Nat
    /\ HeadLen \in {0, 1} /\ PrefixLen = HeadLen
    /\ at[0] = HeadLen /\ ev[0] = <<>> /\ at[Len(D)] <= Len(G)
    /\ \A i \in 0 .. Len(D) : at[i] \in Nat /\ ev[i] \in Seq(Nat)
    /\ \A i \in 1 .. Len(D) :
         /\ i - 1 \in 0 .. Len(D)
         /\ D[i] \in Units /\ D[i].first \in 1 .. D[i].last
         /\ D[i].frameLen \in Nat \ {0}
         /\ Chunked => D[i].frameLen <= MaxChunk
         /\ Size(D[i]) = HeadLen + D[i].frameLen /\ Size(D[i]) \in Nat \ {0}
         /\ at[i] = at[i - 1] + Size(D[i])
         /\ ev[i] = ev[i - 1] \o EventsOf(D[i])
         /\ \A k \in 1 .. Size(D[i]) : G[at[i - 1] + k] = UnitCell(D[i], k)

LEMMA LayoutPlaced ==
    ASSUME NEW G, NEW D, NEW at, NEW ev, LaidOut(G, D, at, ev)
    PROVE  Placed(G, D, at, ev)
<1>1. /\ G \in Seq(Cells) /\ Len(G) \in Nat /\ Len(D) \in Nat /\ D \in Seq(Units)
      /\ at \in [0 .. Len(D) -> Nat] /\ ev \in [0 .. Len(D) -> Seq(Nat)]
      /\ Laid(G, D, at, ev)
  BY DEF LaidOut
<1>2. HeadLen \in {0, 1} /\ PrefixLen = HeadLen
  BY DEF HeadLen, PrefixLen
<1>3. ASSUME NEW i \in 1 .. Len(D)
      PROVE  /\ i - 1 \in 0 .. Len(D)
             /\ D[i] \in Units /\ D[i].frameLen \in Nat \ {0}
             /\ Size(D[i]) = HeadLen + D[i].frameLen /\ Size(D[i]) \in Nat \ {0}
  <2>1. D[i] \in Units /\ i - 1 \in 0 .. Len(D)
    BY <1>1
  <2> QED
    BY <1>2, <2>1 DEF Units, Size
<1> QED
  BY <1>1, <1>2, <1>3 DEF Laid, Placed

\* One of them.
UnitLies(G, D, at, ev, i) ==
    /\ i - 1 \in 0 .. Len(D) /\ i \in 0 .. Len(D)
    /\ at[i - 1] \in Nat /\ at[i] \in Nat
    /\ D[i] \in Units /\ D[i].first \in 1 .. D[i].last
    /\ D[i].frameLen \in Nat \ {0} /\ Size(D[i]) \in Nat \ {0}
    /\ Size(D[i]) = HeadLen + D[i].frameLen
    /\ at[i] = at[i - 1] + Size(D[i])
    /\ ev[i - 1] \in Seq(Nat) /\ ev[i] = ev[i - 1] \o EventsOf(D[i])
    /\ G[at[i - 1] + 1] = UnitCell(D[i], 1)

LEMMA PlacedUnit ==
    ASSUME NEW G, NEW D, NEW at, NEW ev, Placed(G, D, at, ev), NEW i \in 1 .. Len(D)
    PROVE  UnitLies(G, D, at, ev, i)
<1>1. /\ Len(D) \in Nat
      /\ \A j \in 0 .. Len(D) : at[j] \in Nat /\ ev[j] \in Seq(Nat)
      /\ \A k \in 1 .. Size(D[i]) : G[at[i - 1] + k] = UnitCell(D[i], k)
  BY DEF Placed
<1>2. /\ i - 1 \in 0 .. Len(D)
      /\ D[i] \in Units /\ D[i].first \in 1 .. D[i].last
      /\ D[i].frameLen \in Nat \ {0} /\ Size(D[i]) \in Nat \ {0}
      /\ Size(D[i]) = HeadLen + D[i].frameLen
      /\ at[i] = at[i - 1] + Size(D[i])
      /\ ev[i] = ev[i - 1] \o EventsOf(D[i])
  BY DEF Placed
<1>3. G[at[i - 1] + 1] = UnitCell(D[i], 1)
  <2>1. 1 \in 1 .. Size(D[i])
    BY <1>2
  <2> QED
    BY <1>1, <2>1
<1>4. i \in 0 .. Len(D)
  BY <1>1
<1>5. at[i - 1] \in Nat /\ at[i] \in Nat /\ ev[i - 1] \in Seq(Nat)
  BY <1>1, <1>2, <1>4
<1> QED
  BY <1>2, <1>3, <1>4, <1>5, Zenon DEF UnitLies

LEMMA EndsRise ==
    ASSUME NEW G, NEW D, NEW at, NEW ev, LaidOut(G, D, at, ev)
    PROVE  \A i, j \in 0 .. Len(D) : i < j => at[i] < at[j]
<1> DEFINE n == Len(D)
           S == {m \in 0 .. n : \A i \in 0 .. m : i < m => at[i] < at[m]}
<1>1. /\ n \in Nat /\ HeadLen \in {0, 1}
      /\ \A i \in 0 .. n : at[i] \in Nat
      /\ \A i \in 1 .. n : /\ i - 1 \in 0 .. n /\ at[i] = at[i - 1] + Size(D[i])
                           /\ D[i].frameLen \in Nat \ {0}
                           /\ Size(D[i]) = HeadLen + D[i].frameLen
  <2>1. Placed(G, D, at, ev)
    BY LayoutPlaced
  <2> QED
    BY <2>1 DEF Placed
<1>2. \A i \in 1 .. n : at[i - 1] < at[i]
  <2> SUFFICES ASSUME NEW i \in 1 .. n PROVE at[i - 1] < at[i]
    OBVIOUS
  <2>1. /\ at[i - 1] \in Nat /\ at[i] = at[i - 1] + Size(D[i])
        /\ D[i].frameLen \in Nat \ {0} /\ Size(D[i]) = HeadLen + D[i].frameLen
    BY <1>1
  <2> QED
    BY <1>1, <2>1
<1> HIDE DEF n
<1>3. 0 \in S
  BY <1>1
<1>4. ASSUME NEW m \in 0 .. n, m # n, m \in S
      PROVE  m + 1 \in S
  <2>1. m + 1 \in 1 .. n /\ m + 1 \in 0 .. n /\ (m + 1) - 1 = m
    BY <1>1, <1>4
  <2>2. at[m] < at[m + 1]
    BY <1>2, <2>1
  <2>3. ASSUME NEW i \in 0 .. m + 1, i < m + 1
        PROVE  at[i] < at[m + 1]
    <3>1. i = m \/ (i \in 0 .. m /\ i < m)
      BY <1>1, <2>3
    <3>2. at[i] \in Nat /\ at[m] \in Nat /\ at[m + 1] \in Nat
      BY <1>1, <2>1, <2>3
    <3> QED
      BY <1>4, <2>2, <3>1, <3>2
  <2> QED
    BY <2>1, <2>3
<1> HIDE DEF S
<1>5. 0 .. n \subseteq S
  BY <1>1, <1>3, <1>4, InductionUpTo
<1>6. ASSUME NEW i \in 0 .. n, NEW j \in 0 .. n, i < j
      PROVE  at[i] < at[j]
  <2>1. i \in 0 .. j
    BY <1>1, <1>6
  <2> QED
    BY <1>5, <1>6, <2>1 DEF S
<1> QED
  BY <1>6 DEF n

\* A cell of a layout behind the head is one of a unit.
LEMMA LaidCells ==
    ASSUME NEW G, NEW D, NEW at, NEW ev, LaidOut(G, D, at, ev),
           NEW p \in HeadLen + 1 .. at[Len(D)]
    PROVE  \E i \in 1 .. Len(D) :
             p \in at[i - 1] + 1 .. at[i] /\ G[p] = UnitCell(D[i], p - at[i - 1])
<1> DEFINE n == Len(D)
<1>1. /\ Len(G) \in Nat /\ n \in Nat /\ HeadLen \in {0, 1} /\ at[0] = HeadLen
      /\ at[n] <= Len(G) /\ at[n] \in Nat
      /\ \A i \in 0 .. n : at[i] \in Nat
      /\ \A i \in 1 .. n :
           /\ i - 1 \in 0 .. n /\ at[i] = at[i - 1] + Size(D[i])
           /\ Size(D[i]) \in Nat
           /\ \A k \in 1 .. Size(D[i]) : G[at[i - 1] + k] = UnitCell(D[i], k)
  <2>1. Placed(G, D, at, ev)
    BY LayoutPlaced
  <2>2. n \in 0 .. n
    BY <2>1 DEF Placed
  <2> QED
    BY <2>1, <2>2 DEF Placed
<1>2. p <= at[n] /\ p > at[0] /\ p \in Nat
  BY <1>1
<1> HIDE DEF n
<1> DEFINE S == {i \in 0 .. n : p <= at[i]}
<1>3. S \subseteq Nat /\ n \in S
  BY <1>1, <1>2
<1>4. PICK i \in S : \A j \in S : i <= j
  <2> HIDE DEF S
  <2> QED
    BY <1>3, FirstOf
<1>5. i \in 1 .. n /\ at[i] \in Nat /\ at[i - 1] \in Nat
  BY <1>1, <1>4
<1>6. ~(p <= at[i - 1])
  <2>1. i - 1 \in 0 .. n /\ ~(i <= i - 1)
    BY <1>1, <1>5
  <2> QED
    BY <1>4, <2>1
<1>7. p \in at[i - 1] + 1 .. at[i]
  BY <1>1, <1>4, <1>5, <1>6
<1>8. /\ at[i] = at[i - 1] + Size(D[i])
      /\ \A k \in 1 .. Size(D[i]) : G[at[i - 1] + k] = UnitCell(D[i], k)
  BY <1>1, <1>5
<1>9. p - at[i - 1] \in 1 .. Size(D[i]) /\ at[i - 1] + (p - at[i - 1]) = p
  <2> DEFINE a == at[i - 1]
             b == at[i]
             z == Size(D[i])
  <2>1. a \in Nat /\ b \in Nat /\ b = a + z /\ p \in a + 1 .. b
    BY <1>5, <1>7, <1>8
  <2>2. z \in Nat
    BY <1>1, <1>5
  <2> HIDE DEF a, b, z
  <2>3. p - a \in 1 .. z /\ a + (p - a) = p
    BY <2>1, <2>2
  <2> QED
    BY <2>3 DEF a, z
<1>10. G[p] = UnitCell(D[i], p - at[i - 1])
  <2> DEFINE k == p - at[i - 1]
  <2> HIDE DEF k
  <2>1. G[at[i - 1] + k] = UnitCell(D[i], k)
    BY <1>8, <1>9 DEF k
  <2> QED
    BY <1>9, <2>1 DEF k
<1> QED
  BY <1>5, <1>7, <1>10 DEF n

\* A cell behind the head that holds part of a unit is in a unit of the
\* layout, or in the beginning of one behind it.
LEMMA WhereUnitCellsLie ==
    ASSUME NEW G, NEW D, NEW at, NEW ev, Whole(G, D, at, ev),
           NEW p \in HeadLen + 1 .. Len(G), G[p].kind = "unit"
    PROVE  \/ \E i \in 1 .. Len(D) :
                p \in at[i - 1] + 1 .. at[i] /\ G[p] = UnitCell(D[i], p - at[i - 1])
           \/ \E u \in Units : /\ Begun(G, at[Len(D)], u)
                               /\ p > at[Len(D)] /\ G[p] = UnitCell(u, p - at[Len(D)])
<1> DEFINE n == Len(D)
<1>1. LaidOut(G, D, at, ev) /\ TailOf(G, at[n], EntriesOf(D, at))
  BY DEF Whole
<1>2. /\ Len(G) \in Nat /\ n \in Nat /\ HeadLen \in {0, 1} /\ at[0] = HeadLen
      /\ at[n] <= Len(G) /\ at[n] \in Nat
      /\ \A i \in 0 .. n : at[i] \in Nat
      /\ \A i \in 1 .. n :
           /\ i - 1 \in 0 .. n /\ at[i] = at[i - 1] + Size(D[i])
           /\ Size(D[i]) \in Nat
           /\ \A k \in 1 .. Size(D[i]) : G[at[i - 1] + k] = UnitCell(D[i], k)
  <2>1. Placed(G, D, at, ev)
    BY <1>1, LayoutPlaced
  <2>2. n \in 0 .. n
    BY <2>1 DEF Placed
  <2> QED
    BY <2>1, <2>2 DEF Placed
<1> HIDE DEF n
<1>3. CASE p <= at[n]
  <2>1. p \in HeadLen + 1 .. at[n]
    BY <1>2, <1>3
  <2> QED
    BY <1>1, <2>1, LaidCells DEF n
<1>4. CASE p > at[n]
  <2>1. Len(G) # at[n]
    BY <1>2, <1>4
  <2>2. CASE FooterBegun(G, at[n], EntriesOf(D, at))
    <3>1. p = at[n] + 1 \/ p = at[n] + 2
      BY <1>2, <1>4, <2>2 DEF FooterBegun
    <3>2. CASE p = at[n] + 1
      BY <2>2, <3>2 DEF FooterBegun, FooterBody
    <3>3. CASE p = at[n] + 2
      <4>1. Len(G) = at[n] + 2
        BY <1>2, <2>2, <3>3 DEF FooterBegun
      <4> QED
        BY <2>2, <3>3, <4>1 DEF FooterBegun, Trailer
    <3> QED
      BY <3>1, <3>2, <3>3
  <2>3. ASSUME NEW u \in Units, Begun(G, at[n], u)
        PROVE  G[p] = UnitCell(u, p - at[n])
    <3> DEFINE k == p - at[n]
    <3>1. k \in 1 .. Len(G) - at[n] /\ at[n] + k = p
      BY <1>2, <1>4
    <3> HIDE DEF k
    <3>2. G[at[n] + k] = UnitCell(u, k)
      BY <2>3, <3>1 DEF Begun
    <3> QED
      BY <3>1, <3>2 DEF k
  <2> QED
    BY <1>1, <1>4, <2>1, <2>2, <2>3 DEF TailOf, n
<1> QED
  BY <1>2, <1>3, <1>4

\* A frame found whole in what is left is that of a unit of the layout.
LEMMA WholeFrameIsLaid ==
    ASSUME NEW G, NEW D, NEW at, NEW ev, Whole(G, D, at, ev),
           NEW F, DamageOf(F, G), NEW p \in Int, p > HeadLen, NEW e \in Nat,
           e <= Len(F), WholeFrame(F, p, e)
    PROVE  \E i \in 1 .. Len(D) : p = at[i - 1] + PrefixLen + 1 /\ F[p].u = D[i]
<1> DEFINE n == Len(D)
           u == F[p].u
           f == u.frameLen
<1>1. LaidOut(G, D, at, ev)
  BY DEF Whole
<1>2. /\ Len(G) \in Nat /\ n \in Nat /\ HeadLen \in {0, 1} /\ PrefixLen = HeadLen
      /\ at[n] \in Nat /\ at[n] <= Len(G)
      /\ \A i \in 1 .. n : at[i - 1] \in Nat /\ D[i].frameLen \in Nat
  <2>1. Placed(G, D, at, ev)
    BY <1>1, LayoutPlaced
  <2>2. n \in 0 .. n
    BY <2>1 DEF Placed
  <2> QED
    BY <2>1, <2>2 DEF Placed
<1>3. /\ F \in Seq(DCells) /\ Len(F) \in Nat /\ Len(F) <= Len(G)
      /\ \A i \in 1 .. Len(F) : F[i].kind = "unit" => F[i] = G[i]
  <2>1. F \in Seq(DCells) /\ Len(F) \in Nat /\ Len(F) <= Len(G)
    BY <1>2 DEF DamageOf
  <2>2. ASSUME NEW i \in 1 .. Len(F), F[i].kind = "unit"
        PROVE  F[i] = G[i]
    BY <2>2 DEF DamageOf
  <2> QED
    BY <2>1, <2>2
<1>4. /\ p \in 1 .. Len(F) /\ F[p].kind = "unit" /\ F[p].k = PrefixLen + 1
      /\ p + f - 1 <= e
      /\ \A i \in 1 .. f : F[p + i - 1] = UnitCell(u, PrefixLen + i)
  BY DEF WholeFrame, FrameOpens
<1>5. G[p] = F[p] /\ p \in HeadLen + 1 .. Len(G)
  BY <1>2, <1>3, <1>4
<1>6. ASSUME NEW i \in 1 .. n, G[p] = UnitCell(D[i], p - at[i - 1])
      PROVE  p = at[i - 1] + PrefixLen + 1 /\ F[p].u = D[i]
  <2>1. F[p].k = p - at[i - 1] /\ F[p].u = D[i]
    BY <1>5, <1>6 DEF UnitCell
  <2> DEFINE a == at[i - 1]
  <2>2. a \in Nat /\ p - a = PrefixLen + 1
    BY <1>2, <1>4, <2>1
  <2> HIDE DEF a
  <2>3. p = a + PrefixLen + 1
    BY <1>2, <2>2
  <2> QED
    BY <2>1, <2>3 DEF a
<1>7. ASSUME NEW v \in Units, Begun(G, at[n], v), G[p] = UnitCell(v, p - at[n])
      PROVE  FALSE
  <2>1. F[p].k = p - at[n] /\ u = v
    BY <1>5, <1>7 DEF UnitCell
  <2>2. p = at[n] + PrefixLen + 1
    BY <1>2, <1>4, <2>1
  <2>3. f \in Nat /\ Size(v) = PrefixLen + f
    BY <2>1 DEF Units, Size
  <2> DEFINE c == at[n]
  <2>4. Len(G) < c + Size(v) /\ c \in Nat /\ p = c + PrefixLen + 1
    BY <1>2, <1>7, <2>2 DEF Begun
  <2>5. p + f - 1 <= Len(G)
    <3> HIDE DEF u, f
    <3> QED
      BY <1>2, <1>3, <1>4, <2>3
  <2> HIDE DEF u, f, c
  <2> QED
    BY <1>2, <2>3, <2>4, <2>5
<1>8. G[p].kind = "unit"
  BY <1>4, <1>5
<1>9. \/ \E i \in 1 .. n : G[p] = UnitCell(D[i], p - at[i - 1])
      \/ \E v \in Units : Begun(G, at[n], v) /\ G[p] = UnitCell(v, p - at[n])
  <2>1. p \in HeadLen + 1 .. Len(G)
    BY <1>5
  <2> QED
    BY <1>8, <2>1, WhereUnitCellsLie
<1> QED
  BY <1>6, <1>7, <1>9

\* The scan of a damaged file goes forward too.
LEMMA DamagedScanGoesOn ==
    ASSUME NEW G, NEW F, DamageOf(F, G), NEW N \in Nat, N <= Len(F)
    PROVE  GoesForward(F, N)
<1>1. F \in Seq(DCells) /\ Len(F) \in Nat
  BY DEF DamageOf
<1> SUFFICES ASSUME NEW p \in 1 .. N, UnitAt(F, p, N)
             PROVE  UnitEnd(F, p) + 1 \in p + 1 .. N + 1
  BY DEF GoesForward
<1>2. CASE Chunked
  <2> DEFINE f == LengthAt(F, p)
  <2>1. f \in 1 .. MaxChunk /\ p + f <= N /\ UnitEnd(F, p) = p + f
    BY <1>2 DEF UnitAt, ChunkAt, UnitEnd
  <2>2. f \in Nat \ {0}
    BY <2>1, FormatAssumption
  <2> HIDE DEF f
  <2> QED
    BY <2>1, <2>2
<1>3. CASE ~Chunked
  <2> DEFINE f == F[p].u.frameLen
  <2>1. F[p].kind = "unit" /\ p + f - 1 <= N /\ UnitEnd(F, p) = p + f - 1
    BY <1>3 DEF UnitAt, WholeFrame, FrameOpens, UnitEnd
  <2>2. F[p] \in DCells
    BY <1>1
  <2>3. f \in Nat \ {0}
    BY <2>1, <2>2 DEF DCells, Cells, Units
  <2> HIDE DEF f
  <2> QED
    BY <2>1, <2>3
<1> QED
  BY <1>2, <1>3

\* No damaged length points further than the cell itself.
LengthsAreZero(F) == \A q \in 1 .. Len(F) : F[q].kind = "damaged" => F[q].len = 0

\* Where the scan decodes a unit, one was laid; it goes on behind it, and right
\* behind it when no length misleads.
LEMMA UnitFoundIsLaid ==
    ASSUME NEW G, NEW D, NEW at, NEW ev, Whole(G, D, at, ev),
           NEW F, DamageOf(F, G), NEW N \in Nat, N <= Len(F),
           NEW p \in HeadLen + 1 .. N, UnitAt(F, p, N)
    PROVE  \E i \in 1 .. Len(D) :
             /\ p = at[i - 1] + 1 /\ UnitOf(F, p) = D[i]
             /\ UnitEnd(F, p) \in at[i] .. N
             /\ LengthsAreZero(F) => UnitEnd(F, p) = at[i]
<1> DEFINE n == Len(D)
<1>1. Placed(G, D, at, ev)
  BY LayoutPlaced DEF Whole
<1>2. /\ HeadLen \in {0, 1} /\ PrefixLen = HeadLen /\ Len(F) \in Nat
      /\ \A i \in 1 .. Len(F) : F[i].kind = "unit" => F[i] = G[i]
  <2>1. ASSUME NEW i \in 1 .. Len(F), F[i].kind = "unit"
        PROVE  F[i] = G[i]
    BY <2>1 DEF DamageOf
  <2> QED
    BY <1>1, <2>1 DEF DamageOf, Placed
<1>3. CASE Chunked
  <2> DEFINE f == LengthAt(F, p)
  <2>1. /\ f \in 1 .. MaxChunk /\ p + f <= N /\ WholeFrame(F, p + 1, p + f)
        /\ UnitEnd(F, p) = p + f /\ PrefixLen = 1 /\ HeadLen = 1
    BY <1>3 DEF UnitAt, ChunkAt, UnitEnd, PrefixLen, HeadLen
  <2>2. f \in Nat \ {0} /\ p \in Nat
    BY <1>2, <2>1, FormatAssumption
  <2>3. /\ p + 1 \in Int /\ p + 1 > HeadLen /\ p + f \in Nat /\ p + f <= Len(F)
    <3> HIDE DEF f
    <3> QED
      BY <1>2, <2>1, <2>2
  <2>4. PICK i \in 1 .. n : p + 1 = at[i - 1] + PrefixLen + 1 /\ F[p + 1].u = D[i]
    <3> DEFINE e == p + f
               q == p + 1
    <3>1. q \in Int /\ q > HeadLen /\ e \in Nat /\ e <= Len(F) /\ WholeFrame(F, q, e)
      BY <2>1, <2>3
    <3> HIDE DEF e, q
    <3>2. \E i \in 1 .. n : q = at[i - 1] + PrefixLen + 1 /\ F[q].u = D[i]
      BY <3>1, WholeFrameIsLaid
    <3> QED
      BY <3>2 DEF q
  <2>5. /\ i - 1 \in 0 .. n /\ at[i - 1] \in Nat /\ at[i] = at[i - 1] + Size(D[i])
        /\ Size(D[i]) = HeadLen + D[i].frameLen /\ D[i].frameLen \in Nat \ {0}
        /\ G[at[i - 1] + 1] = UnitCell(D[i], 1)
    <3>1. UnitLies(G, D, at, ev, i)
      BY <1>1, PlacedUnit
    <3> QED
      BY <3>1 DEF UnitLies
  <2>6. p + 1 + D[i].frameLen - 1 <= p + f
    BY <2>1, <2>4 DEF WholeFrame
  <2> DEFINE a == at[i - 1]
             z == D[i].frameLen
  <2>7. a \in Nat /\ z \in Nat \ {0} /\ at[i] = a + (1 + z) /\ p + 1 = a + 1 + 1
    BY <2>1, <2>4, <2>5
  <2>8. p = a + 1 /\ p + f \in at[i] .. N
    <3>1. p + f <= N /\ p + 1 + z - 1 <= p + f
      BY <2>1, <2>6
    <3> HIDE DEF a, z, f
    <3> QED
      BY <2>2, <2>7, <3>1
  <2>9. ASSUME LengthsAreZero(F)
        PROVE  p + f = at[i]
    <3>1. p \in 1 .. Len(F)
      BY <1>2, <2>2, <2>3
    <3>2. F[p].kind = "unit" /\ F[p].k = 1 /\ f = F[p].u.frameLen
      BY <2>2, <2>9, <3>1 DEF LengthAt, LengthsAreZero
    <3>3. F[p] = G[p]
      BY <1>2, <3>1, <3>2
    <3>4. f = z
      BY <2>5, <2>8, <3>2, <3>3 DEF UnitCell
    <3> HIDE DEF a, z, f
    <3> QED
      BY <2>7, <2>8, <3>4
  <2>10. UnitOf(F, p) = D[i]
    BY <2>1, <2>4 DEF UnitOf
  <2> QED
    BY <2>1, <2>8, <2>9, <2>10
<1>4. CASE ~Chunked
  <2>1. /\ WholeFrame(F, p, N) /\ UnitEnd(F, p) = p + F[p].u.frameLen - 1
        /\ PrefixLen = 0 /\ HeadLen = 0
    BY <1>4 DEF UnitAt, UnitEnd, PrefixLen, HeadLen
  <2>2. p \in Int /\ p > HeadLen
    BY <2>1
  <2>3. PICK i \in 1 .. n : p = at[i - 1] + PrefixLen + 1 /\ F[p].u = D[i]
    BY <2>1, <2>2, WholeFrameIsLaid
  <2>4. /\ i - 1 \in 0 .. n /\ at[i - 1] \in Nat /\ at[i] = at[i - 1] + Size(D[i])
        /\ Size(D[i]) = HeadLen + D[i].frameLen /\ D[i].frameLen \in Nat \ {0}
    <3>1. UnitLies(G, D, at, ev, i)
      BY <1>1, PlacedUnit
    <3> QED
      BY <3>1 DEF UnitLies
  <2>5. p + D[i].frameLen - 1 <= N
    BY <2>1, <2>3 DEF WholeFrame
  <2> DEFINE a == at[i - 1]
             z == D[i].frameLen
  <2>6. a \in Nat /\ z \in Nat \ {0} /\ at[i] = a + z /\ p = a + 1
    BY <2>1, <2>3, <2>4
  <2>7. p = a + 1 /\ p + z - 1 = at[i] /\ at[i] \in at[i] .. N
    <3> HIDE DEF a
    <3>1. z \in Nat \ {0} /\ p + z - 1 <= N
      BY <2>4, <2>5
    <3> HIDE DEF z
    <3> QED
      BY <2>6, <3>1
  <2>8. UnitOf(F, p) = D[i]
    <3>1. p + PrefixLen = p
      BY <2>1
    <3> QED
      BY <2>3, <3>1 DEF UnitOf
  <2> QED
    BY <2>1, <2>3, <2>7, <2>8
<1> QED
  BY <1>3, <1>4

-----------------------------------------------------------------------------
(* Rising sequences.                                                       *)

\* One after the other, when the second goes on above the first.
LEMMA RisingConcat ==
    ASSUME NEW a \in Seq(Nat), NEW b \in Seq(Nat), Rising(a), Rising(b),
           \A x \in ToSet(a), y \in ToSet(b) : x < y
    PROVE  /\ a \o b \in Seq(Nat) /\ Rising(a \o b)
           /\ ToSet(a \o b) = ToSet(a) \cup ToSet(b)
<1> DEFINE c == a \o b
           n == Len(a)
           m == Len(b)
<1>1. /\ n \in Nat /\ m \in Nat /\ DOMAIN a = 1 .. n /\ DOMAIN b = 1 .. m
      /\ \A i \in 1 .. n : a[i] \in Nat
      /\ \A i \in 1 .. m : b[i] \in Nat
  OBVIOUS
<1>2. /\ c \in Seq(Nat) /\ DOMAIN c = 1 .. n + m
      /\ \A i \in 1 .. n + m : c[i] = IF i <= n THEN a[i] ELSE b[i - n]
  BY ConcatProperties
<1> HIDE DEF c, n, m
<1>3. /\ \A i \in 1 .. n : i \in 1 .. n + m /\ c[i] = a[i]
      /\ \A i \in 1 .. m : n + i \in 1 .. n + m /\ c[n + i] = b[i]
  <2>1. ASSUME NEW i \in 1 .. n
        PROVE  i \in 1 .. n + m /\ c[i] = a[i]
    BY <1>1, <1>2
  <2>2. ASSUME NEW i \in 1 .. m
        PROVE  n + i \in 1 .. n + m /\ c[n + i] = b[i]
    <3>1. n + i \in 1 .. n + m /\ ~(n + i <= n) /\ (n + i) - n = i
      BY <1>1
    <3> QED
      BY <1>2, <3>1
  <2> QED
    BY <2>1, <2>2
<1>4. \A i \in 1 .. n + m : i \in 1 .. n \/ \E k \in 1 .. m : i = n + k
  <2> SUFFICES ASSUME NEW i \in 1 .. n + m, i \notin 1 .. n
               PROVE  \E k \in 1 .. m : i = n + k
    OBVIOUS
  <2>1. i - n \in 1 .. m /\ i = n + (i - n)
    BY <1>1
  <2> QED
    BY <2>1
<1>5. /\ \A i \in 1 .. n : a[i] \in ToSet(a)
      /\ \A i \in 1 .. m : b[i] \in ToSet(b)
  BY <1>1 DEF ToSet
<1>6. Rising(c)
  <2> SUFFICES ASSUME NEW i \in 1 .. n + m, NEW j \in 1 .. n + m, i < j
               PROVE  c[i] < c[j]
    BY <1>2 DEF Rising
  <2>1. CASE j \in 1 .. n
    <3>1. i \in 1 .. n
      BY <1>1, <2>1
    <3> QED
      BY <1>1, <1>3, <2>1, <3>1 DEF Rising
  <2>2. ASSUME i \in 1 .. n, NEW l \in 1 .. m, j = n + l
        PROVE  c[i] < c[j]
    BY <1>3, <1>5, <2>2
  <2>3. ASSUME NEW k \in 1 .. m, i = n + k, NEW l \in 1 .. m, j = n + l
        PROVE  c[i] < c[j]
    <3>1. k < l
      BY <1>1, <2>3
    <3>2. b[k] < b[l]
      BY <1>1, <3>1 DEF Rising
    <3> QED
      BY <1>3, <2>3, <3>2
  <2> QED
    BY <1>4, <2>1, <2>2, <2>3
<1>7. ToSet(c) = ToSet(a) \cup ToSet(b)
  <2>1. /\ ToSet(a) = {a[i] : i \in 1 .. n} /\ ToSet(b) = {b[i] : i \in 1 .. m}
        /\ ToSet(c) = {c[i] : i \in 1 .. n + m}
    BY <1>1, <1>2 DEF ToSet
  <2>2. ASSUME NEW x \in ToSet(c)
        PROVE  x \in ToSet(a) \cup ToSet(b)
    <3>1. PICK i \in 1 .. n + m : x = c[i]
      BY <2>1
    <3> QED
      BY <1>3, <1>4, <1>5, <3>1
  <2>3. ASSUME NEW x \in ToSet(a)
        PROVE  x \in ToSet(c)
    BY <1>3, <2>1
  <2>4. ASSUME NEW x \in ToSet(b)
        PROVE  x \in ToSet(c)
    BY <1>3, <2>1
  <2> QED
    BY <2>2, <2>3, <2>4
<1> QED
  BY <1>2, <1>6, <1>7 DEF c

\* The events of a unit.
LEMMA EventsRise ==
    ASSUME NEW u \in Units, u.first \in 1 .. u.last
    PROVE  /\ EventsOf(u) \in Seq(Nat) /\ Rising(EventsOf(u))
           /\ ToSet(EventsOf(u)) = u.first .. u.last
<1> DEFINE s == EventsOf(u)
           c == Count(u)
           f == u.first
<1>1. /\ s \in Seq(Nat) /\ Len(s) = c /\ c \in Nat \ {0}
      /\ \A i \in 1 .. c : s[i] = f + i - 1
  BY UnitEvents
<1>2. f \in Nat /\ u.last \in Nat /\ u.last = f + c - 1
  BY DEF Units, Count
<1> HIDE DEF s, c, f
<1>3. DOMAIN s = 1 .. c
  BY <1>1
<1>4. Rising(s)
  BY <1>1, <1>2, <1>3 DEF Rising
<1>5. \A y \in f .. u.last : y - f + 1 \in 1 .. c /\ y = f + (y - f + 1) - 1
  BY <1>1, <1>2
<1>6. \A i \in 1 .. c : s[i] \in f .. u.last
  BY <1>1, <1>2
<1>7. ToSet(s) = {s[i] : i \in 1 .. c}
  BY <1>3 DEF ToSet
<1>8. \A y \in f .. u.last : \E i \in 1 .. c : s[i] = y
  BY <1>1, <1>5
<1>9. ToSet(s) = f .. u.last
  BY <1>6, <1>7, <1>8
<1> QED
  BY <1>1, <1>4, <1>9 DEF s, f

\* A rising sequence cannot be as long as another that holds all it holds
\* without being the same.
LEMMA RisingSame ==
    ASSUME NEW s \in Seq(Nat), NEW t \in Seq(Nat), Rising(s), Rising(t),
           ToSet(t) \subseteq ToSet(s), Len(t) >= Len(s)
    PROVE  t = s
<1> DEFINE n == Len(s)
           m == Len(t)
           f == [j \in 1 .. m |-> CHOOSE i \in 1 .. n : s[i] = t[j]]
<1>1. /\ n \in Nat /\ m \in Nat /\ m >= n /\ DOMAIN s = 1 .. n /\ DOMAIN t = 1 .. m
      /\ \A i \in 1 .. n : s[i] \in Nat
      /\ \A i \in 1 .. m : t[i] \in Nat
  OBVIOUS
<1> HIDE DEF n, m
<1>2. \A j \in 1 .. m : \E i \in 1 .. n : s[i] = t[j]
  <2>1. /\ ToSet(s) = {s[i] : i \in 1 .. n} /\ ToSet(t) = {t[i] : i \in 1 .. m}
    BY <1>1 DEF ToSet
  <2> QED
    BY <2>1
<1>3. \A j \in 1 .. m : f[j] \in 1 .. n /\ s[f[j]] = t[j]
  BY <1>2
<1> HIDE DEF f
<1>4. \A j, k \in 1 .. m : j < k => f[j] < f[k]
  <2> SUFFICES ASSUME NEW j \in 1 .. m, NEW k \in 1 .. m, j < k, f[k] <= f[j]
               PROVE  FALSE
    BY <1>1, <1>3
  <2>1. t[j] < t[k]
    BY <1>1 DEF Rising
  <2>2. f[k] = f[j] \/ f[k] < f[j]
    BY <1>3
  <2>3. f[k] < f[j] => s[f[k]] < s[f[j]]
    BY <1>1, <1>3 DEF Rising
  <2> QED
    BY <1>1, <1>3, <2>1, <2>2, <2>3
<1>5. \A j \in 1 .. m : f[j] >= j
  <2> DEFINE G == {j \in 0 .. m : j = 0 \/ f[j] >= j}
  <2>1. 0 \in G
    BY <1>1
  <2>2. ASSUME NEW j \in 0 .. m, j # m, j \in G
        PROVE  j + 1 \in G
    <3>1. j + 1 \in 1 .. m
      BY <1>1, <2>2
    <3>2. CASE j = 0
      BY <1>3, <3>1, <3>2
    <3>3. CASE j # 0
      <4>1. j \in 1 .. m /\ f[j] >= j
        BY <1>1, <2>2, <3>3
      <4>2. f[j] < f[j + 1]
        BY <1>1, <1>4, <3>1, <4>1
      <4>3. f[j] \in Nat /\ f[j + 1] \in Nat
        BY <1>3, <3>1, <4>1
      <4>4. f[j + 1] >= j + 1
        BY <4>1, <4>2, <4>3
      <4> QED
        BY <3>1, <4>4
    <3> QED
      BY <3>2, <3>3
  <2> HIDE DEF G
  <2>3. 0 .. m \subseteq G
    BY <1>1, <2>1, <2>2, InductionUpTo
  <2> QED
    BY <2>3 DEF G
<1>6. m = n
  <2>1. CASE m = 0
    BY <1>1, <2>1
  <2>2. CASE m # 0
    <3>1. m \in 1 .. m
      BY <1>1, <2>2
    <3>2. f[m] \in 1 .. n /\ f[m] >= m
      BY <1>3, <1>5, <3>1
    <3> QED
      BY <1>1, <3>2
  <2> QED
    BY <2>1, <2>2
<1>7. \A j \in 1 .. m : f[j] <= j
  <2> DEFINE G == {k \in 0 .. m : k = m \/ f[m - k] <= m - k}
  <2>1. 0 \in G
    <3>1. CASE m = 0
      BY <3>1
    <3>2. CASE m # 0
      <4>1. m \in 1 .. m
        BY <1>1, <3>2
      <4>2. f[m] <= m
        BY <1>1, <1>3, <1>6, <4>1
      <4>3. m - 0 = m /\ 0 \in 0 .. m
        BY <1>1
      <4> QED
        BY <4>2, <4>3
    <3> QED
      BY <3>1, <3>2
  <2>2. ASSUME NEW k \in 0 .. m, k # m, k \in G
        PROVE  k + 1 \in G
    <3> DEFINE i == m - k
    <3>1. /\ i \in 1 .. m /\ f[i] <= i /\ m - (k + 1) = i - 1 /\ k + 1 \in 0 .. m
          /\ (k + 1 = m <=> i = 1)
      BY <1>1, <2>2
    <3> HIDE DEF i
    <3>2. CASE i = 1
      BY <3>1, <3>2
    <3>3. CASE i # 1
      <4>1. i - 1 \in 1 .. m /\ i - 1 < i
        BY <1>1, <3>1, <3>3
      <4>2. f[i - 1] < f[i] /\ f[i - 1] \in Nat /\ f[i] \in Nat
        BY <1>3, <1>4, <3>1, <4>1
      <4>3. f[i - 1] <= i - 1
        BY <3>1, <4>1, <4>2
      <4> QED
        BY <3>1, <4>3
    <3> QED
      BY <3>2, <3>3
  <2> HIDE DEF G
  <2>3. 0 .. m \subseteq G
    BY <1>1, <2>1, <2>2, InductionUpTo
  <2>4. ASSUME NEW j \in 1 .. m
        PROVE  f[j] <= j
    <3>1. m - j \in 0 .. m /\ m - j # m /\ m - (m - j) = j
      BY <1>1
    <3>2. m - j \in G
      BY <2>3, <3>1
    <3> QED
      BY <3>1, <3>2 DEF G
  <2> QED
    BY <2>4
<1>8. \A j \in 1 .. m : t[j] = s[j]
  <2> SUFFICES ASSUME NEW j \in 1 .. m PROVE t[j] = s[j]
    OBVIOUS
  <2>1. f[j] >= j /\ f[j] <= j /\ f[j] \in Nat /\ s[f[j]] = t[j]
    BY <1>3, <1>5, <1>7
  <2>2. f[j] = j
    BY <1>1, <2>1
  <2> QED
    BY <2>1, <2>2
<1> QED
  BY <1>1, <1>6, <1>8, SeqEqual DEF n, m

\* Two parts of a rising sequence.
LEMMA RisingParts ==
    ASSUME NEW a \in Seq(Nat), NEW b \in Seq(Nat), Rising(a \o b)
    PROVE  /\ Rising(a) /\ ToSet(a \o b) = ToSet(a) \cup ToSet(b)
           /\ \A x \in ToSet(a), y \in ToSet(b) : x < y
<1> DEFINE c == a \o b
           n == Len(a)
           m == Len(b)
<1>1. /\ n \in Nat /\ m \in Nat /\ DOMAIN a = 1 .. n /\ DOMAIN b = 1 .. m
  OBVIOUS
<1>2. /\ DOMAIN c = 1 .. n + m
      /\ \A i \in 1 .. n + m : c[i] = IF i <= n THEN a[i] ELSE b[i - n]
  BY ConcatProperties
<1>3. Rising(c)
  OBVIOUS
<1> HIDE DEF c, n, m
<1>4. /\ \A i \in 1 .. n : i \in 1 .. n + m /\ c[i] = a[i]
      /\ \A i \in 1 .. m : n + i \in 1 .. n + m /\ c[n + i] = b[i]
  <2>1. ASSUME NEW i \in 1 .. n
        PROVE  i \in 1 .. n + m /\ c[i] = a[i]
    BY <1>1, <1>2
  <2>2. ASSUME NEW i \in 1 .. m
        PROVE  n + i \in 1 .. n + m /\ c[n + i] = b[i]
    <3>1. n + i \in 1 .. n + m /\ ~(n + i <= n) /\ (n + i) - n = i
      BY <1>1
    <3> QED
      BY <1>2, <3>1
  <2> QED
    BY <2>1, <2>2
<1>5. \A i \in 1 .. n + m : i \in 1 .. n \/ \E k \in 1 .. m : i = n + k
  <2> SUFFICES ASSUME NEW i \in 1 .. n + m, i \notin 1 .. n
               PROVE  \E k \in 1 .. m : i = n + k
    OBVIOUS
  <2>1. i - n \in 1 .. m /\ i = n + (i - n)
    BY <1>1
  <2> QED
    BY <2>1
<1>6. /\ ToSet(a) = {a[i] : i \in 1 .. n} /\ ToSet(b) = {b[i] : i \in 1 .. m}
      /\ ToSet(c) = {c[i] : i \in 1 .. n + m}
  BY <1>1, <1>2 DEF ToSet
<1>7. Rising(a)
  BY <1>1, <1>2, <1>3, <1>4 DEF Rising
<1>8. ToSet(c) = ToSet(a) \cup ToSet(b)
  <2>1. ASSUME NEW x \in ToSet(c)
        PROVE  x \in ToSet(a) \cup ToSet(b)
    <3>1. PICK i \in 1 .. n + m : x = c[i]
      BY <1>6
    <3>2. i \in 1 .. n \/ \E k \in 1 .. m : i = n + k
      BY <1>5
    <3> QED
      BY <1>4, <1>6, <3>1, <3>2
  <2>2. ASSUME NEW x \in ToSet(a)
        PROVE  x \in ToSet(c)
    BY <1>4, <1>6
  <2>3. ASSUME NEW x \in ToSet(b)
        PROVE  x \in ToSet(c)
    BY <1>4, <1>6
  <2> QED
    BY <2>1, <2>2, <2>3
<1>9. ASSUME NEW x \in ToSet(a), NEW y \in ToSet(b)
      PROVE  x < y
  <2>1. PICK i \in 1 .. n : x = a[i]
    BY <1>6
  <2>2. PICK k \in 1 .. m : y = b[k]
    BY <1>6
  <2>3. i \in DOMAIN c /\ n + k \in DOMAIN c /\ i < n + k
    BY <1>1, <1>2, <1>4
  <2>4. c[i] < c[n + k]
    BY <1>3, <2>3 DEF Rising
  <2> QED
    BY <1>4, <2>1, <2>2, <2>4
<1> QED
  BY <1>7, <1>8, <1>9 DEF c

\* The events of unit i.
Spans(D, i) == D[i].first .. D[i].last

\* The units of a layout whose events rise: theirs rise from unit to unit.
LEMMA UnitsRise ==
    ASSUME NEW G, NEW D, NEW at, NEW ev, Whole(G, D, at, ev)
    PROVE  /\ \A i \in 1 .. Len(D) : /\ EventsOf(D[i]) \in Seq(Nat) /\ Rising(EventsOf(D[i]))
                                     /\ ToSet(EventsOf(D[i])) = Spans(D, i)
                                     /\ Spans(D, i) \subseteq ToSet(ev[Len(D)])
           /\ \A i, j \in 1 .. Len(D) : i < j => \A x \in Spans(D, i), y \in Spans(D, j) : x < y
<1> DEFINE n == Len(D)
           S == {m \in 0 .. n : Rising(ev[m]) =>
                   /\ \A i \in 1 .. m : Spans(D, i) \subseteq ToSet(ev[m])
                   /\ \A i, j \in 1 .. m : i < j =>
                         \A x \in Spans(D, i), y \in Spans(D, j) : x < y}
<1>1. Placed(G, D, at, ev) /\ Rising(ev[n])
  BY LayoutPlaced DEF Whole
<1>2. /\ n \in Nat /\ \A i \in 0 .. n : ev[i] \in Seq(Nat)
      /\ \A i \in 1 .. n : /\ i - 1 \in 0 .. n /\ ev[i] = ev[i - 1] \o EventsOf(D[i])
  BY <1>1 DEF Placed
<1>3. ASSUME NEW i \in 1 .. n
      PROVE  /\ EventsOf(D[i]) \in Seq(Nat) /\ Rising(EventsOf(D[i]))
             /\ ToSet(EventsOf(D[i])) = Spans(D, i)
  <2>1. D[i] \in Units /\ D[i].first \in 1 .. D[i].last
    BY <1>1 DEF Placed
  <2> QED
    BY <2>1, EventsRise DEF Spans
<1> HIDE DEF n
<1>4. 0 \in S
  BY <1>2
<1>5. ASSUME NEW m \in 0 .. n, m # n, m \in S
      PROVE  m + 1 \in S
  <2>1. m + 1 \in 1 .. n /\ (m + 1) - 1 = m /\ m + 1 \in 0 .. n
    BY <1>2, <1>5
  <2> DEFINE k == m + 1
             e == EventsOf(D[k])
  <2>2. ev[k] = ev[m] \o e /\ e \in Seq(Nat) /\ ToSet(e) = Spans(D, k) /\ ev[m] \in Seq(Nat)
    BY <1>2, <1>3, <2>1
  <2>3. ASSUME Rising(ev[k])
        PROVE  /\ \A i \in 1 .. k : Spans(D, i) \subseteq ToSet(ev[k])
               /\ \A i, j \in 1 .. k : i < j => \A x \in Spans(D, i), y \in Spans(D, j) : x < y
    <3>0. Rising(ev[m] \o e)
      BY <2>2, <2>3
    <3>1. /\ Rising(ev[m]) /\ ToSet(ev[m] \o e) = ToSet(ev[m]) \cup ToSet(e)
          /\ \A x \in ToSet(ev[m]), y \in ToSet(e) : x < y
      <4> DEFINE a == ev[m]
      <4>1. a \in Seq(Nat) /\ e \in Seq(Nat) /\ Rising(a \o e)
        BY <2>2, <3>0
      <4> HIDE DEF a, e
      <4>2. /\ Rising(a) /\ ToSet(a \o e) = ToSet(a) \cup ToSet(e)
            /\ \A x \in ToSet(a), y \in ToSet(e) : x < y
        BY <4>1, RisingParts
      <4> QED
        BY <4>2 DEF a
    <3> HIDE DEF e
    <3>2. /\ ToSet(ev[k]) = ToSet(ev[m]) \cup Spans(D, k)
          /\ \A x \in ToSet(ev[m]), y \in Spans(D, k) : x < y
      BY <2>2, <3>1
    <3>3. \A i \in 1 .. k : i = k \/ i \in 1 .. m
      BY <2>1
    <3>4. /\ \A i \in 1 .. m : Spans(D, i) \subseteq ToSet(ev[m])
          /\ \A i, j \in 1 .. m : i < j => \A x \in Spans(D, i), y \in Spans(D, j) : x < y
      BY <1>5, <3>1
    <3>5. \A i \in 1 .. k : Spans(D, i) \subseteq ToSet(ev[k])
      BY <3>2, <3>3, <3>4
    <3>6. ASSUME NEW i \in 1 .. k, NEW j \in 1 .. k, i < j,
                 NEW x \in Spans(D, i), NEW y \in Spans(D, j)
          PROVE  x < y
      <4>1. i \in 1 .. m /\ (j = k \/ j \in 1 .. m)
        BY <2>1, <3>6
      <4>2. j = k => x < y
        BY <3>2, <3>4, <3>6, <4>1
      <4>3. j \in 1 .. m => x < y
        BY <3>4, <3>6, <4>1
      <4> QED
        BY <4>1, <4>2, <4>3
    <3> QED
      BY <3>5, <3>6
  <2> QED
    BY <2>1, <2>3
<1> HIDE DEF S
<1>6. n \in S
  <2>1. 0 .. n \subseteq S
    BY <1>2, <1>4, <1>5, InductionUpTo
  <2> QED
    BY <1>2, <2>1
<1> QED
  BY <1>1, <1>3, <1>6 DEF S, n

-----------------------------------------------------------------------------
(* What a scan of a damaged file reads.                                    *)

\* Each event of s is one of a unit that lies at p or behind.
From(D, at, s, p) ==
    \A x \in ToSet(s) : \E i \in 1 .. Len(D) : at[i - 1] + 1 >= p /\ x \in Spans(D, i)

\* The scan from p on: rising events of units that lie there.
ReadsFrom(D, at, s, p) == s \in Seq(Nat) /\ Rising(s) /\ From(D, at, s, p)

LEMMA NothingRead == \A D, at, p : ReadsFrom(D, at, <<>>, p)
<1>1. ToSet(<<>>) = {} /\ Rising(<<>>) /\ <<>> \in Seq(Nat)
  BY DEF ToSet, Rising
<1> QED
  BY <1>1 DEF ReadsFrom, From

\* A unit and what is read behind it.
LEMMA ReadsUnit ==
    ASSUME NEW G, NEW D, NEW at, NEW ev, Whole(G, D, at, ev), NEW i \in 1 .. Len(D),
           NEW s, NEW q \in Nat, q > at[i], ReadsFrom(D, at, s, q)
    PROVE  /\ ReadsFrom(D, at, EventsOf(D[i]) \o s, at[i - 1] + 1)
           /\ ToSet(EventsOf(D[i]) \o s) = Spans(D, i) \cup ToSet(s)
<1> DEFINE n == Len(D)
           e == EventsOf(D[i])
           p == at[i - 1] + 1
<1>1. /\ e \in Seq(Nat) /\ Rising(e) /\ ToSet(e) = Spans(D, i)
      /\ \A j \in 1 .. n : i < j => \A x \in Spans(D, i), y \in Spans(D, j) : x < y
  BY UnitsRise
<1>2. /\ n \in Nat /\ i - 1 \in 0 .. n /\ \A j \in 0 .. n : at[j] \in Nat
      /\ \A j, k \in 0 .. n : j < k => at[j] < at[k]
      /\ i \in 0 .. n /\ \A j \in 1 .. n : j - 1 \in 0 .. n
  <2>1. LaidOut(G, D, at, ev) /\ Placed(G, D, at, ev)
    BY LayoutPlaced DEF Whole
  <2>2. \A j, k \in 0 .. n : j < k => at[j] < at[k]
    BY <2>1, EndsRise
  <2>3. n \in Nat /\ \A j \in 0 .. n : at[j] \in Nat
    BY <2>1 DEF Placed
  <2> QED
    BY <2>2, <2>3
<1> HIDE DEF n, e
<1>3. \A j \in 1 .. n : at[j - 1] + 1 >= q => i < j /\ at[j - 1] + 1 >= p
  <2> SUFFICES ASSUME NEW j \in 1 .. n, at[j - 1] + 1 >= q
               PROVE  i < j /\ at[j - 1] + 1 >= p
    OBVIOUS
  <2> DEFINE a == at[j - 1]
             b == at[i]
             c == at[i - 1]
  <2>1. a \in Nat /\ b \in Nat /\ c \in Nat /\ c < b /\ j - 1 \in 0 .. n
    BY <1>2
  <2>2. a >= b
    BY <2>1
  <2>3. j - 1 < i => a < b
    BY <1>2, <2>1
  <2> HIDE DEF a, b, c
  <2>4. ~(j - 1 < i)
    BY <2>1, <2>2, <2>3
  <2>5. i < j
    BY <1>2, <2>4
  <2>6. a + 1 >= c + 1
    BY <2>1, <2>2
  <2> QED
    BY <2>5, <2>6 DEF a, c
<1>4. s \in Seq(Nat) /\ Rising(s)
  BY DEF ReadsFrom
<1>5. \A y \in ToSet(s) : \E j \in 1 .. n : i < j /\ at[j - 1] + 1 >= p /\ y \in Spans(D, j)
  BY <1>3 DEF ReadsFrom, From, n
<1>6. \A x \in ToSet(e), y \in ToSet(s) : x < y
  BY <1>1, <1>5
<1>7. e \o s \in Seq(Nat) /\ Rising(e \o s) /\ ToSet(e \o s) = ToSet(e) \cup ToSet(s)
  BY <1>1, <1>4, <1>6, RisingConcat
<1>8. p >= p /\ i \in 1 .. n
  BY <1>2 DEF n
<1>9. From(D, at, e \o s, p)
  <2> SUFFICES ASSUME NEW x \in ToSet(e \o s)
               PROVE  \E j \in 1 .. n : at[j - 1] + 1 >= p /\ x \in Spans(D, j)
    BY DEF From, n
  <2>1. x \in Spans(D, i) \/ x \in ToSet(s)
    BY <1>1, <1>7
  <2> QED
    BY <1>5, <1>8, <2>1
<1> QED
  BY <1>1, <1>7, <1>9 DEF ReadsFrom, e

\* A unit decodes within the scan.
LEMMA UnitAtWithin ==
    ASSUME NEW G, NEW F, DamageOf(F, G), NEW N \in Nat, N <= Len(F),
           NEW p \in Nat \ {0}, UnitAt(F, p, N)
    PROVE  p \in 1 .. N
<1>1. CASE Chunked
  <2>1. LengthAt(F, p) \in 1 .. MaxChunk /\ p + LengthAt(F, p) <= N
    BY <1>1 DEF UnitAt, ChunkAt
  <2> DEFINE f == LengthAt(F, p)
  <2>2. f \in Nat \ {0}
    BY <2>1, FormatAssumption
  <2> HIDE DEF f
  <2> QED
    BY <2>1, <2>2 DEF f
<1>2. CASE ~Chunked
  <2> DEFINE f == F[p].u.frameLen
  <2>1. p \in 1 .. Len(F) /\ F[p].kind = "unit" /\ p + f - 1 <= N
    BY <1>2 DEF UnitAt, WholeFrame, FrameOpens
  <2>2. F \in Seq(DCells)
    BY DEF DamageOf
  <2>3. F[p] \in DCells
    BY <2>1, <2>2
  <2>4. f \in Nat \ {0}
    BY <2>1, <2>3 DEF DCells, Cells, Units
  <2> HIDE DEF f
  <2> QED
    BY <2>1, <2>4
<1> QED
  BY <1>1, <1>2

\* What the scan has from p on: rising events of units that lie there, and, when
\* no length misleads, those of each unit there that decodes.
ReadsWell(F, N, D, at, s, p) ==
    /\ ReadsFrom(D, at, s, p)
    /\ LengthsAreZero(F) =>
          \A i \in 1 .. Len(D) : UnitAt(F, at[i - 1] + 1, N) /\ p <= at[i - 1] + 1
                                 => Spans(D, i) \subseteq ToSet(s)

LEMMA ScanStepReads ==
    ASSUME NEW G, NEW D, NEW at, NEW ev, Whole(G, D, at, ev),
           NEW F, DamageOf(F, G), NEW N \in Nat, N <= Len(F),
           NEW p \in HeadLen + 1 .. N + 1, NEW g,
           \A q \in p + 1 .. N + 1 : ReadsWell(F, N, D, at, g[q].events, q)
    PROVE  ReadsWell(F, N, D, at, ScanFrom(F, N, g, p).events, p)
<1> DEFINE n == Len(D)
           later == Resync(F, p, N)
           first == CHOOSE q \in later : \A r \in later : q <= r
           s == ScanFrom(F, N, g, p).events
           Hit(i) == UnitAt(F, at[i - 1] + 1, N)
<1>1. /\ n \in Nat /\ HeadLen \in {0, 1} /\ p \in Nat \ {0} /\ HeadLen \in Nat
      /\ \A i \in 0 .. n : at[i] \in Nat
      /\ \A i \in 1 .. n : i - 1 \in 0 .. n /\ at[i - 1] \in Nat /\ at[i] \in Nat
      /\ \A j, k \in 0 .. n : j < k => at[j] < at[k]
  <2>1. LaidOut(G, D, at, ev) /\ Placed(G, D, at, ev)
    BY LayoutPlaced DEF Whole
  <2>2. \A j, k \in 0 .. n : j < k => at[j] < at[k]
    BY <2>1, EndsRise
  <2>3. n \in Nat /\ HeadLen \in {0, 1} /\ \A j \in 0 .. n : at[j] \in Nat
    BY <2>1 DEF Placed
  <2>4. \A i \in 1 .. n : i - 1 \in 0 .. n /\ i \in 0 .. n
    BY <2>3
  <2>5. p \in Nat \ {0}
    BY <2>3
  <2> QED
    BY <2>2, <2>3, <2>4, <2>5
<1>2. \A i \in 1 .. n : Hit(i) => at[i - 1] + 1 \in 1 .. N
  <2> SUFFICES ASSUME NEW i \in 1 .. n, Hit(i) PROVE at[i - 1] + 1 \in 1 .. N
    OBVIOUS
  <2> DEFINE q == at[i - 1] + 1
  <2>1. q \in Nat \ {0} /\ UnitAt(F, q, N)
    BY <1>1
  <2> HIDE DEF q
  <2>2. q \in 1 .. N
    BY <2>1, UnitAtWithin
  <2> QED
    BY <2>2 DEF q
<1>3. \A i \in 1 .. n : Hit(i) /\ p < at[i - 1] + 1 => at[i - 1] + 1 \in later
  <2> SUFFICES ASSUME NEW i \in 1 .. n, Hit(i), p < at[i - 1] + 1
               PROVE  at[i - 1] + 1 \in later
    OBVIOUS
  <2> DEFINE q == at[i - 1] + 1
  <2>1. q \in 1 .. N /\ UnitAt(F, q, N) /\ p < q
    BY <1>2
  <2> HIDE DEF q
  <2>2. q \in p + 1 .. N
    BY <1>1, <2>1
  <2>3. q \in Resync(F, p, N)
    BY <2>1, <2>2 DEF Resync
  <2> QED
    BY <2>3 DEF q
<1>4. CASE p = N + 1
  <2>1. s = <<>>
    BY <1>4, Zenon DEF ScanFrom
  <2>2. ASSUME NEW i \in 1 .. n, Hit(i), p <= at[i - 1] + 1
        PROVE  FALSE
    <3> DEFINE q == at[i - 1] + 1
    <3>1. q \in 1 .. N /\ p <= q
      BY <1>2, <2>2
    <3> HIDE DEF q
    <3> QED
      BY <1>1, <1>4, <3>1
  <2> QED
    BY <2>1, <2>2, NothingRead DEF ReadsWell
<1>5. CASE p # N + 1 /\ UnitAt(F, p, N)
  <2>1. p \in HeadLen + 1 .. N
    BY <1>1, <1>5
  <2>2. PICK j \in 1 .. n :
             /\ p = at[j - 1] + 1 /\ UnitOf(F, p) = D[j]
             /\ UnitEnd(F, p) \in at[j] .. N
             /\ LengthsAreZero(F) => UnitEnd(F, p) = at[j]
    BY <1>5, <2>1, UnitFoundIsLaid
  <2> DEFINE q == UnitEnd(F, p) + 1
             rest == g[q].events
  <2>3. /\ at[j] \in Nat /\ at[j - 1] \in Nat /\ j - 1 \in 0 .. n /\ j \in 0 .. n
        /\ at[j - 1] < at[j]
    BY <1>1
  <2>4. q \in Nat /\ q > at[j] /\ q \in p + 1 .. N + 1
    <3> DEFINE e == UnitEnd(F, p)
               b == at[j]
               a == at[j - 1]
    <3>1. e \in b .. N /\ b \in Nat /\ a \in Nat /\ a < b /\ p = a + 1
      BY <2>2, <2>3
    <3> HIDE DEF e, a, b
    <3>2. e + 1 \in Nat /\ e + 1 > b /\ e + 1 \in p + 1 .. N + 1
      BY <3>1
    <3> QED
      BY <3>2 DEF e, b
  <2>5. s = EventsOf(D[j]) \o rest
    <3>1. ScanFrom(F, N, g, p) = [events |-> EventsOf(UnitOf(F, p)) \o rest,
                                  damaged |-> g[q].damaged]
      BY <1>5, Zenon DEF ScanFrom
    <3>2. s = EventsOf(UnitOf(F, p)) \o rest
      BY <3>1
    <3> HIDE DEF s, rest
    <3> QED
      BY <2>2, <3>2
  <2>6. ReadsWell(F, N, D, at, rest, q)
    BY <2>4
  <2>7. ReadsFrom(D, at, rest, q)
    BY <2>6 DEF ReadsWell
  <2>8. /\ ReadsFrom(D, at, s, p)
        /\ ToSet(s) = Spans(D, j) \cup ToSet(rest)
    <3> HIDE DEF rest, q, s
    <3>1. /\ ReadsFrom(D, at, EventsOf(D[j]) \o rest, at[j - 1] + 1)
          /\ ToSet(EventsOf(D[j]) \o rest) = Spans(D, j) \cup ToSet(rest)
      BY <2>4, <2>7, ReadsUnit
    <3> QED
      BY <2>2, <2>5, <3>1
  <2>9. ASSUME LengthsAreZero(F), NEW i \in 1 .. n, Hit(i), p <= at[i - 1] + 1
        PROVE  Spans(D, i) \subseteq ToSet(s)
    <3>1. i = j \/ at[j] <= at[i - 1]
      <4>1. /\ i - 1 \in 0 .. n /\ at[i - 1] \in Nat /\ ~(at[i - 1] < at[j - 1])
        <5> DEFINE a == at[i - 1]
                   b == at[j - 1]
        <5>1. a \in Nat /\ b \in Nat /\ p = b + 1 /\ p <= a + 1 /\ i - 1 \in 0 .. n
          BY <1>1, <2>2, <2>3, <2>9
        <5> HIDE DEF a, b
        <5>2. ~(a < b)
          BY <5>1
        <5> QED
          BY <5>1, <5>2 DEF a, b
      <4>2. ~(i - 1 < j - 1)
        BY <1>1, <2>3, <4>1
      <4>3. i = j \/ j < i - 1 \/ j = i - 1
        BY <1>1, <4>2
      <4>4. j < i - 1 => at[j] < at[i - 1]
        BY <1>1, <2>3, <4>1
      <4> QED
        BY <2>3, <4>1, <4>3, <4>4
    <3>2. CASE i = j
      BY <2>8, <3>2
    <3>3. CASE at[j] <= at[i - 1]
      <4>1. q <= at[i - 1] + 1
        <5> DEFINE a == at[i - 1]
                   b == at[j]
        <5>1. q = b + 1 /\ a \in Nat /\ b \in Nat /\ b <= a
          BY <1>1, <2>2, <2>3, <2>9, <3>3
        <5> HIDE DEF a, b, q
        <5>2. q <= a + 1
          BY <5>1
        <5> QED
          BY <5>2 DEF a
      <4>2. Spans(D, i) \subseteq ToSet(rest)
        <5> HIDE DEF rest, q
        <5>1. \A k \in 1 .. n : Hit(k) /\ q <= at[k - 1] + 1 => Spans(D, k) \subseteq ToSet(rest)
          BY <2>6, <2>9, Zenon DEF ReadsWell, n
        <5> HIDE DEF n, Hit
        <5> QED
          BY <2>9, <4>1, <5>1
      <4> QED
        BY <2>8, <4>2
    <3> QED
      BY <3>1, <3>2, <3>3
  <2> HIDE DEF s
  <2> QED
    BY <2>8, <2>9, Zenon DEF ReadsWell, s
<1>6. CASE p # N + 1 /\ ~UnitAt(F, p, N) /\ later # {}
  <2>1. later \subseteq p + 1 .. N /\ later \in SUBSET Nat
    BY <1>1 DEF Resync
  <2>2. first \in later /\ \A r \in later : first <= r
    <3> HIDE DEF later
    <3>1. \E q \in later : \A r \in later : q <= r
      BY <1>6, <2>1, FirstOf
    <3> QED
      BY <3>1, Zenon
  <2>3. s = g[first].events
    <3>1. ScanFrom(F, N, g, p) = [events |-> g[first].events, damaged |-> TRUE]
      BY <1>6, Zenon DEF ScanFrom
    <3> QED
      BY <3>1
  <2> HIDE DEF first
  <2>4. first \in Nat /\ first \in p + 1 .. N + 1 /\ p < first
    <3> HIDE DEF later
    <3> QED
      BY <1>1, <2>1, <2>2
  <2> HIDE DEF s
  <2>5. ReadsWell(F, N, D, at, s, first)
    BY <2>3, <2>4
  <2>6. ReadsFrom(D, at, s, p)
    <3>1. s \in Seq(Nat) /\ Rising(s) /\ From(D, at, s, first)
      BY <2>5 DEF ReadsWell, ReadsFrom
    <3>2. \A i \in 1 .. n : at[i - 1] + 1 >= first => at[i - 1] + 1 >= p
      <4> SUFFICES ASSUME NEW i \in 1 .. n, at[i - 1] + 1 >= first PROVE at[i - 1] + 1 >= p
        OBVIOUS
      <4> DEFINE a == at[i - 1]
      <4>1. a \in Nat /\ a + 1 >= first
        BY <1>1
      <4> HIDE DEF a
      <4>2. a + 1 >= p
        BY <1>1, <2>4, <4>1
      <4> QED
        BY <4>2 DEF a
    <3>3. From(D, at, s, p)
      BY <3>1, <3>2 DEF From
    <3> QED
      BY <3>1, <3>3 DEF ReadsFrom
  <2>7. ASSUME LengthsAreZero(F), NEW i \in 1 .. n, Hit(i), p <= at[i - 1] + 1
        PROVE  Spans(D, i) \subseteq ToSet(s)
    <3>1. p # at[i - 1] + 1
      BY <1>6, <2>7
    <3>2. p < at[i - 1] + 1
      <4> DEFINE a == at[i - 1]
      <4>1. a \in Nat /\ p <= a + 1 /\ p # a + 1
        BY <1>1, <2>7, <3>1
      <4> HIDE DEF a
      <4>2. p < a + 1
        BY <1>1, <4>1
      <4> QED
        BY <4>2 DEF a
    <3>3. first <= at[i - 1] + 1
      BY <1>3, <2>2, <2>7, <3>2
    <3>4. \A k \in 1 .. n : Hit(k) /\ first <= at[k - 1] + 1 => Spans(D, k) \subseteq ToSet(s)
      BY <2>5, <2>7, Zenon DEF ReadsWell, n
    <3> HIDE DEF n, Hit
    <3> QED
      BY <2>7, <3>3, <3>4
  <2> QED
    BY <2>6, <2>7, Zenon DEF ReadsWell, s
<1>7. CASE p # N + 1 /\ ~UnitAt(F, p, N) /\ later = {}
  <2>1. s = <<>>
    <3>1. ScanFrom(F, N, g, p) = [events |-> <<>>, damaged |-> TRUE]
      BY <1>7, Zenon DEF ScanFrom
    <3> QED
      BY <3>1
  <2>2. ASSUME NEW i \in 1 .. n, Hit(i), p <= at[i - 1] + 1
        PROVE  FALSE
    <3>1. p # at[i - 1] + 1
      BY <1>7, <2>2
    <3> DEFINE a == at[i - 1]
    <3>2. a \in Nat /\ p <= a + 1 /\ p # a + 1
      BY <1>1, <2>2, <3>1
    <3> HIDE DEF a
    <3>3. p < a + 1
      BY <1>1, <3>2
    <3> QED
      BY <1>3, <1>7, <2>2, <3>3 DEF a
  <2> QED
    BY <2>1, <2>2, NothingRead DEF ReadsWell
<1> QED
  BY <1>4, <1>5, <1>6, <1>7

\* The scan of a damaged file.
LEMMA ScanOfDamage ==
    ASSUME NEW G, NEW D, NEW at, NEW ev, Whole(G, D, at, ev),
           NEW F, DamageOf(F, G), NEW N \in Nat, HeadLen <= N, N <= Len(F)
    PROVE  ReadsWell(F, N, D, at, Scan(F, N).events, HeadLen + 1)
<1>1. HeadLen \in {0, 1}
  BY DEF HeadLen
<1>2. PICK g : /\ Scan(F, N) = g[HeadLen + 1]
               /\ \A p \in 1 .. N + 1 : g[p] = ScanFrom(F, N, g, p)
  <2> GoesForward(F, N)
    BY DamagedScanGoesOn
  <2> QED
    BY ScanIsDefined
<1> DEFINE M == N - HeadLen
           Good(q) == ReadsWell(F, N, D, at, g[q].events, q)
           S == {m \in 0 .. M : \A q \in N + 1 - m .. N + 1 : Good(q)}
<1>3. M \in Nat /\ \A m \in 0 .. M : N + 1 - m \in HeadLen + 1 .. N + 1
  BY <1>1
<1>4. ASSUME NEW p \in HeadLen + 1 .. N + 1, \A q \in p + 1 .. N + 1 : Good(q)
      PROVE  Good(p)
  <2>1. p \in 1 .. N + 1
    BY <1>1
  <2>2. g[p] = ScanFrom(F, N, g, p)
    BY <1>2, <2>1
  <2>3. ReadsWell(F, N, D, at, ScanFrom(F, N, g, p).events, p)
    BY <1>4, ScanStepReads
  <2> QED
    BY <2>2, <2>3
<1> HIDE DEF Good, M
<1>5. 0 \in S
  <2>1. N + 1 \in HeadLen + 1 .. N + 1
    BY <1>1
  <2>2. Good(N + 1)
    BY <1>4, <2>1
  <2>3. \A q \in N + 1 - 0 .. N + 1 : q = N + 1
    OBVIOUS
  <2>4. 0 \in 0 .. M
    BY <1>3
  <2> QED
    BY <2>2, <2>3, <2>4
<1>6. ASSUME NEW m \in 0 .. M, m # M, m \in S
      PROVE  m + 1 \in S
  <2>1. m + 1 \in 0 .. M
    BY <1>3, <1>6
  <2> DEFINE p == N + 1 - (m + 1)
  <2>2. p \in HeadLen + 1 .. N + 1 /\ p + 1 = N + 1 - m /\ p \in Int
    BY <1>1, <1>3, <2>1
  <2> HIDE DEF p
  <2>3. \A q \in p + 1 .. N + 1 : Good(q)
    BY <1>6, <2>2
  <2>4. Good(p)
    BY <1>4, <2>2, <2>3
  <2>5. \A q \in p .. N + 1 : q = p \/ q \in p + 1 .. N + 1
    BY <2>2
  <2>6. \A q \in p .. N + 1 : Good(q)
    BY <2>3, <2>4, <2>5
  <2> QED
    BY <2>1, <2>6 DEF p
<1> HIDE DEF S
<1>7. M \in S
  <2>1. 0 .. M \subseteq S
    BY <1>3, <1>5, <1>6, InductionUpTo
  <2> QED
    BY <1>3, <2>1
<1>8. Good(HeadLen + 1)
  <2>1. HeadLen + 1 \in N + 1 - M .. N + 1
    BY <1>1 DEF M
  <2> QED
    BY <1>7, <2>1 DEF S
<1> QED
  BY <1>2, <1>8 DEF Good

-----------------------------------------------------------------------------
(* What the index of a damaged file leads to.                              *)

\* The function that DecodeIndexed defines by recursion exists, and is its result.
LEMMA IndexIsDefined ==
    ASSUME NEW F, NEW c, NEW E, Len(E) \in Nat, NEW filters
    PROVE  \E r : /\ DecodeIndexed(F, c, E, filters) = r[Len(E)]
                  /\ \A i \in 0 .. Len(E) : r[i] = IndexFrom(F, c, E, filters, r, i)
<1> DEFINE n == Len(E)
           Upto(m, k) == \A i \in 0 .. m : k[i] = IndexFrom(F, c, E, filters, k, i)
           S == {m \in 0 .. n : \E k : Upto(m, k)}
           K == CHOOSE r : r = [i \in 0 .. Len(E) |-> IndexFrom(F, c, E, filters, r, i)]
<1>0. n \in Nat
  OBVIOUS
<1>1. \A g, h, i : i # 0 /\ g[i - 1] = h[i - 1]
                   => IndexFrom(F, c, E, filters, g, i) = IndexFrom(F, c, E, filters, h, i)
  BY Zenon DEF IndexFrom
<1>2. \A g, h : IndexFrom(F, c, E, filters, g, 0) = IndexFrom(F, c, E, filters, h, 0)
  BY Zenon DEF IndexFrom
<1>3. 0 \in S
  <2> DEFINE k == [i \in 0 .. 0 |-> IndexFrom(F, c, E, filters, <<>>, 0)]
  <2>1. k[0] = IndexFrom(F, c, E, filters, <<>>, 0) /\ \A i \in 0 .. 0 : i = 0
    OBVIOUS
  <2> HIDE DEF k
  <2>2. k[0] = IndexFrom(F, c, E, filters, k, 0)
    BY <1>2, <2>1, Zenon
  <2>3. Upto(0, k)
    BY <2>1, <2>2, Zenon
  <2>4. 0 \in 0 .. n
    BY <1>0
  <2> QED
    BY <2>3, <2>4
<1>4. ASSUME NEW m \in 0 .. n, m # n, m \in S
      PROVE  m + 1 \in S
  <2>1. PICK k : Upto(m, k)
    BY <1>4
  <2>2. m + 1 \in 0 .. n /\ m + 1 # 0 /\ (m + 1) - 1 = m /\ m \in 0 .. m /\ m \in Nat
    BY <1>0, <1>4
  <2> DEFINE new == IndexFrom(F, c, E, filters, k, m + 1)
             h == [i \in 0 .. m + 1 |-> IF i = m + 1 THEN new ELSE k[i]]
  <2> HIDE DEF new
  <2>3. h[m + 1] = new /\ \A i \in 0 .. m : h[i] = k[i]
    BY <2>2
  <2> HIDE DEF h
  <2>4. ASSUME NEW i \in 0 .. m + 1
        PROVE  h[i] = IndexFrom(F, c, E, filters, h, i)
    <3>1. CASE i = 0
      <4>1. 0 \in 0 .. m
        BY <2>2
      <4>2. h[0] = k[0] /\ k[0] = IndexFrom(F, c, E, filters, k, 0)
        BY <2>1, <2>3, <4>1
      <4>3. IndexFrom(F, c, E, filters, k, 0) = IndexFrom(F, c, E, filters, h, 0)
        BY <1>2, Zenon
      <4> QED
        BY <3>1, <4>2, <4>3, Zenon
    <3>2. CASE i = m + 1
      <4>1. k[(m + 1) - 1] = h[(m + 1) - 1]
        BY <2>2, <2>3
      <4>2. new = IndexFrom(F, c, E, filters, h, m + 1)
        BY <1>1, <2>2, <4>1, Zenon DEF new
      <4> QED
        BY <2>3, <3>2, <4>2
    <3>3. CASE i # 0 /\ i # m + 1
      <4>1. i \in 0 .. m /\ i - 1 \in 0 .. m
        BY <2>2, <3>3
      <4>2. h[i] = k[i] /\ k[i - 1] = h[i - 1] /\ k[i] = IndexFrom(F, c, E, filters, k, i)
        BY <2>1, <2>3, <4>1
      <4>3. IndexFrom(F, c, E, filters, k, i) = IndexFrom(F, c, E, filters, h, i)
        BY <1>1, <3>3, <4>2, Zenon
      <4> QED
        BY <4>2, <4>3
    <3> QED
      BY <3>1, <3>2, <3>3
  <2>5. Upto(m + 1, h)
    BY <2>4
  <2> QED
    BY <2>2, <2>5, Zenon
<1> HIDE DEF S
<1>5. n \in S
  <2>1. 0 .. n \subseteq S
    BY <1>0, <1>3, <1>4, InductionUpTo
  <2> QED
    BY <1>0, <2>1
<1>6. PICK k : Upto(n, k)
  BY <1>5 DEF S
<1> DEFINE h == [i \in 0 .. n |-> k[i]]
<1>7. \A i \in 0 .. n : h[i] = IndexFrom(F, c, E, filters, h, i)
  <2> TAKE i \in 0 .. n
  <2>1. h[i] = k[i] /\ k[i] = IndexFrom(F, c, E, filters, k, i)
    BY <1>6
  <2>2. i # 0 => k[i - 1] = h[i - 1]
    <3>1. i # 0 => i - 1 \in 0 .. n
      BY <1>0
    <3> QED
      BY <3>1
  <2> HIDE DEF h
  <2>3. IndexFrom(F, c, E, filters, k, i) = IndexFrom(F, c, E, filters, h, i)
    BY <1>1, <1>2, <2>2, Zenon
  <2> QED
    BY <2>1, <2>3
<1>8. h = [i \in 0 .. Len(E) |-> IndexFrom(F, c, E, filters, h, i)]
  <2>1. h = [i \in 0 .. n |-> h[i]]
    OBVIOUS
  <2> HIDE DEF h
  <2> QED
    BY <1>7, <2>1
<1>9. K = [i \in 0 .. Len(E) |-> IndexFrom(F, c, E, filters, K, i)]
  BY <1>8, Zenon
<1>10. DecodeIndexed(F, c, E, filters) = K[n]
  BY Zenon DEF DecodeIndexed, IndexFrom
<1> HIDE DEF K
<1>11. \A i \in 0 .. n : K[i] = IndexFrom(F, c, E, filters, K, i)
  BY <1>0, <1>9
<1> QED
  BY <1>10, <1>11

\* Of the first i units, those that decode where the index says, in order.
Readable(F, D, at, j) == EntryReadable(F, Entry(D[j], at[j - 1]), at[Len(D)])
ReadUpTo(F, D, at, s, i) ==
    /\ s \in Seq(Nat) /\ Rising(s)
    /\ \A x \in ToSet(s) : \E j \in 1 .. i : x \in Spans(D, j)
    /\ \A j \in 1 .. i : Readable(F, D, at, j) => Spans(D, j) \subseteq ToSet(s)

\* An entry leads to the unit it describes, or to none.
LEMMA EntryLeadsHome ==
    ASSUME NEW G, NEW D, NEW at, NEW ev, Whole(G, D, at, ev),
           NEW F, DamageOf(F, G), at[Len(D)] <= Len(F), NEW i \in 1 .. Len(D),
           Readable(F, D, at, i)
    PROVE  F[Entry(D[i], at[i - 1]).offset + PrefixLen + 1].u = D[i]
<1> DEFINE n == Len(D)
           a == at[i - 1]
           f == D[i].frameLen
           p == a + PrefixLen + 1
           e == a + PrefixLen + f
<1>1. /\ n \in Nat /\ HeadLen \in {0, 1} /\ PrefixLen = HeadLen
      /\ a \in Nat /\ a >= HeadLen /\ f \in Nat \ {0} /\ i - 1 \in 0 .. n
      /\ at[n] \in Nat /\ Len(F) \in Nat
      /\ \A j \in 0 .. n : at[j] \in Nat
      /\ \A j, k \in 0 .. n : j < k => at[j] < at[k]
  <2>1. LaidOut(G, D, at, ev) /\ Placed(G, D, at, ev)
    BY LayoutPlaced DEF Whole
  <2>2. \A j, k \in 0 .. n : j < k => at[j] < at[k]
    BY <2>1, EndsRise
  <2>3. n \in Nat /\ HeadLen \in {0, 1} /\ PrefixLen = HeadLen /\ \A j \in 0 .. n : at[j] \in Nat
    BY <2>1 DEF Placed
  <2>4. i - 1 \in 0 .. n /\ n \in 0 .. n
    BY <2>3
  <2>5. at[i - 1] \in HeadLen .. at[n]
    BY <2>1, <2>4 DEF LaidOut, Laid
  <2>6. f \in Nat \ {0}
    BY <2>1 DEF Placed
  <2>7. a >= HeadLen
    BY <2>3, <2>5
  <2>8. F \in Seq(DCells)
    BY DEF DamageOf
  <2> QED
    BY <2>2, <2>3, <2>4, <2>6, <2>7, <2>8
<1>2. WholeFrame(F, p, e) /\ e <= at[n]
  BY DEF Readable, EntryReadable, Entry
<1> HIDE DEF a, f
<1>3. p \in Int /\ p > HeadLen /\ e \in Nat
  BY <1>1
<1>4. e <= Len(F)
  <2> HIDE DEF e
  <2> DEFINE c == at[n]
  <2>1. e <= c /\ c <= Len(F) /\ c \in Nat
    BY <1>1, <1>2
  <2> HIDE DEF c
  <2> QED
    BY <1>1, <1>3, <2>1
<1>5. PICK j \in 1 .. n : p = at[j - 1] + PrefixLen + 1 /\ F[p].u = D[j]
  <2> HIDE DEF p, e
  <2> QED
    BY <1>2, <1>3, <1>4, WholeFrameIsLaid
<1>6. j = i
  <2> DEFINE b == at[j - 1]
  <2>1. b \in Nat /\ p = b + PrefixLen + 1 /\ j - 1 \in 0 .. n
    BY <1>1, <1>5
  <2> HIDE DEF b
  <2>2. a = b
    BY <1>1, <2>1
  <2>3. ~(at[i - 1] < at[j - 1]) /\ ~(at[j - 1] < at[i - 1])
    BY <1>1, <2>2 DEF a, b
  <2>4. ~(i - 1 < j - 1) /\ ~(j - 1 < i - 1)
    BY <1>1, <2>1, <2>3
  <2> QED
    BY <1>1, <2>4
<1> QED
  BY <1>5, <1>6 DEF Entry, a

LEMMA IndexOfDamage ==
    ASSUME NEW G, NEW D, NEW at, NEW ev, Whole(G, D, at, ev),
           NEW F, DamageOf(F, G), at[Len(D)] <= Len(F)
    PROVE  ReadUpTo(F, D, at, DecodeIndexed(F, at[Len(D)], EntriesOf(D, at), {}).events, Len(D))
<1> DEFINE n == Len(D)
           c == at[n]
           E == EntriesOf(D, at)
<1>1. n \in Nat /\ Len(E) = n /\ \A i \in 1 .. n : E[i] = Entry(D[i], at[i - 1])
  BY DEF Whole, LaidOut, EntriesOf
<1> HIDE DEF E, c
<1>2. PICK r : /\ DecodeIndexed(F, c, E, {}) = r[n]
               /\ \A i \in 0 .. n : r[i] = IndexFrom(F, c, E, {}, r, i)
  <2>1. Len(E) \in Nat
    BY <1>1
  <2>2. \E r : /\ DecodeIndexed(F, c, E, {}) = r[Len(E)]
               /\ \A i \in 0 .. Len(E) : r[i] = IndexFrom(F, c, E, {}, r, i)
    BY <2>1, IndexIsDefined
  <2> QED
    BY <1>1, <2>2
<1> DEFINE S == {i \in 0 .. n : ReadUpTo(F, D, at, r[i].events, i)}
<1>3. 0 \in S
  <2>1. r[0].events = <<>> /\ 0 \in 0 .. n
    <3>1. 0 \in 0 .. n
      BY <1>1
    <3>2. r[0] = IndexFrom(F, c, E, {}, r, 0)
      BY <1>2, <3>1
    <3>3. IndexFrom(F, c, E, {}, r, 0) = [events |-> <<>>, damaged |-> FALSE]
      BY Zenon DEF IndexFrom
    <3> QED
      BY <3>1, <3>2, <3>3
  <2>2. ToSet(<<>>) = {} /\ Rising(<<>>) /\ <<>> \in Seq(Nat) /\ 1 .. 0 = {}
    BY DEF ToSet, Rising
  <2>3. ReadUpTo(F, D, at, <<>>, 0)
    BY <2>2 DEF ReadUpTo
  <2> QED
    BY <2>1, <2>3
<1>4. ASSUME NEW m \in 0 .. n, m # n, m \in S
      PROVE  m + 1 \in S
  <2> DEFINE i == m + 1
             b == r[m].events
             s == r[i].events
             u == F[E[i].offset + PrefixLen + 1].u
  <2>1. i \in 1 .. n /\ i \in 0 .. n /\ i # 0 /\ i - 1 = m /\ m \in Nat
    BY <1>1, <1>4
  <2>2. r[i] = IndexFrom(F, c, E, {}, r, i)
    BY <1>2, <2>1
  <2>3. EntryReadable(F, E[i], c) <=> Readable(F, D, at, i)
    BY <1>1, <2>1 DEF Readable, c
  <2>4. s = IF Readable(F, D, at, i) THEN b \o EventsOf(D[i]) ELSE b
    <3>1. CASE Readable(F, D, at, i)
      <4>1. IndexFrom(F, c, E, {}, r, i) = [events |-> b \o EventsOf(u), damaged |-> r[m].damaged]
        BY <2>1, <2>3, <3>1, Zenon DEF IndexFrom
      <4>2. s = b \o EventsOf(u)
        <5> DEFINE X == b \o EventsOf(u)
                   d == r[m].damaged
        <5>1. r[i] = [events |-> X, damaged |-> d]
          BY <2>2, <4>1
        <5> HIDE DEF X, d
        <5>2. r[i].events = X
          BY <5>1
        <5> QED
          BY <5>2 DEF X
      <4>3. F[Entry(D[i], at[i - 1]).offset + PrefixLen + 1].u = D[i]
        <5> HIDE DEF i
        <5> QED
          BY <2>1, <3>1, EntryLeadsHome
      <4>4. E[i] = Entry(D[i], at[i - 1])
        BY <1>1, <2>1
      <4>5. u = D[i]
        BY <4>3, <4>4
      <4> HIDE DEF u, s, b
      <4> QED
        BY <3>1, <4>2, <4>5
    <3>2. CASE ~Readable(F, D, at, i)
      <4>1. IndexFrom(F, c, E, {}, r, i) = [events |-> b, damaged |-> TRUE]
        BY <2>1, <2>3, <3>2, Zenon DEF IndexFrom
      <4>2. s = b
        BY <2>2, <4>1
      <4> QED
        BY <3>2, <4>2
    <3> QED
      BY <3>1, <3>2
  <2>5. ReadUpTo(F, D, at, b, m)
    BY <1>4
  <2> HIDE DEF s, b, u
  <2>6. \A j \in 1 .. i : j = i \/ j \in 1 .. m
    BY <2>1
  <2>7. \A j \in 1 .. m : j \in 1 .. n /\ j \in 1 .. i /\ j < i
    BY <1>1, <2>1
  <2>8. b \in Seq(Nat) /\ Rising(b) /\ \A x \in ToSet(b) : \E j \in 1 .. m : x \in Spans(D, j)
    BY <2>5 DEF ReadUpTo
  <2>9. \A j \in 1 .. m : Readable(F, D, at, j) => Spans(D, j) \subseteq ToSet(b)
    BY <2>5 DEF ReadUpTo
  <2> DEFINE e == EventsOf(D[i])
  <2>10. /\ e \in Seq(Nat) /\ Rising(e) /\ ToSet(e) = Spans(D, i)
         /\ \A k, l \in 1 .. n : k < l => \A x \in Spans(D, k), y \in Spans(D, l) : x < y
    BY <2>1, UnitsRise
  <2> HIDE DEF e, i
  <2>11. CASE Readable(F, D, at, i)
    <3>1. s = b \o e
      BY <2>4, <2>11 DEF e
    <3>2. \A x \in ToSet(b), y \in ToSet(e) : x < y
      BY <2>1, <2>7, <2>8, <2>10
    <3>3. s \in Seq(Nat) /\ Rising(s) /\ ToSet(s) = ToSet(b) \cup Spans(D, i)
      BY <2>8, <2>10, <3>1, <3>2, RisingConcat
    <3>4. i \in 1 .. i
      BY <2>1
    <3>5. \A x \in ToSet(s) : \E j \in 1 .. i : x \in Spans(D, j)
      BY <2>7, <2>8, <3>3, <3>4
    <3>6. \A j \in 1 .. i : Readable(F, D, at, j) => Spans(D, j) \subseteq ToSet(s)
      BY <2>6, <2>9, <3>3
    <3>7. ReadUpTo(F, D, at, s, i)
      BY <3>3, <3>5, <3>6 DEF ReadUpTo
    <3> QED
      BY <2>1, <3>7 DEF s, i
  <2>12. CASE ~Readable(F, D, at, i)
    <3>1. s = b
      BY <2>4, <2>12
    <3>5. \A x \in ToSet(s) : \E j \in 1 .. i : x \in Spans(D, j)
      BY <2>7, <2>8, <3>1
    <3>6. \A j \in 1 .. i : Readable(F, D, at, j) => Spans(D, j) \subseteq ToSet(s)
      BY <2>6, <2>9, <2>12, <3>1
    <3>7. ReadUpTo(F, D, at, s, i)
      BY <2>8, <3>1, <3>5, <3>6 DEF ReadUpTo
    <3> QED
      BY <2>1, <3>7 DEF s, i
  <2> QED
    BY <2>11, <2>12
<1> HIDE DEF S
<1>5. n \in S
  <2>1. 0 .. n \subseteq S
    BY <1>1, <1>3, <1>4, InductionUpTo
  <2> QED
    BY <1>1, <2>1
<1>6. ReadUpTo(F, D, at, r[n].events, n)
  BY <1>5 DEF S
<1> QED
  BY <1>2, <1>6 DEF c, E

-----------------------------------------------------------------------------
(* What a reader of a damaged file gets.                                   *)

\* A trailer closes a complete footer.
LEMMA WhereTrailerLies ==
    ASSUME NEW G, NEW D, NEW at, NEW ev, Whole(G, D, at, ev),
           NEW p \in HeadLen + 1 .. Len(G), G[p].kind = "trailer"
    PROVE  Footed(G, at[Len(D)], EntriesOf(D, at)) /\ p = Len(G)
<1> DEFINE c == at[Len(D)]
           E == EntriesOf(D, at)
<1>1. LaidOut(G, D, at, ev) /\ TailOf(G, c, E)
  BY DEF Whole
<1>2. Len(G) \in Nat /\ c \in Nat /\ HeadLen \in {0, 1} /\ c <= Len(G)
  <2>1. Placed(G, D, at, ev)
    BY <1>1, LayoutPlaced
  <2>2. Len(D) \in 0 .. Len(D)
    BY <2>1 DEF Placed
  <2> QED
    BY <2>1, <2>2 DEF Placed
<1>3. p > c
  <2> SUFFICES ASSUME p <= c PROVE FALSE
    BY <1>2
  <2>1. p \in HeadLen + 1 .. at[Len(D)]
    BY <1>2
  <2>2. PICK i \in 1 .. Len(D) : G[p] = UnitCell(D[i], p - at[i - 1])
    BY <1>1, <2>1, LaidCells
  <2> QED
    BY <2>2 DEF UnitCell
<1> HIDE DEF c, E
<1>4. ASSUME NEW u \in Units, Begun(G, c, u)
      PROVE  FALSE
  <2> DEFINE k == p - c
  <2>1. k \in 1 .. Len(G) - c /\ c + k = p
    BY <1>2, <1>3
  <2> HIDE DEF k
  <2>2. G[c + k] = UnitCell(u, k)
    BY <1>4, <2>1 DEF Begun
  <2> QED
    BY <2>1, <2>2 DEF UnitCell
<1>5. FooterBegun(G, c, E)
  BY <1>1, <1>2, <1>3, <1>4 DEF TailOf
<1>6. p # c + 1
  BY <1>5 DEF FooterBegun, FooterBody
<1>7. p = c + 2 /\ Len(G) = c + 2
  BY <1>2, <1>3, <1>5, <1>6 DEF FooterBegun
<1> QED
  BY <1>5, <1>7 DEF Footed, FooterBegun, c, E

\* A damaged file that ends in a trailer, or what is left of one, is as long
\* as it was, and its footer was complete.
LEMMA TrailerIsLast ==
    ASSUME NEW G, NEW D, NEW at, NEW ev, Whole(G, D, at, ev), NEW F, DamageOf(F, G),
           HasTrailer(F)
    PROVE  LET c == at[Len(D)] IN
           /\ Chunked /\ c \in Nat /\ c >= HeadLen /\ Len(F) = c + 2
           /\ F[Len(F)].kind = "trailer" => F[Len(F)].offset = c
           /\ F[Len(F)].offset \in Nat
           /\ F[c + 1].kind = "index" => F[c + 1].index = EntriesOf(D, at)
<1> DEFINE c == at[Len(D)]
           E == EntriesOf(D, at)
           p == Len(F)
<1>1. /\ F \in Seq(DCells) /\ p \in Nat /\ G \in Seq(Cells) /\ Len(G) \in Nat /\ p <= Len(G)
      /\ c \in Nat /\ c >= HeadLen /\ HeadLen \in {0, 1}
  <2>1. Placed(G, D, at, ev) /\ LaidOut(G, D, at, ev)
    BY LayoutPlaced DEF Whole
  <2>2. Len(D) \in 0 .. Len(D)
    BY <2>1 DEF Placed
  <2>3. at[Len(D)] \in HeadLen .. at[Len(D)]
    BY <2>1, <2>2 DEF LaidOut, Laid
  <2>4. HeadLen \in {0, 1} /\ Len(G) \in Nat /\ c \in Nat /\ G \in Seq(Cells)
    BY <2>1, <2>2 DEF Placed
  <2>5. F \in Seq(DCells) /\ Len(F) \in HeadLen .. Len(G)
    BY DEF DamageOf
  <2> QED
    BY <2>3, <2>4, <2>5
<1>2. p \in HeadLen + 1 .. Len(G) /\ p \in 1 .. Len(F) /\ F[p].kind \in {"trailer", "badTrailer"}
  BY <1>1 DEF HasTrailer
<1>3. \/ F[p] = G[p] \/ F[p] \in [kind : {"damaged"}, len : Nat]
      \/ F[p] \in [kind : {"badTrailer"}, offset : Nat] /\ G[p].kind = "trailer"
  BY <1>2 DEF DamageOf
<1>4. G[p] \in Cells
  BY <1>1, <1>2
<1>5. G[p].kind = "trailer" /\ (F[p] = G[p] \/ F[p] \in [kind : {"badTrailer"}, offset : Nat])
  BY <1>2, <1>3, <1>4 DEF Cells
<1>6. Footed(G, c, E) /\ p = Len(G)
  BY <1>2, <1>5, WhereTrailerLies
<1> HIDE DEF c, E
<1>7. Chunked /\ p = c + 2 /\ G[c + 1] = FooterBody(E) /\ G[p] = Trailer(c)
  BY <1>6 DEF Footed
<1>8. F[p].kind = "trailer" => F[p].offset = c
  BY <1>5, <1>7 DEF Trailer
<1>9. F[p].offset \in Nat
  BY <1>1, <1>5, <1>7 DEF Trailer
<1>10. F[c + 1].kind = "index" => F[c + 1].index = E
  <2>1. c + 1 \in 1 .. Len(F)
    BY <1>1, <1>7
  <2>2. F[c + 1].kind = "index" => F[c + 1] = G[c + 1]
    BY <2>1 DEF DamageOf
  <2> QED
    BY <1>7, <2>2 DEF FooterBody
<1> QED
  BY <1>1, <1>7, <1>8, <1>9, <1>10 DEF c, E

\* Unit i still lies whole in F.
Intact(F, D, at, i) ==
    /\ at[i] <= Len(F)
    /\ \A k \in 1 .. Size(D[i]) : F[at[i - 1] + k] = UnitCell(D[i], k)

LEMMA IntactDecodes ==
    ASSUME NEW G, NEW D, NEW at, NEW ev, Whole(G, D, at, ev), NEW F, DamageOf(F, G),
           NEW i \in 1 .. Len(D), Intact(F, D, at, i)
    PROVE  /\ \A N \in Nat : at[i] <= N /\ N <= Len(F) => UnitAt(F, at[i - 1] + 1, N)
           /\ Readable(F, D, at, i)
<1> DEFINE a == at[i - 1]
           b == at[i]
           u == D[i]
           c == at[Len(D)]
<1>1. /\ a \in Nat /\ b \in Nat /\ b = a + Size(u) /\ u \in Units
      /\ Chunked => u.frameLen <= MaxChunk
      /\ \A k \in 1 .. Size(u) : F[a + k] = UnitCell(u, k)
      /\ Len(F) \in Nat /\ b <= Len(F) /\ a >= HeadLen /\ c \in Nat /\ b <= c
      /\ Size(u) = PrefixLen + u.frameLen /\ HeadLen \in {0, 1} /\ PrefixLen = HeadLen
      /\ u.frameLen \in Nat
  <2>1. LaidOut(G, D, at, ev) /\ Placed(G, D, at, ev)
    BY LayoutPlaced DEF Whole
  <2>2. /\ i - 1 \in 0 .. Len(D) /\ i \in 0 .. Len(D) /\ Len(D) \in 0 .. Len(D)
        /\ HeadLen \in {0, 1} /\ PrefixLen = HeadLen
    BY <2>1 DEF Placed
  <2>3. a \in HeadLen .. c /\ b \in HeadLen .. c
    BY <2>1, <2>2 DEF LaidOut, Laid
  <2>4. a \in Nat /\ b \in Nat /\ c \in Nat
    BY <2>1, <2>2 DEF Placed
  <2>5. /\ b = a + Size(u) /\ u \in Units /\ u.frameLen \in Nat
        /\ Chunked => u.frameLen <= MaxChunk
    BY <2>1 DEF Placed
  <2>6. /\ b <= Len(F) /\ \A k \in 1 .. Size(u) : F[a + k] = UnitCell(u, k)
    BY DEF Intact
  <2>7. F \in Seq(DCells)
    BY DEF DamageOf
  <2>8. Size(u) = PrefixLen + u.frameLen
    BY DEF Size
  <2>9. a >= HeadLen /\ b <= c
    BY <2>2, <2>3, <2>4
  <2> QED
    BY <2>2, <2>4, <2>5, <2>6, <2>7, <2>8, <2>9
<1> HIDE DEF a, b, c, u
<1>2. ASSUME NEW N \in Nat, b <= N, N <= Len(F)
      PROVE  UnitAt(F, a + 1, N) /\ WholeFrame(F, a + PrefixLen + 1, a + PrefixLen + u.frameLen)
  <2>1. a + Size(u) <= N
    BY <1>1, <1>2
  <2> QED
    BY <1>1, <1>2, <2>1, UnitDecodes
<1>3. \A N \in Nat : b <= N /\ N <= Len(F) => UnitAt(F, a + 1, N)
  BY <1>2
<1>4. WholeFrame(F, a + PrefixLen + 1, a + PrefixLen + u.frameLen)
  <2>1. b <= b
    BY <1>1
  <2> QED
    BY <1>1, <1>2, <2>1
<1>5. a + PrefixLen + u.frameLen <= c
  BY <1>1
<1>6. Entry(u, a).offset = a /\ Entry(u, a).frameLen = u.frameLen
  BY DEF Entry
<1>7. EntryReadable(F, Entry(u, a), c)
  BY <1>1, <1>4, <1>5, <1>6 DEF EntryReadable
<1> QED
  BY <1>3, <1>7 DEF Readable, a, b, c, u

\* No damaged length or offset points further than its unit or the footer.
NothingMisleads(F) ==
    \A i \in DOMAIN F : /\ F[i].kind = "damaged" => F[i].len = 0
                        /\ F[i].kind = "badTrailer" => F[i].offset = Len(F) - 2

\* What a reader gets: events that were there, in their order, and, when nothing
\* misleads it, those of every unit that is still whole.
ReadsDamaged(F, D, at, ev) ==
    LET s == ReadUnits(F, {}).events IN
    /\ s \in Seq(Nat) /\ Rising(s) /\ ToSet(s) \subseteq ToSet(ev[Len(D)])
    /\ NothingMisleads(F) =>
          \A i \in 1 .. Len(D) : Intact(F, D, at, i) => Spans(D, i) \subseteq ToSet(s)

\* By a scan up to N, behind which no unit lies whole.
LEMMA ScanReadsDamaged ==
    ASSUME NEW G, NEW D, NEW at, NEW ev, Whole(G, D, at, ev), NEW F, DamageOf(F, G),
           NEW N \in Nat, HeadLen <= N, N <= Len(F), ReadUnits(F, {}) = Scan(F, N),
           NothingMisleads(F) => \A i \in 1 .. Len(D) : Intact(F, D, at, i) => at[i] <= N
    PROVE  ReadsDamaged(F, D, at, ev)
<1> DEFINE s == ReadUnits(F, {}).events
           n == Len(D)
<1>1. ReadsWell(F, N, D, at, s, HeadLen + 1)
  BY ScanOfDamage
<1> HIDE DEF s
<1>2. /\ s \in Seq(Nat) /\ Rising(s)
      /\ \A x \in ToSet(s) : \E i \in 1 .. n : x \in Spans(D, i)
  BY <1>1 DEF ReadsWell, ReadsFrom, From
<1>3. \A i \in 1 .. n : Spans(D, i) \subseteq ToSet(ev[n])
  BY UnitsRise
<1>4. ToSet(s) \subseteq ToSet(ev[n])
  BY <1>2, <1>3
<1>5. ASSUME NothingMisleads(F), NEW i \in 1 .. n, Intact(F, D, at, i)
      PROVE  Spans(D, i) \subseteq ToSet(s)
  <2>1. LengthsAreZero(F)
    <3>1. DOMAIN F = 1 .. Len(F)
      BY DEF DamageOf
    <3> QED
      BY <1>5, <3>1 DEF NothingMisleads, LengthsAreZero
  <2>2. at[i] <= N
    BY <1>5
  <2>3. UnitAt(F, at[i - 1] + 1, N)
    BY <1>5, <2>2, IntactDecodes
  <2>4. HeadLen + 1 <= at[i - 1] + 1
    <3>1. LaidOut(G, D, at, ev) /\ Placed(G, D, at, ev)
      BY LayoutPlaced DEF Whole
    <3>2. i - 1 \in 0 .. n /\ HeadLen \in {0, 1}
      BY <3>1 DEF Placed
    <3>3. at[i - 1] \in HeadLen .. at[n] /\ at[i - 1] \in Nat
      BY <3>1, <3>2 DEF LaidOut, Laid
    <3> DEFINE a == at[i - 1]
    <3>4. a \in Nat /\ a >= HeadLen
      BY <3>2, <3>3
    <3> HIDE DEF a
    <3>5. HeadLen + 1 <= a + 1
      BY <3>2, <3>4
    <3> QED
      BY <3>5 DEF a
  <2>5. \A j \in 1 .. n : UnitAt(F, at[j - 1] + 1, N) /\ HeadLen + 1 <= at[j - 1] + 1
                          => Spans(D, j) \subseteq ToSet(s)
    BY <1>1, <2>1, Zenon DEF ReadsWell, n
  <2> HIDE DEF n
  <2> QED
    BY <1>5, <2>3, <2>4, <2>5
<1> QED
  BY <1>2, <1>4, <1>5, Zenon DEF ReadsDamaged, s, n

LEMMA DamagedIsRead ==
    ASSUME NEW G, NEW D, NEW at, NEW ev, Whole(G, D, at, ev), NEW F, DamageOf(F, G)
    PROVE  ReadsDamaged(F, D, at, ev)
<1> DEFINE n == Len(D)
           c == at[n]
           s == ReadUnits(F, {}).events
<1>1. F \in Seq(DCells) /\ Len(F) \in Nat /\ HeadLen <= Len(F) /\ HeadLen \in {0, 1}
  <2>1. Placed(G, D, at, ev)
    BY LayoutPlaced DEF Whole
  <2> QED
    BY <2>1 DEF DamageOf, Placed
<1>2. CASE ~Chunked \/ ~HasTrailer(F)
  <2>1. ReadUnits(F, {}) = Scan(F, Len(F))
    BY <1>2 DEF ReadUnits
  <2>2. \A i \in 1 .. Len(D) : Intact(F, D, at, i) => at[i] <= Len(F)
    BY DEF Intact
  <2> DEFINE N == Len(F)
  <2>3. N \in Nat /\ HeadLen <= N /\ N <= Len(F) /\ ReadUnits(F, {}) = Scan(F, N)
    BY <1>1, <2>1
  <2>4. NothingMisleads(F) => \A i \in 1 .. Len(D) : Intact(F, D, at, i) => at[i] <= N
    BY <2>2
  <2> HIDE DEF N
  <2> QED
    BY <2>3, <2>4, ScanReadsDamaged
<1>3. CASE Chunked /\ HasTrailer(F)
  <2>1. /\ c \in Nat /\ c >= HeadLen /\ Len(F) = c + 2
        /\ F[Len(F)].kind = "trailer" => F[Len(F)].offset = c
        /\ F[Len(F)].offset \in Nat
        /\ F[c + 1].kind = "index" => F[c + 1].index = EntriesOf(D, at)
    BY <1>3, TrailerIsLast
  <2> HIDE DEF c
  <2>2. Len(F) - 2 = c /\ Len(F) - 1 = c + 1 /\ c <= Len(F)
    BY <2>1
  <2>3. CASE FooterValid(F)
    <3>1. F[c + 1].kind = "index" /\ F[Len(F)].offset = c
      BY <2>1, <2>2, <2>3 DEF FooterValid
    <3>2. ReadUnits(F, {}) = DecodeIndexed(F, c, EntriesOf(D, at), {})
      <4>1. ReadUnits(F, {}) = DecodeIndexed(F, Len(F) - 2, F[Len(F) - 1].index, {})
        BY <1>3, <2>3, Zenon DEF ReadUnits
      <4> QED
        BY <2>1, <2>2, <3>1, <4>1
    <3>3. ReadUpTo(F, D, at, s, n)
      <4>1. at[Len(D)] <= Len(F)
        BY <2>2 DEF c
      <4>2. ReadUpTo(F, D, at, DecodeIndexed(F, at[Len(D)], EntriesOf(D, at), {}).events, Len(D))
        BY <4>1, IndexOfDamage
      <4> QED
        BY <3>2, <4>2 DEF c
    <3> HIDE DEF s
    <3>4. /\ s \in Seq(Nat) /\ Rising(s)
          /\ \A x \in ToSet(s) : \E j \in 1 .. n : x \in Spans(D, j)
          /\ \A j \in 1 .. n : Readable(F, D, at, j) => Spans(D, j) \subseteq ToSet(s)
      BY <3>3 DEF ReadUpTo
    <3>5. \A i \in 1 .. n : Spans(D, i) \subseteq ToSet(ev[n])
      BY UnitsRise
    <3>6. ToSet(s) \subseteq ToSet(ev[n])
      BY <3>4, <3>5
    <3>7. \A i \in 1 .. n : Intact(F, D, at, i) => Spans(D, i) \subseteq ToSet(s)
      BY <3>4, IntactDecodes
    <3> QED
      BY <3>4, <3>6, <3>7, Zenon DEF ReadsDamaged, s, n
  <2>4. CASE ~FooterValid(F)
    <3> DEFINE N == ClaimedEnd(F)
               t == F[Len(F)].offset
    <3>1. ReadUnits(F, {}) = Scan(F, N)
      BY <1>3, <2>4, Zenon DEF ReadUnits
    <3>2. N = IF t \in HeadLen .. c THEN t ELSE Len(F)
      BY <1>3, <2>2, Zenon DEF ClaimedEnd
    <3>3. t \in Nat
      BY <2>1
    <3> HIDE DEF N, t
    <3>4. N \in Nat /\ HeadLen <= N /\ N <= Len(F)
      BY <1>1, <2>1, <2>2, <3>2, <3>3
    <3>5. ASSUME NothingMisleads(F), NEW i \in 1 .. Len(D), Intact(F, D, at, i)
          PROVE  at[i] <= N
      <4>1. t = c
        <5>1. Len(F) \in DOMAIN F
          BY <1>1, <2>1
        <5>2. F[Len(F)].kind \in {"trailer", "badTrailer"}
          BY <1>3 DEF HasTrailer
        <5> QED
          BY <2>1, <2>2, <3>5, <5>1, <5>2 DEF NothingMisleads, t
      <4>2. N = c
        BY <1>1, <2>1, <3>2, <4>1
      <4>3. at[i] \in HeadLen .. c /\ at[i] \in Nat
        <5>1. LaidOut(G, D, at, ev) /\ Placed(G, D, at, ev)
          BY LayoutPlaced DEF Whole
        <5>2. i \in 0 .. Len(D)
          BY <5>1 DEF Placed
        <5> QED
          BY <5>1, <5>2 DEF LaidOut, Laid, c
      <4> DEFINE b == at[i]
      <4>4. b \in HeadLen .. c /\ b \in Nat
        BY <4>3
      <4> HIDE DEF b
      <4>5. b <= N
        BY <1>1, <2>1, <4>2, <4>4
      <4> QED
        BY <4>5 DEF b
    <3> QED
      BY <3>1, <3>4, <3>5, ScanReadsDamaged
  <2> QED
    BY <2>3, <2>4
<1> QED
  BY <1>2, <1>3

-----------------------------------------------------------------------------
(* The damages of one session.                                             *)

\* A session was whole, and held these events, before it was damaged.
Hurt == \E G, D, at, ev : /\ Whole(G, D, at, ev) /\ DamageOf(file, G)
                          /\ ev[Len(D)] = original
                          /\ meta.count # -1 => meta.count = Len(original)

HeadKept == \A i \in 1 .. HeadLen : file[i] = MagicCell

DamageInv ==
    /\ damages \in Nat
    /\ damages = 0 => Inv /\ FileInv /\ HeadKept
    /\ damages > 0 => AtRest /\ Hurt

\* At rest the writer does nothing more to its files.
LEMMA RestingStep ==
    ASSUME AtRest, [Next]_vars
    PROVE  UNCHANGED <<file, meta, pc>>
BY DEF AtRest, vars, history, control, environment, Next, WriteEvent, Push, Seal,
       SealUnit, SealFails, SealNothing, Enqueue, Drain, Draining, DrainUnit,
       DrainDone, DrainFails, Flush, Finalize, Finish, WriteFooter, FooterFails,
       WriteMeta, MetaFails, DiskRefuses, DiskRecovers, Crash, Running

\* The head stays.
LEMMA HeadStep ==
    ASSUME Inv, HeadKept, [Next]_vars
    PROVE  HeadKept'
<1>1. KeepsUnits(file') /\ CursorInFile /\ cursor \in Nat
  BY FileStep DEF Inv, TypeOK
<1>2. HeadLen \in {0, 1} /\ HeadLen <= cursor
  BY <1>1 DEF HeadLen, CursorInFile
<1>3. \A i \in 1 .. cursor : file'[i] = file[i]
  BY <1>1 DEF KeepsUnits
<1> QED
  BY <1>1, <1>2, <1>3 DEF HeadKept

\* What damage makes of one cell.
LEMMA FlippedCell ==
    ASSUME NEW cell \in DCells, NEW new \in Flips(cell)
    PROVE  \/ new \in [kind : {"damaged"}, len : Nat]
           \/ new \in [kind : {"badTrailer"}, offset : Nat] /\ cell.kind = "trailer"
<1>1. CASE new \in {DamagedCell(n) : n \in LengthFlips}
  <2>1. PICK n \in LengthFlips : new = DamagedCell(n)
    BY <1>1, Zenon
  <2>2. n \in Nat
    BY DamageAssumption
  <2>3. new = [kind |-> "damaged", len |-> n]
    BY <2>1, Zenon DEF DamagedCell
  <2> QED
    BY <2>2, <2>3
<1>2. CASE new \notin {DamagedCell(n) : n \in LengthFlips}
  <2>1. /\ cell.kind = "trailer"
        /\ new \in {[kind |-> "badTrailer", offset |-> n] :
                       n \in OffsetFlips \cup {cell.offset}}
    BY <1>2 DEF Flips
  <2>2. cell.offset \in Nat
    BY <2>1 DEF DCells, Cells
  <2> QED
    BY <2>1, <2>2, DamageAssumption
<1> QED
  BY <1>1, <1>2

LEMMA FlipDamages ==
    ASSUME NEW F, NEW G, DamageOf(F, G), Len(G) \in Nat,
           NEW i \in 1 .. Len(F), F[i].kind # "magic", NEW cell \in Flips(F[i])
    PROVE  DamageOf([F EXCEPT ![i] = cell], G)
<1> DEFINE E == [F EXCEPT ![i] = cell]
<1>1. F \in Seq(DCells) /\ F[i] \in DCells /\ Len(F) \in HeadLen .. Len(G)
  BY DEF DamageOf
<1>2. \/ cell \in [kind : {"damaged"}, len : Nat]
      \/ cell \in [kind : {"badTrailer"}, offset : Nat] /\ F[i].kind = "trailer"
  BY <1>1, FlippedCell
<1>3. cell \in DCells
  BY <1>2 DEF DCells
<1>4. E \in Seq(DCells) /\ Len(E) = Len(F) /\ E[i] = cell
  BY <1>1, <1>3
<1>5. \A q \in 1 .. Len(F) : q # i => E[q] = F[q]
  BY <1>1
<1>6. \A q \in 1 .. Len(F) :
        \/ F[q] = G[q]
        \/ F[q] \in [kind : {"damaged"}, len : Nat]
        \/ F[q] \in [kind : {"badTrailer"}, offset : Nat] /\ G[q].kind = "trailer"
  BY DEF DamageOf
<1> HIDE DEF E
<1>7. \A q \in 1 .. HeadLen : E[q] = MagicCell
  <2> SUFFICES ASSUME NEW q \in 1 .. HeadLen PROVE E[q] = MagicCell
    OBVIOUS
  <2>1. F[q] = MagicCell
    BY DEF DamageOf
  <2>2. q # i
    BY <2>1 DEF MagicCell
  <2>3. q \in 1 .. Len(F)
    BY <1>1 DEF HeadLen
  <2> QED
    BY <1>5, <2>1, <2>2, <2>3
<1>8. ASSUME NEW q \in 1 .. Len(F)
      PROVE  \/ E[q] = G[q]
             \/ E[q] \in [kind : {"damaged"}, len : Nat]
             \/ E[q] \in [kind : {"badTrailer"}, offset : Nat] /\ G[q].kind = "trailer"
  <2>1. CASE q # i
    BY <1>5, <1>6, <1>8, <2>1
  <2>2. CASE q = i
    <3>1. F[i].kind = "trailer" => F[i] = G[i]
      BY <1>6
    <3> QED
      BY <1>2, <1>4, <2>2, <3>1
  <2> QED
    BY <2>1, <2>2
<1>9. DamageOf(E, G)
  BY <1>1, <1>4, <1>7, <1>8 DEF DamageOf
<1> QED
  BY <1>9 DEF E

LEMMA CutDamages ==
    ASSUME NEW F, NEW G, DamageOf(F, G), Len(G) \in Nat,
           NEW n \in 0 .. Len(F) - 1, n >= HeadLen
    PROVE  DamageOf(SubSeq(F, 1, n), G)
<1> DEFINE E == SubSeq(F, 1, n)
<1>1. F \in Seq(DCells) /\ Len(F) \in HeadLen .. Len(G) /\ HeadLen \in {0, 1}
  BY DEF DamageOf, HeadLen
<1>2. E \in Seq(DCells) /\ Len(E) = n /\ \A q \in 1 .. n : E[q] = F[q]
  BY <1>1
<1> HIDE DEF E
<1>3. n \in HeadLen .. Len(G) /\ 1 .. n \subseteq 1 .. Len(F) /\ 1 .. HeadLen \subseteq 1 .. n
  BY <1>1
<1>4. DamageOf(E, G)
  BY <1>2, <1>3 DEF DamageOf
<1> QED
  BY <1>4 DEF E

\* A session at rest that was not damaged is whole.
LEMMA RestIsWhole ==
    ASSUME Inv, FileInv, HeadKept, AtRest
    PROVE  \E D, at, ev : /\ Whole(file, D, at, ev) /\ DamageOf(file, file)
                          /\ ev[Len(D)] = Stored
                          /\ meta.count # -1 => meta.count = Len(Stored)
<1>1. file \in Seq(Cells) /\ Len(file) \in Nat
  BY DEF Inv, TypeOK
<1>2. PICK c, entries : FileHolds(file, c, entries, Stored)
  BY DEF FileInv, DiskInv
<1>3. PICK D \in Seq(Units) :
        \E at \in [0 .. Len(D) -> Nat], ev \in [0 .. Len(D) -> Seq(Nat)] :
          /\ Laid(file, D, at, ev)
          /\ TailOf(file, c, entries)
          /\ at[Len(D)] = c /\ ev[Len(D)] = Stored
          /\ Chunked => entries = EntriesOf(D, at)
  BY <1>2 DEF FileHolds
<1>4. PICK at \in [0 .. Len(D) -> Nat], ev \in [0 .. Len(D) -> Seq(Nat)] :
        /\ Laid(file, D, at, ev)
        /\ TailOf(file, c, entries)
        /\ at[Len(D)] = c /\ ev[Len(D)] = Stored
        /\ Chunked => entries = EntriesOf(D, at)
  BY <1>3
<1>5. LaidOut(file, D, at, ev)
  BY <1>1, <1>4 DEF LaidOut
<1>6. TailOf(file, at[Len(D)], EntriesOf(D, at))
  <2>1. CASE Chunked
    BY <1>4, <2>1
  <2>2. CASE ~Chunked
    BY <1>4, <2>2 DEF TailOf, FooterBegun
  <2> QED
    BY <2>1, <2>2
<1>7. Rising(Stored) /\ (meta.count # -1 => meta.count = Len(Stored))
  BY DEF FileInv, StoredInv
<1>8. Whole(file, D, at, ev)
  BY <1>4, <1>5, <1>6, <1>7 DEF Whole
<1>9. DamageOf(file, file)
  <2>1. HeadLen <= Len(file) /\ HeadLen \in {0, 1}
    <3>1. cursor \in Nat /\ CursorInFile
      BY DEF Inv, TypeOK
    <3> QED
      BY <1>1, <3>1 DEF CursorInFile, HeadLen
  <2>2. file \in Seq(DCells)
    BY <1>1 DEF DCells
  <2> QED
    BY <1>1, <2>1, <2>2 DEF DamageOf, HeadKept
<1> QED
  BY <1>4, <1>7, <1>8, <1>9

\* Damage adds to the damage there was.
LEMMA HurtStep ==
    ASSUME DamageInv, NEW newFile, DamageTo(newFile),
           \A G : DamageOf(file, G) /\ Len(G) \in Nat => DamageOf(newFile, G)
    PROVE  DamageInv'
<1>1. /\ AtRest /\ file' = newFile /\ damages' = damages + 1 /\ meta' = meta /\ pc' = pc
      /\ original' = IF damages = 0 THEN Stored ELSE original
  BY DEF DamageTo, control
<1>2. damages \in Nat
  BY DEF DamageInv
<1>3. \E G, D, at, ev : /\ Whole(G, D, at, ev) /\ DamageOf(file, G)
                        /\ ev[Len(D)] = original'
                        /\ meta.count # -1 => meta.count = Len(original')
  <2>1. CASE damages = 0
    <3>1. original' = Stored
      BY <1>1, <2>1
    <3> QED
      BY <1>1, <2>1, <3>1, RestIsWhole DEF DamageInv
  <2>2. CASE damages # 0
    <3>1. original' = original /\ Hurt
      BY <1>1, <1>2, <2>2 DEF DamageInv
    <3> QED
      BY <3>1 DEF Hurt
  <2> QED
    BY <2>1, <2>2
<1>4. PICK G, D, at, ev : /\ Whole(G, D, at, ev) /\ DamageOf(file, G)
                          /\ ev[Len(D)] = original'
                          /\ meta.count # -1 => meta.count = Len(original')
  BY <1>3
<1>5. Len(G) \in Nat
  BY <1>4 DEF Whole, LaidOut
<1>6. DamageOf(file', G)
  BY <1>1, <1>4, <1>5
<1>7. Hurt'
  BY <1>1, <1>4, <1>6 DEF Hurt
<1>8. AtRest'
  BY <1>1 DEF AtRest
<1> QED
  BY <1>1, <1>2, <1>7, <1>8 DEF DamageInv

LEMMA DamageNextInv == DamageInv /\ [DamageNext]_damageVars => DamageInv'
<1> SUFFICES ASSUME DamageInv, [DamageNext]_damageVars PROVE DamageInv'
  OBVIOUS
<1>1. ASSUME [Next]_vars, UNCHANGED <<damages, original>>
      PROVE  DamageInv'
  <2>1. CASE damages = 0
    <3>1. Inv /\ FileInv /\ HeadKept
      BY <2>1 DEF DamageInv
    <3>2. Inv'
      BY <1>1, <3>1, NextInv
    <3>3. FileInv' /\ HeadKept'
      BY <1>1, <3>1, <3>2, FileInvNext, HeadStep
    <3> QED
      BY <1>1, <2>1, <3>2, <3>3 DEF DamageInv
  <2>2. CASE damages # 0
    <3>1. damages \in Nat /\ AtRest /\ Hurt
      BY <2>2 DEF DamageInv
    <3>2. UNCHANGED <<file, meta, pc>>
      BY <1>1, <3>1, RestingStep
    <3>3. AtRest' /\ Hurt'
      BY <1>1, <3>1, <3>2 DEF AtRest, Hurt
    <3> QED
      BY <1>1, <2>2, <3>1, <3>3 DEF DamageInv
  <2> QED
    BY <2>1, <2>2
<1>2. CASE Work
  BY <1>1, <1>2 DEF Work
<1>3. ASSUME NEW i \in 1 .. Len(file), Flip(i)
      PROVE  DamageInv'
  <2>1. PICK cell \in Flips(file[i]) : DamageTo([file EXCEPT ![i] = cell])
    BY <1>3 DEF Flip
  <2>2. file[i].kind # "magic"
    BY <1>3 DEF Flip
  <2>3. \A G : DamageOf(file, G) /\ Len(G) \in Nat => DamageOf([file EXCEPT ![i] = cell], G)
    BY <2>1, <2>2, FlipDamages
  <2> QED
    BY <2>1, <2>3, HurtStep
<1>4. ASSUME NEW n \in 0 .. Len(file) - 1, Truncate(n)
      PROVE  DamageInv'
  <2>1. n >= HeadLen /\ DamageTo(SubSeq(file, 1, n))
    BY <1>4 DEF Truncate
  <2>2. \A G : DamageOf(file, G) /\ Len(G) \in Nat => DamageOf(SubSeq(file, 1, n), G)
    BY <2>1, CutDamages
  <2> QED
    BY <2>1, <2>2, HurtStep
<1>5. CASE UNCHANGED damageVars
  BY <1>1, <1>5 DEF damageVars
<1> QED
  BY <1>2, <1>3, <1>4, <1>5 DEF DamageNext

LEMMA DamageInvInit == DamageInit => DamageInv
<1> SUFFICES ASSUME DamageInit PROVE DamageInv
  OBVIOUS
<1>1. Init /\ damages = 0
  BY DEF DamageInit
<1>2. Inv /\ FileInv
  BY <1>1, InitInv, FileInvInit
<1>3. HeadKept
  BY <1>1 DEF Init, HeadKept, HeadLen
<1> QED
  BY <1>1, <1>2, <1>3 DEF DamageInv

\* As many events as the metadata counts are all of them.
LEMMA ReportedWhenHurt ==
    ASSUME Hurt, meta.count # -1
    PROVE  Stored = original \/ Read(file, meta).damaged
<1>1. PICK G, D, at, ev : /\ Whole(G, D, at, ev) /\ DamageOf(file, G)
                          /\ ev[Len(D)] = original
                          /\ meta.count # -1 => meta.count = Len(original)
  BY DEF Hurt
<1> DEFINE s == ReadUnits(file, {}).events
<1>2. s \in Seq(Nat) /\ Rising(s) /\ ToSet(s) \subseteq ToSet(original)
  BY <1>1, DamagedIsRead DEF ReadsDamaged
<1>3. original \in Seq(Nat) /\ Rising(original)
  <2>1. Placed(G, D, at, ev)
    BY <1>1, LayoutPlaced DEF Whole
  <2>2. Len(D) \in 0 .. Len(D)
    BY <2>1 DEF Placed
  <2> QED
    BY <1>1, <2>1, <2>2 DEF Placed, Whole
<1>4. Stored = s /\ (Len(s) < meta.count => Read(file, meta).damaged)
  BY DEF Stored, Read
<1>5. meta.count = Len(original)
  BY <1>1
<1> HIDE DEF s
<1>6. CASE Len(s) < meta.count
  BY <1>4, <1>6
<1>7. CASE ~(Len(s) < meta.count)
  <2>1. Len(s) >= Len(original)
    BY <1>2, <1>3, <1>5, <1>7
  <2>2. s = original
    BY <1>2, <1>3, <2>1, RisingSame
  <2> QED
    BY <1>4, <2>2
<1> QED
  BY <1>6, <1>7

\* A unit found whole is one of those laid.
LEMMA IntactUnitIsLaid ==
    ASSUME NEW G, NEW D, NEW at, NEW ev, Whole(G, D, at, ev), DamageOf(file, G),
           NEW u \in IntactUnits
    PROVE  \E i \in 1 .. Len(D) : u = D[i] /\ Intact(file, D, at, i)
<1>1. PICK q \in 1 .. Len(file) :
        /\ u = file[q].u /\ file[q].kind = "unit" /\ file[q].k = 1
        /\ q + Size(u) - 1 <= Len(file)
        /\ SubSeq(file, q, q + Size(u) - 1) = CellsOf(u)
  BY DEF IntactUnits
<1>2. /\ file \in Seq(DCells) /\ Len(file) \in Nat /\ Len(G) \in Nat
      /\ Len(file) <= Len(G) /\ HeadLen \in {0, 1}
      /\ LaidOut(G, D, at, ev) /\ Placed(G, D, at, ev)
  <2>1. LaidOut(G, D, at, ev) /\ Placed(G, D, at, ev)
    BY LayoutPlaced DEF Whole
  <2>2. Len(G) \in Nat /\ HeadLen \in {0, 1}
    BY <2>1 DEF Placed
  <2> QED
    BY <2>1, <2>2 DEF DamageOf
<1>3. file[q] = G[q]
  BY <1>1 DEF DamageOf
<1>4. q \in HeadLen + 1 .. Len(G)
  <2>1. q \notin 1 .. HeadLen
    BY <1>1 DEF DamageOf, MagicCell
  <2> QED
    BY <1>2, <2>1
<1>5. G[q].kind = "unit"
  BY <1>1, <1>3
<1>6. \/ \E i \in 1 .. Len(D) :
           q \in at[i - 1] + 1 .. at[i] /\ G[q] = UnitCell(D[i], q - at[i - 1])
      \/ \E v \in Units : /\ Begun(G, at[Len(D)], v)
                          /\ q > at[Len(D)] /\ G[q] = UnitCell(v, q - at[Len(D)])
  BY <1>4, <1>5, WhereUnitCellsLie
<1>7. ASSUME NEW v \in Units, Begun(G, at[Len(D)], v), q > at[Len(D)],
             G[q] = UnitCell(v, q - at[Len(D)])
      PROVE  FALSE
  <2> DEFINE c == at[Len(D)]
  <2>1. u = v /\ q - c = 1
    BY <1>1, <1>3, <1>7 DEF UnitCell
  <2>2. Len(G) < c + Size(u)
    BY <1>7, <2>1 DEF Begun
  <2>3. c \in Nat
    <3>1. Len(D) \in 0 .. Len(D)
      BY <1>2 DEF Placed
    <3> QED
      BY <1>2, <3>1 DEF Placed
  <2>4. Size(u) \in Nat
    BY <1>2, <2>1 DEF Size, Units, PrefixLen
  <2> HIDE DEF c
  <2> QED
    BY <1>1, <1>2, <2>1, <2>2, <2>3, <2>4
<1>8. ASSUME NEW i \in 1 .. Len(D), q \in at[i - 1] + 1 .. at[i],
             G[q] = UnitCell(D[i], q - at[i - 1])
      PROVE  u = D[i] /\ Intact(file, D, at, i)
  <2> DEFINE a == at[i - 1]
             z == Size(u)
  <2>1. u = D[i] /\ q - a = 1
    BY <1>1, <1>3, <1>8 DEF UnitCell
  <2>2. a \in Nat /\ z \in Nat \ {0} /\ at[i] = a + z
    <3>1. UnitLies(G, D, at, ev, i)
      BY <1>2, PlacedUnit
    <3> QED
      BY <2>1, <3>1, Zenon DEF UnitLies
  <2> HIDE DEF a
  <2>3. q = a + 1 /\ at[i] <= Len(file)
    <3> HIDE DEF z
    <3>1. q + z - 1 <= Len(file)
      BY <1>1 DEF z
    <3> QED
      BY <1>2, <2>1, <2>2, <3>1
  <2>4. ASSUME NEW k \in 1 .. z
        PROVE  file[a + k] = UnitCell(u, k)
    <3>1. CellsOf(u)[k] = UnitCell(u, k)
      BY <2>4 DEF CellsOf
    <3>2. SubSeq(file, q, q + z - 1)[k] = UnitCell(u, k)
      BY <1>1, <3>1
    <3> HIDE DEF z
    <3>3. SubSeq(file, q, q + z - 1)[k] = file[a + k]
      <4> DEFINE m == q + z - 1
      <4>1. q + z - 1 <= Len(file)
        BY <1>1 DEF z
      <4>2. m \in Nat /\ m <= Len(file) /\ k \in 1 .. m - q + 1 /\ q + k - 1 = a + k
        BY <1>2, <2>2, <2>3, <2>4, <4>1
      <4> HIDE DEF m
      <4>3. SubSeq(file, q, m)[k] = file[q + k - 1]
        BY <1>2, <4>2
      <4> QED
        BY <4>2, <4>3 DEF m
    <3> QED
      BY <3>2, <3>3
  <2> QED
    BY <2>1, <2>3, <2>4 DEF Intact, a, z
<1> QED
  BY <1>6, <1>7, <1>8

LEMMA OnlyItsUnitWhenHurt ==
    ASSUME Hurt, NoMisleadingLength, NEW u \in IntactUnits
    PROVE  u.first .. u.last \subseteq ToSet(Stored)
<1>1. PICK G, D, at, ev : Whole(G, D, at, ev) /\ DamageOf(file, G)
  BY DEF Hurt
<1>2. PICK i \in 1 .. Len(D) : u = D[i] /\ Intact(file, D, at, i)
  BY <1>1, IntactUnitIsLaid
<1>3. NothingMisleads(file)
  BY DEF NoMisleadingLength, NothingMisleads
<1>4. Spans(D, i) \subseteq ToSet(ReadUnits(file, {}).events)
  BY <1>1, <1>2, <1>3, DamagedIsRead DEF ReadsDamaged
<1> QED
  BY <1>2, <1>4 DEF Spans, Stored, Read

LEMMA HandledWhenHurt == DamageInv => DamageIsHandled
BY ReportedWhenHurt, OnlyItsUnitWhenHurt
   DEF DamageInv, DamageIsHandled, FinalizedDamageIsReported, DamageCostsOnlyItsUnit

THEOREM DamageIsHandledAlways == DamageSpec => []DamageIsHandled
<1>1. DamageSpec => []DamageInv
  BY DamageInvInit, DamageNextInv, PTL DEF DamageSpec
<1> QED
  BY <1>1, HandledWhenHurt, PTL

-----------------------------------------------------------------------------
(* Command buffers: sums of kernel times.                                  *)

\* f[i] is the sum of the first i of s.
Sums(s, f) ==
    /\ f \in [0 .. Len(s) -> Nat] /\ f[0] = 0
    /\ \A i \in 1 .. Len(s) : f[i] = f[i - 1] + s[i]

LEMMA SumsExist ==
    ASSUME NEW s \in Seq(Nat)
    PROVE  \E f : Sums(s, f)
<1> DEFINE n == Len(s)
           Upto(m, f) == /\ f \in [0 .. m -> Nat] /\ f[0] = 0
                         /\ \A i \in 1 .. m : f[i] = f[i - 1] + s[i]
           S == {m \in 0 .. n : \E f : Upto(m, f)}
<1>1. n \in Nat /\ \A i \in 1 .. n : s[i] \in Nat
  OBVIOUS
<1> HIDE DEF n
<1>2. 0 \in S
  <2> DEFINE f == [i \in 0 .. 0 |-> 0]
  <2>1. f \in [0 .. 0 -> Nat] /\ f[0] = 0 /\ 1 .. 0 = {}
    OBVIOUS
  <2> HIDE DEF f
  <2>2. Upto(0, f)
    BY <2>1
  <2> QED
    BY <1>1, <2>2
<1>3. ASSUME NEW m \in 0 .. n, m # n, m \in S
      PROVE  m + 1 \in S
  <2>1. PICK f : Upto(m, f)
    BY <1>3
  <2>2. m \in Nat /\ m + 1 \in 1 .. n /\ m \in 0 .. m
    BY <1>1, <1>3
  <2> DEFINE g == [i \in 0 .. m + 1 |-> IF i = m + 1 THEN f[m] + s[m + 1] ELSE f[i]]
  <2>3. f[m] \in Nat /\ s[m + 1] \in Nat /\ f[m] + s[m + 1] \in Nat
    BY <1>1, <2>1, <2>2
  <2>4. \A i \in 0 .. m + 1 : i = m + 1 \/ (i \in 0 .. m /\ i # m + 1)
    BY <2>2
  <2>5. g \in [0 .. m + 1 -> Nat]
    BY <2>1, <2>3, <2>4
  <2>6. g[0] = 0 /\ g[m + 1] = f[m] + s[m + 1] /\ g[m] = f[m]
    BY <2>1, <2>2
  <2>7. ASSUME NEW i \in 1 .. m + 1
        PROVE  g[i] = g[i - 1] + s[i]
    <3>1. CASE i = m + 1
      BY <2>2, <2>6, <3>1
    <3>2. CASE i # m + 1
      <4>1. i \in 1 .. m /\ i \in 0 .. m + 1 /\ i - 1 \in 0 .. m + 1 /\ i - 1 # m + 1
        BY <2>2, <2>7, <3>2
      <4>2. g[i] = f[i] /\ g[i - 1] = f[i - 1]
        BY <3>2, <4>1
      <4> QED
        BY <2>1, <4>1, <4>2
    <3> QED
      BY <3>1, <3>2
  <2> HIDE DEF g
  <2>8. Upto(m + 1, g)
    BY <2>5, <2>6, <2>7
  <2>9. m + 1 \in 0 .. n
    BY <2>2
  <2> QED
    BY <2>8, <2>9
<1> HIDE DEF S
<1>4. n \in S
  <2>1. 0 .. n \subseteq S
    BY <1>1, <1>2, <1>3, InductionUpTo
  <2> QED
    BY <1>1, <2>1
<1> QED
  BY <1>4 DEF S, Sums, n

LEMMA OpSumIs ==
    ASSUME NEW s \in Seq(Nat), NEW f, Sums(s, f)
    PROVE  OpSum(s) = f[Len(s)]
<1> DEFINE n == Len(s)
           Add(g, i) == IF i = 0 THEN 0 ELSE g[i - 1] + s[i]
           K == CHOOSE g : g = [i \in 0 .. n |-> Add(g, i)]
<1>1. n \in Nat
  OBVIOUS
<1>2. /\ f \in [0 .. n -> Nat] /\ f[0] = 0
      /\ \A i \in 1 .. n : f[i] = f[i - 1] + s[i]
  BY DEF Sums
<1> HIDE DEF n
<1>3. \A i \in 0 .. n : f[i] = Add(f, i)
  <2> TAKE i \in 0 .. n
  <2>1. CASE i = 0
    BY <1>2, <2>1
  <2>2. CASE i # 0
    BY <1>1, <1>2, <2>2
  <2> QED
    BY <2>1, <2>2
<1>4. f = [i \in 0 .. n |-> Add(f, i)]
  BY <1>2, <1>3
<1>5. K = [i \in 0 .. n |-> Add(K, i)]
  BY <1>4, Zenon
<1> HIDE DEF K
<1>6. \A m \in 0 .. n : K[m] = f[m]
  <2> DEFINE G == {m \in 0 .. n : K[m] = f[m]}
  <2>1. 0 \in G
    BY <1>1, <1>2, <1>5
  <2>2. ASSUME NEW m \in 0 .. n, m # n, m \in G
        PROVE  m + 1 \in G
    <3>1. m + 1 \in 0 .. n /\ m + 1 \in 1 .. n /\ m + 1 # 0 /\ (m + 1) - 1 = m
      BY <1>1, <2>2
    <3>2. K[m + 1] = K[m] + s[m + 1]
      BY <1>5, <3>1
    <3>3. f[m + 1] = f[m] + s[m + 1]
      BY <1>2, <3>1
    <3> QED
      BY <2>2, <3>1, <3>2, <3>3
  <2> HIDE DEF G
  <2>3. 0 .. n \subseteq G
    BY <1>1, <2>1, <2>2, InductionUpTo
  <2> QED
    BY <2>3 DEF G
<1>7. K[n] = f[n]
  BY <1>1, <1>6
<1> QED
  BY <1>7 DEF OpSum, K, n

LEMMA Distributes ==
    ASSUME NEW x \in Int, NEW y \in Int, NEW z \in Int
    PROVE  x * (y + z) = x * y + x * z /\ x * y = y * x /\ x * y \in Int
OBVIOUS

LEMMA ProductsRise ==
    ASSUME NEW x \in Nat, NEW y \in Nat, NEW z \in Nat, y <= z
    PROVE  x * y <= x * z
OBVIOUS

\* A quotient is within one of the fraction.
LEMMA Quotient ==
    ASSUME NEW a \in Nat, NEW d \in Nat \ {0}
    PROVE  /\ a \div d \in Nat
           /\ d * (a \div d) <= a /\ a < d * (a \div d) + d
OBVIOUS

\* Times scaled to a window w, each rounded down, sum up to no more than it, and
\* fall short of it by less than their number.
LEMMA ScaledSum ==
    ASSUME NEW s \in Seq(Nat), NEW w \in Nat, OpSum(s) > w,
           NEW t, t = [i \in DOMAIN s |-> (s[i] * w) \div OpSum(s)]
    PROVE  /\ t \in Seq(Nat) /\ Len(t) = Len(s)
           /\ OpSum(t) <= w /\ OpSum(t) > w - Len(t)
<1> DEFINE n == Len(s)
           d == OpSum(s)
<1>1. PICK f : Sums(s, f)
  BY SumsExist
<1>2. d = f[n]
  BY <1>1, OpSumIs
<1>3. n \in Nat /\ DOMAIN s = 1 .. n /\ \A i \in 1 .. n : s[i] \in Nat
  OBVIOUS
<1>4. d \in Nat \ {0}
  BY <1>1, <1>2, <1>3 DEF Sums
<1> HIDE DEF d, n
<1>5. \A i \in 1 .. n : t[i] \in Nat /\ d * t[i] <= s[i] * w /\ s[i] * w < d * t[i] + d
  <2> SUFFICES ASSUME NEW i \in 1 .. n
               PROVE  t[i] \in Nat /\ d * t[i] <= s[i] * w /\ s[i] * w < d * t[i] + d
    OBVIOUS
  <2> DEFINE a == s[i] * w
  <2>1. a \in Nat /\ t[i] = a \div d
    BY <1>3 DEF d
  <2> HIDE DEF a
  <2> QED
    BY <1>4, <2>1, Quotient DEF a
<1>6. t \in Seq(Nat) /\ Len(t) = n
  BY <1>3, <1>5 DEF n
<1>7. PICK g : Sums(t, g)
  BY <1>6, SumsExist
<1>8. OpSum(t) = g[n]
  BY <1>6, <1>7, OpSumIs
<1>a. /\ \A i \in 0 .. n : f[i] \in Nat /\ g[i] \in Nat
      /\ \A i \in 1 .. n : f[i] = f[i - 1] + s[i] /\ g[i] = g[i - 1] + t[i]
  <2>1. /\ f \in [0 .. n -> Nat] /\ \A i \in 1 .. n : f[i] = f[i - 1] + s[i]
    BY <1>1 DEF Sums, n
  <2>2. /\ g \in [0 .. n -> Nat] /\ \A i \in 1 .. n : g[i] = g[i - 1] + t[i]
    BY <1>6, <1>7 DEF Sums
  <2> QED
    BY <2>1, <2>2
<1> DEFINE G == {m \in 0 .. n : d * g[m] <= w * f[m] /\ w * f[m] <= d * (g[m] + m)
                                /\ (m # 0 => w * f[m] < d * (g[m] + m))}
<1>9. 0 \in G
  BY <1>1, <1>3, <1>4, <1>7 DEF Sums
<1>10. ASSUME NEW m \in 0 .. n, m # n, m \in G
       PROVE  m + 1 \in G
  <2>1. m + 1 \in 1 .. n /\ (m + 1) - 1 = m /\ m \in Nat
    BY <1>3, <1>10
  <2>2. /\ f[m] \in Nat /\ f[m + 1] = f[m] + s[m + 1] /\ f[m + 1] \in Nat
    <3> DEFINE k == m + 1
    <3>1. k \in 1 .. n /\ k - 1 = m
      BY <2>1
    <3> HIDE DEF k
    <3>2. k \in 0 .. n /\ f[k] = f[k - 1] + s[k]
      BY <1>3, <1>a, <3>1
    <3> QED
      BY <1>a, <3>1, <3>2 DEF k
  <2>3. /\ g[m] \in Nat /\ g[m + 1] = g[m] + t[m + 1] /\ g[m + 1] \in Nat
    <3> DEFINE k == m + 1
    <3>1. k \in 1 .. n /\ k - 1 = m
      BY <2>1
    <3> HIDE DEF k
    <3>2. k \in 0 .. n /\ g[k] = g[k - 1] + t[k]
      BY <1>3, <1>a, <3>1
    <3> QED
      BY <1>a, <3>1, <3>2 DEF k
  <2> DEFINE x == s[m + 1]
             y == t[m + 1]
             F == f[m]
             E == g[m]
  <2>4. /\ x \in Nat /\ y \in Nat /\ F \in Nat /\ E \in Nat /\ m \in Nat
        /\ d * y <= x * w /\ x * w < d * y + d
        /\ d * E <= w * F /\ w * F <= d * (E + m)
        /\ f[m + 1] = F + x /\ g[m + 1] = E + y
    BY <1>3, <1>5, <1>10, <2>1, <2>2, <2>3
  <2> HIDE DEF x, y, F, E
  <2>5. /\ w * (F + x) = w * F + x * w /\ d * (E + y) = d * E + d * y
        /\ d * (E + y + (m + 1)) = d * (E + m) + (d * y + d)
    <3>1. E + y + (m + 1) = (E + m) + (y + 1) /\ d \in Int /\ d * 1 = d
      BY <1>4, <2>4
    <3>2. d * ((E + m) + (y + 1)) = d * (E + m) + d * (y + 1)
      BY <1>4, <2>4, Distributes
    <3>3. d * (y + 1) = d * y + d
      BY <2>4, <3>1, Distributes
    <3>4. w * (F + x) = w * F + x * w
      BY <2>4, Distributes
    <3>5. d * (E + y) = d * E + d * y
      BY <1>4, <2>4, Distributes
    <3> QED
      BY <3>1, <3>2, <3>3, <3>4, <3>5
  <2>6. d * (E + y) <= w * (F + x) /\ w * (F + x) < d * (E + y + (m + 1))
    <3> DEFINE A == d * E
               B == w * F
               C == d * (E + m)
               U == d * y
               V == x * w
    <3>1. A \in Int /\ B \in Int /\ C \in Int /\ U \in Int /\ V \in Int /\ d \in Int
      <4>1. d \in Int /\ E \in Int /\ F \in Int /\ w \in Int /\ x \in Int /\ y \in Int /\ E + m \in Int
        BY <1>4, <2>4
      <4> QED
        BY <4>1, Distributes
    <3>2. U <= V /\ V < U + d /\ A <= B /\ B <= C
      BY <2>4
    <3>3. w * (F + x) = B + V /\ d * (E + y) = A + U /\ d * (E + y + (m + 1)) = C + (U + d)
      BY <2>5
    <3> HIDE DEF A, B, C, U, V
    <3> QED
      BY <3>1, <3>2, <3>3
  <2>7. m + 1 \in 0 .. n
    BY <2>1
  <2> DEFINE A == d * g[m + 1]
             B == w * f[m + 1]
             C == d * (g[m + 1] + (m + 1))
  <2>8. A <= B /\ B < C
    BY <2>4, <2>6, Zenon
  <2>9. B \in Int /\ C \in Int
    <3>1. d \in Int /\ w \in Int /\ f[m + 1] \in Int /\ g[m + 1] + (m + 1) \in Int
      BY <1>4, <2>1, <2>2, <2>3
    <3> QED
      BY <3>1, Distributes
  <2> HIDE DEF A, B, C
  <2>10. A <= B /\ B <= C /\ (m + 1 # 0 => B < C)
    BY <2>8, <2>9
  <2> QED
    BY <2>7, <2>10, Zenon DEF A, B, C
<1> HIDE DEF G
<1>11. n \in G
  <2>1. 0 .. n \subseteq G
    BY <1>3, <1>9, <1>10, InductionUpTo
  <2> QED
    BY <1>3, <2>1
<1>12. n # 0
  BY <1>1, <1>2, <1>4 DEF Sums
<1> DEFINE P == g[n]
<1>13. P \in Nat
  BY <1>3, <1>6, <1>7 DEF Sums
<1>14. d * P <= w * d /\ w * d < d * (P + n)
  BY <1>2, <1>11, <1>12 DEF G
<1> HIDE DEF P
<1>15. P <= w
  <2> SUFFICES ASSUME P >= w + 1 PROVE FALSE
    BY <1>13
  <2>1. d * (w + 1) <= d * P
    BY <1>4, <1>13, ProductsRise
  <2>2. d * (w + 1) = w * d + d /\ w * d \in Int /\ d * P \in Int
    <3>1. d \in Int /\ w \in Int /\ P \in Int /\ d * 1 = d
      BY <1>4, <1>13
    <3> QED
      BY <3>1, Distributes
  <2> QED
    BY <1>4, <1>14, <2>1, <2>2
<1>16. w < P + n
  <2> SUFFICES ASSUME w >= P + n PROVE FALSE
    BY <1>3, <1>13
  <2>1. d * (P + n) <= d * w
    BY <1>3, <1>4, <1>13, ProductsRise
  <2>2. w * d = d * w /\ w * d \in Int /\ d * (P + n) \in Int
    <3>1. d \in Int /\ w \in Int /\ P + n \in Int
      BY <1>3, <1>4, <1>13
    <3> QED
      BY <3>1, Distributes
  <2> QED
    BY <1>14, <2>1, <2>2
<1> QED
  BY <1>3, <1>6, <1>8, <1>13, <1>15, <1>16 DEF P, n

-----------------------------------------------------------------------------
(* The lives of the buffers.                                               *)

Frames == {"committed", "scheduled", "completed", "ops"}
Lives == [cb : Pointers, queue : Queues, ops : Seq(Nat), stage : Frames \cup {"free"},
          commit : Nat, sched : Nat, done : Nat, got : SUBSET Frames]

\* The frames sent about a buffer, and those of them that did not arrive.
SentOf(r) == {k \in Frames :
    /\ k = "scheduled" => r.sched > 0
    /\ k = "completed" => r.done > 0
    /\ k = "ops" => r.stage = "ops" \/ (r.stage = "free" /\ r.ops # <<>>)}
Missing(r) == SentOf(r) \ r.got

LifeOK(r, now) ==
    /\ r.commit \in 1 .. now /\ r.sched <= now /\ r.done <= now
    /\ r.stage = "committed" => r.sched = 0 /\ r.done = 0
    /\ r.stage = "scheduled" => r.commit < r.sched /\ r.done = 0
    /\ r.stage \in {"completed", "ops", "free"} => r.commit < r.sched /\ r.sched < r.done
    /\ r.stage = "ops" => r.ops # <<>>
    /\ r.got \subseteq SentOf(r)

\* A pointer is that of one buffer at a time; no two complete at once.
BuffersOK ==
    /\ buffers \in Seq(Lives) /\ sent \in Nat /\ lostFrames \in Nat
    /\ \A b \in Buffers : LifeOK(buffers[b], sent)
    /\ \A a, b \in Buffers : a # b =>
         /\ buffers[a].cb = buffers[b].cb => buffers[a].stage = "free" \/ buffers[b].stage = "free"
         /\ buffers[a].done = buffers[b].done => buffers[a].done = 0

LossOK ==
    /\ lostFrames = 0 => \A b \in Buffers : Missing(buffers[b]) = {}
    /\ lostFrames <= 1 => \A a, b \in Buffers :
         \A k \in Missing(buffers[a]), l \in Missing(buffers[b]) : a = b /\ k = l

LEMMA LifeFields ==
    ASSUME NEW r \in Lives
    PROVE  /\ r.cb \in Pointers /\ r.queue \in Queues /\ r.ops \in Seq(Nat)
           /\ r.stage \in Frames \cup {"free"} /\ r.commit \in Nat
           /\ r.sched \in Nat /\ r.done \in Nat /\ r.got \in SUBSET Frames
BY DEF Lives

LEMMA LifeMoves ==
    ASSUME NEW r \in Lives, NEW to \in Frames \cup {"free"}, NEW got \in SUBSET Frames,
           NEW sched \in Nat, NEW done \in Nat
    PROVE  [r EXCEPT !.stage = to, !.got = got, !.sched = sched, !.done = done] \in Lives
BY DEF Lives

\* What each step does to the buffers.
Grown(r) ==
    /\ Len(buffers') = Len(buffers) + 1 /\ Buffers' = Buffers \cup {Len(buffers) + 1}
    /\ Len(buffers) + 1 \notin Buffers
    /\ buffers' \in Seq(Lives) /\ buffers'[Len(buffers) + 1] = r
    /\ \A a \in Buffers : buffers'[a] = buffers[a]

Moved(b, to, arrives) ==
    /\ Buffers' = Buffers /\ buffers' \in Seq(Lives)
    /\ \A a \in Buffers : a # b => buffers'[a] = buffers[a]
    /\ LET r == buffers[b]
           s == buffers'[b]
       IN  /\ r \in Lives /\ s \in Lives
           /\ s.cb = r.cb /\ s.queue = r.queue /\ s.ops = r.ops /\ s.commit = r.commit
           /\ s.stage = to
           /\ s.sched = IF to = "scheduled" THEN sent + 1 ELSE r.sched
           /\ s.done = IF to = "completed" THEN sent + 1 ELSE r.done
           /\ s.got = IF arrives THEN r.got \cup {to} ELSE r.got

LEMMA CommitMoves ==
    ASSUME BuffersOK, NEW r \in Lives, buffers' = Append(buffers, r)
    PROVE  Grown(r)
<1>1. buffers \in Seq(Lives) /\ Len(buffers) \in Nat /\ Buffers = 1 .. Len(buffers)
  BY DEF BuffersOK, Buffers
<1> QED
  BY <1>1 DEF Grown, Buffers

LEMMA AdvanceMoves ==
    ASSUME BuffersOK, NEW b \in Buffers, NEW from, NEW to \in Frames,
           NEW arrives \in BOOLEAN, CbAdvance(b, from, to, arrives)
    PROVE  Moved(b, to, arrives)
<1> DEFINE r == buffers[b]
           s == [r EXCEPT !.stage = to,
                          !.got = IF arrives THEN @ \cup {to} ELSE @,
                          !.sched = IF to = "scheduled" THEN sent + 1 ELSE @,
                          !.done = IF to = "completed" THEN sent + 1 ELSE @]
<1>1. buffers \in Seq(Lives) /\ Buffers = 1 .. Len(buffers) /\ sent \in Nat /\ r \in Lives
  BY DEF BuffersOK, Buffers
<1>2. buffers' = [buffers EXCEPT ![b] = s]
  BY DEF CbAdvance
<1>3. s \in Lives
  <2>1. /\ r.cb \in Pointers /\ r.queue \in Queues /\ r.ops \in Seq(Nat) /\ r.commit \in Nat
        /\ r.sched \in Nat /\ r.done \in Nat /\ r.got \in SUBSET Frames
        /\ sent + 1 \in Nat
    BY <1>1, LifeFields
  <2> DEFINE got == IF arrives THEN r.got \cup {to} ELSE r.got
             sched == IF to = "scheduled" THEN sent + 1 ELSE r.sched
             done == IF to = "completed" THEN sent + 1 ELSE r.done
  <2>2. got \in SUBSET Frames /\ sched \in Nat /\ done \in Nat
    BY <2>1
  <2>3. s = [r EXCEPT !.stage = to, !.got = got, !.sched = sched, !.done = done]
    OBVIOUS
  <2> HIDE DEF got, sched, done, s, r
  <2> QED
    BY <1>1, <2>2, <2>3, LifeMoves
<1>4. /\ s.cb = r.cb /\ s.queue = r.queue /\ s.ops = r.ops /\ s.commit = r.commit
      /\ s.stage = to
      /\ s.sched = IF to = "scheduled" THEN sent + 1 ELSE r.sched
      /\ s.done = IF to = "completed" THEN sent + 1 ELSE r.done
      /\ s.got = IF arrives THEN r.got \cup {to} ELSE r.got
  BY <1>1 DEF Lives
<1> HIDE DEF s
<1>5. /\ Buffers' = Buffers /\ buffers' \in Seq(Lives) /\ buffers'[b] = s
      /\ \A a \in Buffers : a # b => buffers'[a] = buffers[a]
  BY <1>1, <1>2, <1>3 DEF Buffers
<1> QED
  BY <1>1, <1>3, <1>4, <1>5 DEF Moved

LEMMA ReleaseMoves ==
    ASSUME BuffersOK, NEW b \in Buffers, CbRelease(b)
    PROVE  /\ Moved(b, "free", FALSE)
           /\ buffers[b].stage = IF buffers[b].ops = <<>> THEN "completed" ELSE "ops"
<1> DEFINE r == buffers[b]
           s == [r EXCEPT !.stage = "free"]
<1>1. buffers \in Seq(Lives) /\ Buffers = 1 .. Len(buffers) /\ r \in Lives
  BY DEF BuffersOK, Buffers
<1>2. buffers' = [buffers EXCEPT ![b] = s]
  BY DEF CbRelease
<1>3. s \in Lives
  BY <1>1 DEF Lives
<1>4. /\ s.cb = r.cb /\ s.queue = r.queue /\ s.ops = r.ops /\ s.commit = r.commit
      /\ s.stage = "free" /\ s.sched = r.sched /\ s.done = r.done /\ s.got = r.got
  BY <1>1 DEF Lives
<1> HIDE DEF s
<1>5. /\ Buffers' = Buffers /\ buffers' \in Seq(Lives) /\ buffers'[b] = s
      /\ \A a \in Buffers : a # b => buffers'[a] = buffers[a]
  BY <1>1, <1>2, <1>3 DEF Buffers
<1> QED
  BY <1>1, <1>3, <1>4, <1>5 DEF Moved, CbRelease

\* The record of a buffer as it is committed.
Fresh(p, q, ops, arrives) ==
    [cb |-> p, queue |-> q, ops |-> ops, stage |-> "committed",
     commit |-> sent + 1, sched |-> 0, done |-> 0,
     got |-> IF arrives THEN {"committed"} ELSE {}]

\* The steps, in these terms.
Committing(p, q, ops, arrives) ==
    LET r == Fresh(p, q, ops, arrives)
    IN  /\ p \in Pointers /\ q \in Queues /\ ops \in Seq(Nat) /\ r \in Lives
        /\ Grown(r) /\ Send(Len(buffers) + 1, "committed", r, arrives)
        /\ \A b \in Buffers : buffers[b].cb = p => buffers[b].stage = "free"

Advancing(b, from, to, arrives) ==
    /\ b \in Buffers /\ buffers[b].stage = from
    /\ Moved(b, to, arrives) /\ Send(b, to, buffers[b], arrives)
    /\ \/ from = "committed" /\ to = "scheduled"
       \/ from = "scheduled" /\ to = "completed"
       \/ from = "completed" /\ to = "ops" /\ buffers[b].ops # <<>>

Releasing(b) ==
    /\ b \in Buffers /\ Moved(b, "free", FALSE)
    /\ buffers[b].stage = IF buffers[b].ops = <<>> THEN "completed" ELSE "ops"
    /\ UNCHANGED <<sent, lostFrames, clamp, shownTimes, pairs, trace, panel>>

LEMMA BufferSteps ==
    ASSUME BuffersOK, [BufferNext]_bufferVars
    PROVE  \/ \E p, q, ops : \E arrives \in BOOLEAN : Committing(p, q, ops, arrives)
           \/ \E b, from, to : \E arrives \in BOOLEAN : Advancing(b, from, to, arrives)
           \/ \E b : Releasing(b)
           \/ UNCHANGED bufferVars
<1>1. ASSUME NEW arrives \in BOOLEAN, NEW p \in Pointers, NEW q \in Queues,
             NEW ops \in OpTimes, CbCommit(p, q, ops, arrives)
      PROVE  Committing(p, q, ops, arrives)
  <2> DEFINE r == Fresh(p, q, ops, arrives)
  <2>1. ops \in Seq(Nat) /\ sent \in Nat
    BY BufferAssumption DEF BuffersOK
  <2>2. r \in Lives
    BY <2>1 DEF Fresh, Lives, Frames
  <2>3. buffers' = Append(buffers, r) /\ Send(Len(buffers) + 1, "committed", r, arrives)
    BY <1>1, Zenon DEF CbCommit, Fresh
  <2>4. \A b \in Buffers : buffers[b].cb = p => buffers[b].stage = "free"
    BY <1>1 DEF CbCommit
  <2> HIDE DEF r
  <2>5. Grown(r)
    BY <2>2, <2>3, CommitMoves
  <2> QED
    BY <2>1, <2>2, <2>3, <2>4, <2>5, Zenon DEF Committing, r
<1>2. ASSUME NEW arrives \in BOOLEAN, NEW b \in Buffers, CbSchedule(b, arrives)
      PROVE  Advancing(b, "committed", "scheduled", arrives)
  <2>1. CbAdvance(b, "committed", "scheduled", arrives) /\ "scheduled" \in Frames
    BY <1>2 DEF CbSchedule, Frames
  <2> QED
    BY <2>1, AdvanceMoves DEF Advancing, CbAdvance
<1>3. ASSUME NEW arrives \in BOOLEAN, NEW b \in Buffers, CbComplete(b, arrives)
      PROVE  Advancing(b, "scheduled", "completed", arrives)
  <2>1. CbAdvance(b, "scheduled", "completed", arrives) /\ "completed" \in Frames
    BY <1>3 DEF CbComplete, Frames
  <2> QED
    BY <2>1, AdvanceMoves DEF Advancing, CbAdvance
<1>4. ASSUME NEW arrives \in BOOLEAN, NEW b \in Buffers, CbReport(b, arrives)
      PROVE  Advancing(b, "completed", "ops", arrives)
  <2>1. CbAdvance(b, "completed", "ops", arrives) /\ "ops" \in Frames /\ buffers[b].ops # <<>>
    BY <1>4 DEF CbReport, Frames
  <2> QED
    BY <2>1, AdvanceMoves DEF Advancing, CbAdvance
<1>5. ASSUME NEW b \in Buffers, CbRelease(b)
      PROVE  Releasing(b)
  BY <1>5, ReleaseMoves DEF Releasing, CbRelease
<1> QED
  BY <1>1, <1>2, <1>3, <1>4, <1>5 DEF BufferNext

\* The frames sent, after a step.
LEMMA SentSteps ==
    ASSUME NEW b, NEW to, NEW arrives \in BOOLEAN, Moved(b, to, arrives), BuffersOK,
           NEW from, b \in Buffers, buffers[b].stage = from,
           \/ from = "committed" /\ to = "scheduled"
           \/ from = "scheduled" /\ to = "completed"
           \/ from = "completed" /\ to = "ops"
           \/ from = "completed" /\ to = "free" /\ buffers[b].ops = <<>>
           \/ from = "ops" /\ to = "free" /\ buffers[b].ops # <<>>
    PROVE  /\ SentOf(buffers'[b]) = SentOf(buffers[b]) \cup ({to} \cap Frames)
           /\ to \notin SentOf(buffers[b]) /\ to \notin buffers[b].got
<1>1. LifeOK(buffers[b], sent) /\ sent \in Nat /\ buffers[b] \in Lives
  BY DEF BuffersOK, Buffers
<1> DEFINE r == buffers[b]
           s == buffers'[b]
<1>2. /\ s.stage = to /\ s.ops = r.ops /\ r.sched \in Nat /\ r.done \in Nat
      /\ s.sched = IF to = "scheduled" THEN sent + 1 ELSE r.sched
      /\ s.done = IF to = "completed" THEN sent + 1 ELSE r.done
  BY <1>1 DEF Moved, Lives
<1>3. /\ r.stage = "committed" => r.sched = 0 /\ r.done = 0
      /\ r.stage = "scheduled" => r.sched > 0 /\ r.done = 0
      /\ r.stage \in {"completed", "ops", "free"} => r.sched > 0 /\ r.done > 0
      /\ r.got \subseteq SentOf(r)
  BY <1>1, <1>2 DEF LifeOK, Lives
<1> HIDE DEF r, s
<1>4. SentOf(s) = SentOf(r) \cup ({to} \cap Frames)
  <2>1. \A k \in Frames : k \in SentOf(s) <=> k \in SentOf(r) \/ k = to
    BY <1>1, <1>2, <1>3 DEF SentOf, Frames, r
  <2> QED
    BY <2>1 DEF SentOf
<1>5. to \notin SentOf(r)
  BY <1>3 DEF SentOf, Frames, r
<1> QED
  BY <1>3, <1>4, <1>5 DEF r, s

LEMMA BuffersStart ==
    ASSUME BufferInit
    PROVE  BuffersOK /\ LossOK
<1>1. buffers = <<>> /\ sent = 0 /\ lostFrames = 0
  BY DEF BufferInit
<1>2. Buffers = {}
  BY <1>1 DEF Buffers
<1> QED
  BY <1>1, <1>2 DEF BuffersOK, LossOK

LEMMA LifeLasts ==
    ASSUME NEW r \in Lives, NEW m \in Nat, NEW n \in Nat, m <= n, LifeOK(r, m)
    PROVE  LifeOK(r, n)
BY LifeFields DEF LifeOK

\* What a frame does to the counts.
LEMMA SendCounts ==
    ASSUME NEW b, NEW kind, NEW r, NEW arrives \in BOOLEAN, Send(b, kind, r, arrives)
    PROVE  /\ sent' = sent + 1
           /\ lostFrames' = IF arrives THEN lostFrames ELSE lostFrames + 1
BY DEF Send

LEMMA CommitKeepsBuffers ==
    ASSUME BuffersOK, NEW p, NEW q, NEW ops, NEW arrives \in BOOLEAN,
           Committing(p, q, ops, arrives)
    PROVE  BuffersOK'
<1> DEFINE n == Len(buffers) + 1
           r == Fresh(p, q, ops, arrives)
<1>1. /\ Buffers' = Buffers \cup {n} /\ n \notin Buffers
      /\ buffers' \in Seq(Lives) /\ buffers'[n] = r
      /\ \A a \in Buffers : buffers'[a] = buffers[a]
  BY DEF Committing, Grown
<1>2. /\ sent \in Nat /\ lostFrames \in Nat
      /\ \A b \in Buffers : LifeOK(buffers[b], sent) /\ buffers[b] \in Lives
  BY DEF BuffersOK, Buffers
<1>3. sent' = sent + 1 /\ lostFrames' \in Nat
  BY <1>2, SendCounts DEF Committing
<1>4. /\ r.cb = p /\ r.stage = "committed" /\ r.sched = 0 /\ r.done = 0
      /\ r.commit = sent + 1 /\ r.got \subseteq {"committed"}
  BY DEF Fresh
<1>5. "committed" \in SentOf(r)
  BY DEF SentOf, Frames
<1> HIDE DEF r, n
<1>6. LifeOK(r, sent')
  BY <1>2, <1>3, <1>4, <1>5 DEF LifeOK
<1>7. \A b \in Buffers : LifeOK(buffers[b], sent')
  BY <1>2, <1>3, LifeLasts
<1>8. \A b \in Buffers' : LifeOK(buffers'[b], sent')
  BY <1>1, <1>6, <1>7
<1>9. \A b \in Buffers : buffers[b].cb = p => buffers[b].stage = "free"
  BY DEF Committing
<1>10. ASSUME NEW a \in Buffers', NEW b \in Buffers', a # b
       PROVE  /\ buffers'[a].cb = buffers'[b].cb =>
                   buffers'[a].stage = "free" \/ buffers'[b].stage = "free"
              /\ buffers'[a].done = buffers'[b].done => buffers'[a].done = 0
  <2>1. CASE a \in Buffers /\ b \in Buffers
    <3>1. buffers'[a] = buffers[a] /\ buffers'[b] = buffers[b]
      BY <1>1, <2>1
    <3> QED
      BY <3>1, <2>1, <1>10 DEF BuffersOK
  <2>2. CASE a = n /\ b \in Buffers
    BY <2>2, <1>1, <1>4, <1>9
  <2>3. CASE a \in Buffers /\ b = n
    BY <2>3, <1>1, <1>4, <1>9
  <2> QED
    BY <1>1, <1>10, <2>1, <2>2, <2>3
<1> QED
  BY <1>1, <1>3, <1>8, <1>10, <1>2 DEF BuffersOK

LEMMA MoveKeepsBuffers ==
    ASSUME BuffersOK, NEW b \in Buffers, NEW to \in Frames \cup {"free"},
           NEW arrives \in BOOLEAN, Moved(b, to, arrives), lostFrames' \in Nat,
           \/ buffers[b].stage = "committed" /\ to = "scheduled" /\ sent' = sent + 1
           \/ buffers[b].stage = "scheduled" /\ to = "completed" /\ sent' = sent + 1
           \/ /\ buffers[b].stage = "completed" /\ to = "ops" /\ buffers[b].ops # <<>>
              /\ sent' = sent + 1
           \/ /\ buffers[b].stage = "completed" /\ to = "free" /\ buffers[b].ops = <<>>
              /\ sent' = sent /\ ~arrives
           \/ /\ buffers[b].stage = "ops" /\ to = "free" /\ buffers[b].ops # <<>>
              /\ sent' = sent /\ ~arrives
    PROVE  BuffersOK'
<1> DEFINE r == buffers[b]
           s == buffers'[b]
<1>1. /\ Buffers' = Buffers /\ buffers' \in Seq(Lives)
      /\ \A a \in Buffers : a # b => buffers'[a] = buffers[a]
      /\ r \in Lives /\ s \in Lives
      /\ s.cb = r.cb /\ s.queue = r.queue /\ s.ops = r.ops /\ s.commit = r.commit
      /\ s.stage = to
      /\ s.sched = IF to = "scheduled" THEN sent + 1 ELSE r.sched
      /\ s.done = IF to = "completed" THEN sent + 1 ELSE r.done
      /\ s.got = IF arrives THEN r.got \cup {to} ELSE r.got
  BY DEF Moved
<1>2. /\ sent \in Nat /\ lostFrames \in Nat
      /\ \A a \in Buffers : LifeOK(buffers[a], sent) /\ buffers[a] \in Lives
  BY DEF BuffersOK, Buffers
<1>3. sent' \in Nat /\ sent <= sent'
  BY <1>2
<1>4. SentOf(s) = SentOf(r) \cup ({to} \cap Frames)
  BY SentSteps
<1>5. LifeOK(s, sent')
  <2>1. s.got \subseteq SentOf(s)
    <3>1. r.got \subseteq SentOf(r)
      BY <1>2 DEF LifeOK
    <3> QED
      BY <1>1, <1>4, <3>1 DEF Frames
  <2>2. LifeOK(r, sent) /\ r.commit \in Nat /\ r.sched \in Nat /\ r.done \in Nat
    BY <1>1, <1>2, LifeFields
  <2> HIDE DEF s
  <2> QED
    BY <1>1, <1>2, <2>1, <2>2 DEF LifeOK
<1>6. \A a \in Buffers : a # b => LifeOK(buffers'[a], sent')
  BY <1>1, <1>2, <1>3, LifeLasts
<1>7. \A a \in Buffers : buffers[a].done <= sent /\ buffers[a].done \in Nat
  BY <1>2, LifeFields DEF LifeOK
<1>8. r.stage # "free"
  OBVIOUS
<1>9. \A a \in Buffers : a # b /\ buffers[a].cb = r.cb => buffers[a].stage = "free"
  BY <1>8 DEF BuffersOK
<1>10. \A a \in Buffers : a # b /\ buffers[a].done = s.done => s.done = 0
  <2>1. CASE to = "completed"
    BY <1>1, <1>7, <1>2, <2>1
  <2>2. CASE to # "completed"
    BY <1>1, <2>2 DEF BuffersOK
  <2> QED
    BY <2>1, <2>2
<1> HIDE DEF r, s
<1>11. ASSUME NEW a \in Buffers', NEW c \in Buffers', a # c
       PROVE  /\ buffers'[a].cb = buffers'[c].cb =>
                   buffers'[a].stage = "free" \/ buffers'[c].stage = "free"
              /\ buffers'[a].done = buffers'[c].done => buffers'[a].done = 0
  <2>1. CASE a # b /\ c # b
    BY <1>1, <1>11, <2>1 DEF BuffersOK
  <2>2. CASE a = b
    BY <1>1, <1>9, <1>10, <1>11, <2>2 DEF s
  <2>3. CASE c = b
    BY <1>1, <1>9, <1>10, <1>11, <2>3 DEF s
  <2> QED
    BY <2>1, <2>2, <2>3
<1>12. \A a \in Buffers' : LifeOK(buffers'[a], sent')
  BY <1>1, <1>5, <1>6 DEF s
<1> QED
  BY <1>1, <1>3, <1>11, <1>12 DEF BuffersOK

\* At most as many frames are missing as were lost.
LEMMA LossSteps ==
    ASSUME LossOK, lostFrames \in Nat, NEW b, NEW arrives \in BOOLEAN, NEW k,
           Buffers' = Buffers \cup {b}, \A a \in Buffers : a # b => buffers'[a] = buffers[a],
           b \in Buffers => Missing(buffers'[b]) =
                              Missing(buffers[b]) \cup (IF arrives THEN {} ELSE {k}),
           b \notin Buffers => Missing(buffers'[b]) = IF arrives THEN {} ELSE {k},
           lostFrames' = IF arrives THEN lostFrames ELSE lostFrames + 1
    PROVE  LossOK'
<1>1. CASE arrives
  <2>1. \A a \in Buffers : Missing(buffers'[a]) = Missing(buffers[a])
    BY <1>1
  <2>2. b \notin Buffers => Missing(buffers'[b]) = {}
    BY <1>1
  <2> QED
    BY <1>1, <2>1, <2>2 DEF LossOK
<1>2. CASE ~arrives
  <2>1. lostFrames' # 0 /\ (lostFrames' <= 1 => lostFrames = 0)
    BY <1>2
  <2>2. ASSUME lostFrames = 0
        PROVE  \A a \in Buffers' : Missing(buffers'[a]) = IF a = b THEN {k} ELSE {}
    BY <1>2, <2>2 DEF LossOK
  <2> QED
    BY <2>1, <2>2 DEF LossOK
<1> QED
  BY <1>1, <1>2

LEMMA BuffersStep ==
    ASSUME BuffersOK, LossOK, [BufferNext]_bufferVars
    PROVE  BuffersOK' /\ LossOK'
<1>0. sent \in Nat /\ lostFrames \in Nat
  BY DEF BuffersOK
<1>1. ASSUME NEW p, NEW q, NEW ops, NEW arrives \in BOOLEAN, Committing(p, q, ops, arrives)
      PROVE  BuffersOK' /\ LossOK'
  <2> DEFINE n == Len(buffers) + 1
             r == Fresh(p, q, ops, arrives)
  <2>1. /\ Buffers' = Buffers \cup {n} /\ n \notin Buffers /\ buffers'[n] = r
        /\ \A a \in Buffers : buffers'[a] = buffers[a]
    BY <1>1 DEF Committing, Grown
  <2>2. Missing(r) = IF arrives THEN {} ELSE {"committed"}
    BY DEF Missing, SentOf, Fresh, Frames
  <2>3. lostFrames' = IF arrives THEN lostFrames ELSE lostFrames + 1
    BY <1>1, SendCounts DEF Committing
  <2> HIDE DEF n, r
  <2> QED
    BY <1>0, <1>1, <2>1, <2>2, <2>3, LossSteps, CommitKeepsBuffers
<1>2. ASSUME NEW b, NEW from, NEW to, NEW arrives \in BOOLEAN, Advancing(b, from, to, arrives)
      PROVE  BuffersOK' /\ LossOK'
  <2>1. /\ b \in Buffers /\ Moved(b, to, arrives) /\ buffers[b].stage = from /\ to \in Frames
        /\ \/ from = "committed" /\ to = "scheduled"
           \/ from = "scheduled" /\ to = "completed"
           \/ from = "completed" /\ to = "ops" /\ buffers[b].ops # <<>>
    BY <1>2 DEF Advancing, Frames
  <2>2. /\ sent' = sent + 1
        /\ lostFrames' = IF arrives THEN lostFrames ELSE lostFrames + 1
    BY <1>2, SendCounts DEF Advancing
  <2>3. /\ SentOf(buffers'[b]) = SentOf(buffers[b]) \cup {to}
        /\ to \notin SentOf(buffers[b]) /\ to \notin buffers[b].got
    BY <2>1, SentSteps
  <2>4. /\ Buffers' = Buffers /\ \A a \in Buffers : a # b => buffers'[a] = buffers[a]
        /\ buffers'[b].got = IF arrives THEN buffers[b].got \cup {to} ELSE buffers[b].got
    BY <2>1 DEF Moved
  <2>5. Missing(buffers'[b]) = Missing(buffers[b]) \cup (IF arrives THEN {} ELSE {to})
    BY <2>3, <2>4 DEF Missing
  <2>6. LossOK'
    <3>1. Buffers' = Buffers \cup {b} /\ b \in Buffers
      BY <2>1, <2>4
    <3>2. lostFrames' = IF arrives THEN lostFrames ELSE lostFrames + 1
      BY <2>2
    <3> QED
      BY <1>0, <3>1, <3>2, <2>4, <2>5, LossSteps
  <2>7. BuffersOK'
    BY <1>0, <2>1, <2>2, MoveKeepsBuffers
  <2> QED
    BY <2>6, <2>7
<1>3. ASSUME NEW b, Releasing(b)
      PROVE  BuffersOK' /\ LossOK'
  <2>1. /\ b \in Buffers /\ Moved(b, "free", FALSE) /\ sent' = sent /\ lostFrames' = lostFrames
        /\ \/ buffers[b].stage = "completed" /\ buffers[b].ops = <<>>
           \/ buffers[b].stage = "ops" /\ buffers[b].ops # <<>>
    BY <1>3 DEF Releasing
  <2>2. SentOf(buffers'[b]) = SentOf(buffers[b])
    <3>1. SentOf(buffers'[b]) = SentOf(buffers[b]) \cup ({"free"} \cap Frames)
      BY <2>1, SentSteps
    <3> QED
      BY <3>1 DEF Frames
  <2>3. /\ Buffers' = Buffers /\ \A a \in Buffers : a # b => buffers'[a] = buffers[a]
        /\ buffers'[b].got = buffers[b].got
    BY <2>1 DEF Moved
  <2>4. \A a \in Buffers : Missing(buffers'[a]) = Missing(buffers[a])
    BY <2>2, <2>3 DEF Missing
  <2>5. LossOK'
    <3>1. /\ Buffers' = Buffers \cup {b} /\ b \in Buffers
          /\ lostFrames' = IF TRUE THEN lostFrames ELSE lostFrames + 1
          /\ Missing(buffers'[b]) = Missing(buffers[b]) \cup (IF TRUE THEN {} ELSE {"free"})
      BY <2>1, <2>3, <2>4
    <3> QED
      BY <1>0, <2>3, <3>1, LossSteps
  <2>6. BuffersOK'
    BY <1>0, <2>1, MoveKeepsBuffers
  <2> QED
    BY <2>5, <2>6
<1>4. ASSUME UNCHANGED bufferVars
      PROVE  BuffersOK' /\ LossOK'
  BY <1>4 DEF bufferVars, BuffersOK, LossOK, Buffers
<1> QED
  BY <1>1, <1>2, <1>3, <1>4, BufferSteps

LEMMA GreatestIs ==
    ASSUME NEW S \in SUBSET Int, NEW m \in S, \A k \in S : m >= k
    PROVE  Max(S) = m
<1>1. \E x \in S : \A y \in S : x >= y
  OBVIOUS
<1>2. Max(S) \in S /\ \A y \in S : Max(S) >= y
  BY <1>1, Zenon DEF Max
<1> DEFINE x == Max(S)
<1> HIDE DEF x
<1>3. x \in S /\ x \in Int /\ m \in Int /\ x >= m /\ m >= x
  BY <1>2 DEF x
<1> QED
  BY <1>3 DEF x

-----------------------------------------------------------------------------
(* A buffer's own time on the queue.                                       *)

\* The completions a buffer's time may start from, and its scheduling.
Before(b) == {a \in Buffers : /\ buffers[a].queue = buffers[b].queue
                              /\ "completed" \in buffers[a].got
                              /\ buffers[a].done < buffers[b].done}
Starts(b) == {buffers[b].sched} \cup {buffers[a].done : a \in Before(b)}

\* The buffers whose completion frame was heard on a queue.
Heard(q) == {b \in Buffers : buffers[b].queue = q /\ "completed" \in buffers[b].got}

LEMMA OwnWindowIs ==
    ASSUME NEW b
    PROVE  OwnWindow(b) = buffers[b].done - Max(Starts(b))
BY DEF OwnWindow, Starts, Before

\* Where the fields of a buffer are.
LEMMA LifeBounds ==
    ASSUME NEW r \in Lives, NEW now \in Nat, LifeOK(r, now)
    PROVE  /\ r.cb \in Pointers /\ r.queue \in Queues
           /\ r.ops \in Seq(Nat) /\ r.commit \in 1 .. now
           /\ r.sched \in 0 .. now /\ r.done \in 0 .. now
           /\ "completed" \in r.got => r.done > 0
           /\ "ops" \in r.got => r.done > 0 /\ r.stage \in {"ops", "free"}
           /\ "scheduled" \in r.got => r.sched > 0
           /\ r.done > 0 <=> r.stage \in {"completed", "ops", "free"}
           /\ r.done > 0 => r.sched < r.done
           /\ r.sched > 0 => r.commit < r.sched
           /\ r.sched = 0 <=> r.stage = "committed"
<1>1. /\ r.cb \in Pointers /\ r.queue \in Queues /\ r.ops \in Seq(Nat)
      /\ r.stage \in Frames \cup {"free"} /\ r.commit \in Nat
      /\ r.sched \in Nat /\ r.done \in Nat
  BY LifeFields
<1>2. /\ r.commit \in 1 .. now /\ r.sched <= now /\ r.done <= now
      /\ r.stage = "committed" => r.sched = 0 /\ r.done = 0
      /\ r.stage = "scheduled" => r.commit < r.sched /\ r.done = 0
      /\ r.stage \in {"completed", "ops", "free"} => r.commit < r.sched /\ r.sched < r.done
      /\ r.got \subseteq SentOf(r)
  BY DEF LifeOK
<1>3. /\ "completed" \in r.got => r.done > 0
      /\ "scheduled" \in r.got => r.sched > 0
      /\ "ops" \in r.got => r.stage \in {"ops", "free"}
  BY <1>2 DEF SentOf
<1>4. r.done > 0 <=> r.stage \in {"completed", "ops", "free"}
  BY <1>1, <1>2 DEF Frames
<1> QED
  BY <1>1, <1>2, <1>3, <1>4 DEF Frames

LEMMA BufferBounds ==
    ASSUME BuffersOK, NEW b \in Buffers
    PROVE  /\ sent \in Nat /\ buffers[b] \in Lives /\ LifeOK(buffers[b], sent)
           /\ buffers[b].sched \in 0 .. sent /\ buffers[b].done \in 0 .. sent
           /\ "completed" \in buffers[b].got => Done(b)
           /\ Done(b) <=> buffers[b].stage \in {"completed", "ops", "free"}
           /\ Done(b) => buffers[b].sched < buffers[b].done
<1>1. buffers[b] \in Lives /\ LifeOK(buffers[b], sent) /\ sent \in Nat
  BY DEF BuffersOK, Buffers
<1> QED
  BY <1>1, LifeBounds DEF Done

LEMMA StartsBounds ==
    ASSUME BuffersOK, NEW b \in Buffers
    PROVE  /\ Starts(b) \in SUBSET (0 .. sent) /\ Starts(b) # {}
           /\ Max(Starts(b)) \in Starts(b) /\ \A k \in Starts(b) : Max(Starts(b)) >= k
<1>1. \A a \in Buffers : buffers[a].done \in 0 .. sent /\ buffers[a].sched \in 0 .. sent
  BY BufferBounds
<1>2. sent \in Nat
  BY DEF BuffersOK
<1>3. Starts(b) \in SUBSET (0 .. sent) /\ Starts(b) # {}
  BY <1>1 DEF Starts, Before
<1> QED
  BY <1>2, <1>3, GreatestIsMember

LEMMA OwnWindowBounds ==
    ASSUME BuffersOK, NEW b \in Buffers, Done(b)
    PROVE  /\ OwnWindow(b) \in Nat /\ buffers[b].done - OwnWindow(b) \in Nat
           /\ buffers[b].sched <= buffers[b].done - OwnWindow(b)
           /\ \A a \in Before(b) : buffers[a].done <= buffers[b].done - OwnWindow(b)
<1> DEFINE m == Max(Starts(b))
<1>1. /\ Starts(b) \in SUBSET (0 .. sent) /\ m \in Starts(b) /\ \A k \in Starts(b) : m >= k
  BY StartsBounds
<1>2. buffers[b].sched \in Starts(b) /\ \A a \in Before(b) : buffers[a].done \in Starts(b)
  BY DEF Starts
<1>3. buffers[b].sched < buffers[b].done /\ buffers[b].done \in 0 .. sent /\ sent \in Nat
  BY BufferBounds
<1>4. \A k \in Starts(b) : k < buffers[b].done
  BY <1>3 DEF Starts, Before
<1>5. OwnWindow(b) = buffers[b].done - m
  BY OwnWindowIs
<1> HIDE DEF m
<1>6. m \in Nat /\ m < buffers[b].done /\ buffers[b].done \in Nat
  BY <1>1, <1>3, <1>4
<1>7. buffers[b].done - OwnWindow(b) = m /\ OwnWindow(b) \in Nat
  BY <1>5, <1>6
<1> QED
  BY <1>1, <1>2, <1>6, <1>7

\* What no step changes: a buffer, its completion, what came of it.
Kept(b) ==
    /\ b \in Buffers'
    /\ buffers'[b].cb = buffers[b].cb /\ buffers'[b].queue = buffers[b].queue
    /\ buffers'[b].ops = buffers[b].ops /\ buffers'[b].commit = buffers[b].commit
    /\ \A k \in Frames : k \in buffers[b].got => k \in buffers'[b].got
    /\ Done(b) => /\ buffers'[b].done = buffers[b].done /\ buffers'[b].sched = buffers[b].sched
                  /\ "completed" \in buffers'[b].got <=> "completed" \in buffers[b].got
                  /\ "scheduled" \in buffers'[b].got <=> "scheduled" \in buffers[b].got

LEMMA BuffersAreKept ==
    ASSUME BuffersOK, [BufferNext]_bufferVars
    PROVE  /\ \A b \in Buffers : Kept(b)
           /\ \A b \in Buffers' : (b \in Buffers /\ Done(b)) \/ buffers'[b].done \in {0, sent + 1}
<1>1. ASSUME NEW p, NEW q, NEW ops, NEW arrives \in BOOLEAN, Committing(p, q, ops, arrives)
      PROVE  /\ \A b \in Buffers : Kept(b)
             /\ \A b \in Buffers' : (b \in Buffers /\ Done(b)) \/ buffers'[b].done \in {0, sent + 1}
  <2> DEFINE n == Len(buffers) + 1
             r == Fresh(p, q, ops, arrives)
  <2>1. /\ Buffers' = Buffers \cup {n} /\ n \notin Buffers /\ buffers'[n] = r
        /\ \A a \in Buffers : buffers'[a] = buffers[a]
    BY <1>1 DEF Committing, Grown
  <2>2. r.done = 0
    BY DEF Fresh
  <2> HIDE DEF n, r
  <2>3. \A b \in Buffers : buffers[b].done \in 0 .. sent
    BY BufferBounds
  <2> QED
    BY <2>1, <2>2, <2>3 DEF Kept, Done
<1>2. ASSUME NEW b, NEW to, NEW arrives \in BOOLEAN, b \in Buffers, Moved(b, to, arrives),
             ~Done(b) \/ to \notin {"committed", "scheduled", "completed"}
      PROVE  /\ \A a \in Buffers : Kept(a)
             /\ \A a \in Buffers' : (a \in Buffers /\ Done(a)) \/ buffers'[a].done \in {0, sent + 1}
  <2>1. /\ Buffers' = Buffers /\ \A a \in Buffers : a # b => buffers'[a] = buffers[a]
        /\ buffers'[b].cb = buffers[b].cb /\ buffers'[b].queue = buffers[b].queue
        /\ buffers'[b].ops = buffers[b].ops /\ buffers'[b].commit = buffers[b].commit
        /\ buffers'[b].sched = IF to = "scheduled" THEN sent + 1 ELSE buffers[b].sched
        /\ buffers'[b].done = IF to = "completed" THEN sent + 1 ELSE buffers[b].done
        /\ buffers'[b].got = IF arrives THEN buffers[b].got \cup {to} ELSE buffers[b].got
    BY <1>2 DEF Moved
  <2>2. \A a \in Buffers : buffers[a].done \in 0 .. sent
    BY BufferBounds
  <2>3. Kept(b)
    BY <1>2, <2>1 DEF Kept
  <2>4. \A a \in Buffers : a # b => Kept(a)
    BY <2>1 DEF Kept
  <2>5. \A a \in Buffers : Done(a) \/ buffers[a].done = 0
    BY <2>2 DEF Done
  <2> QED
    BY <1>2, <2>1, <2>3, <2>4, <2>5
<1>3. ASSUME NEW b, NEW from, NEW to, NEW arrives \in BOOLEAN, Advancing(b, from, to, arrives)
      PROVE  /\ b \in Buffers /\ Moved(b, to, arrives)
             /\ ~Done(b) \/ to \notin {"committed", "scheduled", "completed"}
  BY <1>3, BufferBounds DEF Advancing
<1>4. ASSUME UNCHANGED bufferVars
      PROVE  /\ \A b \in Buffers : Kept(b)
             /\ \A b \in Buffers' : (b \in Buffers /\ Done(b)) \/ buffers'[b].done \in {0, sent + 1}
  <2>1. Buffers' = Buffers /\ buffers' = buffers
    BY <1>4 DEF bufferVars, Buffers
  <2>2. \A a \in Buffers : buffers[a].done \in 0 .. sent
    BY BufferBounds
  <2> QED
    BY <2>1, <2>2 DEF Kept, Done
<1>5. ASSUME NEW b, Releasing(b)
      PROVE  b \in Buffers /\ Moved(b, "free", FALSE)
  BY <1>5 DEF Releasing
<1> QED
  <2>1. CASE \E p, q, ops : \E arrives \in BOOLEAN : Committing(p, q, ops, arrives)
    BY <1>1, <2>1
  <2>2. CASE \E b, from, to : \E arrives \in BOOLEAN : Advancing(b, from, to, arrives)
    <3>1. PICK b, from, to : \E arrives \in BOOLEAN : Advancing(b, from, to, arrives)
      BY <2>2
    <3>2. PICK arrives \in BOOLEAN : Advancing(b, from, to, arrives)
      BY <3>1
    <3> QED
      BY <1>2, <1>3, <3>2
  <2>3. CASE \E b : Releasing(b)
    <3>1. PICK b : Releasing(b)
      BY <2>3
    <3> QED
      BY <1>2, <1>5, <3>1
  <2> QED
    BY <1>4, <2>1, <2>2, <2>3, BufferSteps

\* A buffer's own time, once it is over, stays what it is.
LEMMA OwnWindowLasts ==
    ASSUME BuffersOK, BuffersOK', [BufferNext]_bufferVars, NEW b \in Buffers, Done(b)
    PROVE  OwnWindow(b)' = OwnWindow(b) /\ Done(b)'
<1>1. \A a \in Buffers : Kept(a)
  BY BuffersAreKept
<1>2. \A a \in Buffers' : (a \in Buffers /\ Done(a)) \/ buffers'[a].done \in {0, sent + 1}
  BY BuffersAreKept
<1>3. /\ \A a \in Buffers : buffers[a].done \in 0 .. sent /\ sent \in Nat
      /\ \A a \in Buffers : "completed" \in buffers[a].got => Done(a)
  BY BufferBounds
<1>4. /\ buffers'[b].queue = buffers[b].queue /\ buffers'[b].done = buffers[b].done
      /\ buffers'[b].sched = buffers[b].sched
  BY <1>1 DEF Kept
<1>5. ASSUME NEW a
      PROVE  a \in Before(b)' <=> a \in Before(b)
  <2>1. ASSUME a \in Before(b)
        PROVE  a \in Before(b)'
    <3>1. a \in Buffers /\ Kept(a) /\ Done(a)
      BY <1>1, <1>3, <2>1 DEF Before
    <3> QED
      BY <1>4, <2>1, <3>1 DEF Before, Kept
  <2>2. ASSUME a \in Before(b)'
        PROVE  a \in Before(b)
    <3>1. /\ a \in Buffers' /\ "completed" \in buffers'[a].got
          /\ buffers'[a].queue = buffers[b].queue /\ buffers'[a].done < buffers[b].done
      BY <1>4, <2>2 DEF Before
    <3>2. buffers'[a].done \notin {0, sent + 1}
      <4>1. buffers'[a] \in Lives /\ LifeOK(buffers'[a], sent') /\ sent' \in Nat
        BY <3>1 DEF BuffersOK, Buffers
      <4> QED
        BY <1>3, <3>1, <4>1, LifeBounds
    <3>3. a \in Buffers /\ Done(a) /\ Kept(a)
      BY <1>1, <1>2, <3>1, <3>2
    <3> QED
      BY <3>1, <3>3 DEF Before, Kept
  <2> QED
    BY <2>1, <2>2
<1>6. Starts(b)' = Starts(b)
  <2>1. \A a \in Before(b) : buffers'[a].done = buffers[a].done
    BY <1>1, <1>3 DEF Before, Kept
  <2> QED
    BY <1>4, <1>5, <2>1 DEF Starts
<1>7. OwnWindow(b)' = buffers'[b].done - Max(Starts(b)')
  BY DEF OwnWindow, Starts, Before
<1> QED
  BY <1>4, <1>6, <1>7, OwnWindowIs DEF Done

-----------------------------------------------------------------------------
(* What the clamp remembers.                                               *)

ClampTypeOK ==
    clamp \in [sched : [Pointers -> Int], done : [Queues -> Nat], window : [Pointers -> Int]]

\* The last completion heard of on each queue.
LastDone ==
    \A q \in Queues :
       /\ \A b \in Heard(q) : buffers[b].done <= clamp.done[q]
       /\ clamp.done[q] # 0 => \E b \in Heard(q) : buffers[b].done = clamp.done[q]

\* A scheduling remembered is one whose completion was not heard of; that of a
\* buffer on the GPU is its own.
SchedOK ==
    /\ \A p \in Pointers : clamp.sched[p] # None =>
         \E b \in Buffers : /\ buffers[b].cb = p /\ "scheduled" \in buffers[b].got
                            /\ "completed" \notin buffers[b].got
    /\ \A b \in Buffers : buffers[b].stage = "scheduled" /\ "scheduled" \in buffers[b].got =>
         clamp.sched[buffers[b].cb] = buffers[b].sched

WindowOK ==
    lostFrames <= 1 =>
      \A b \in Buffers : buffers[b].stage = "completed" /\ "completed" \in buffers[b].got =>
         clamp.window[buffers[b].cb] =
            IF "scheduled" \in buffers[b].got THEN OwnWindow(b) ELSE None

\* Times t shown for the buffer b are as promised.
Right(b, t) ==
    "completed" \in buffers[b].got =>
        LET sampled == OpSum(buffers[b].ops)
            now == OpSum(t)
        IN  IF "scheduled" \notin buffers[b].got \/ sampled <= OwnWindow(b)
            THEN t = buffers[b].ops
            ELSE now <= OwnWindow(b) /\ now > OwnWindow(b) - Len(t)

ShownOK ==
    /\ \A b \in DOMAIN shownTimes : b \in Buffers /\ "ops" \in buffers[b].got
    /\ lostFrames <= 1 => \A b \in DOMAIN shownTimes : Right(b, shownTimes[b])

ClampInv == ClampTypeOK /\ LastDone /\ SchedOK /\ WindowOK /\ ShownOK

\* What the frame of that kind does to the clamp.
ClampMoves(kind, r, arrives) ==
    /\ \A p \in Pointers : p # r.cb => /\ clamp'.sched[p] = clamp.sched[p]
                                       /\ clamp'.window[p] = clamp.window[p]
    /\ \A q \in Queues : q # r.queue => clamp'.done[q] = clamp.done[q]
    /\ clamp'.sched[r.cb] = IF arrives /\ kind = "scheduled" THEN sent + 1
                            ELSE IF arrives /\ kind = "completed" THEN None
                            ELSE clamp.sched[r.cb]
    /\ clamp'.done[r.queue] = IF arrives /\ kind = "completed" THEN sent + 1
                              ELSE clamp.done[r.queue]
    /\ clamp'.window[r.cb] =
         IF arrives /\ kind = "completed"
         THEN IF clamp.sched[r.cb] = None THEN None
              ELSE SatMinus(sent + 1, Later(clamp.sched[r.cb], clamp.done[r.queue]))
         ELSE IF arrives /\ kind = "ops" THEN None ELSE clamp.window[r.cb]

LEMMA ClampFrames ==
    ASSUME ClampTypeOK, sent \in Nat, NEW b, NEW kind \in Frames, NEW r,
           r.cb \in Pointers, r.queue \in Queues,
           NEW arrives \in BOOLEAN, Send(b, kind, r, arrives)
    PROVE  ClampTypeOK' /\ ClampMoves(kind, r, arrives)
<1> DEFINE f == [kind |-> kind, of |-> b, ts |-> sent + 1, cb |-> r.cb, queue |-> r.queue,
                 ops |-> r.ops, inFlight |-> sent + 1 - r.commit]
<1>1. /\ arrives => clamp' = Clamp(clamp, f)
      /\ ~arrives => clamp' = clamp
  BY DEF Send
<1>2. f.kind = kind /\ f.ts = sent + 1 /\ f.cb = r.cb /\ f.queue = r.queue
  OBVIOUS
<1> HIDE DEF f
<1>3. /\ clamp.sched \in [Pointers -> Int] /\ clamp.done \in [Queues -> Nat]
      /\ clamp.window \in [Pointers -> Int]
  BY DEF ClampTypeOK
<1> DEFINE w == IF clamp.sched[r.cb] = None THEN None
                ELSE SatMinus(sent + 1, Later(clamp.sched[r.cb], clamp.done[r.queue]))
<1>4. w \in Int /\ None \in Int
  BY <1>3 DEF SatMinus, Later, None
<1>5. CASE ~arrives \/ kind = "committed"
  <2>1. clamp' = clamp
    BY <1>1, <1>2, <1>5 DEF Clamp
  <2> QED
    BY <1>5, <2>1 DEF ClampTypeOK, ClampMoves
<1>6. CASE arrives /\ kind = "scheduled"
  <2>1. clamp' = [clamp EXCEPT !.sched[r.cb] = sent + 1]
    BY <1>1, <1>2, <1>6 DEF Clamp, ClampScheduled
  <2>2. /\ clamp'.sched = [clamp.sched EXCEPT ![r.cb] = sent + 1]
        /\ clamp'.done = clamp.done /\ clamp'.window = clamp.window /\ ClampTypeOK'
    BY <2>1 DEF ClampTypeOK
  <2> QED
    BY <1>3, <1>6, <2>2 DEF ClampMoves
<1>7. CASE arrives /\ kind = "completed"
  <2>1. clamp' = [clamp EXCEPT !.sched[r.cb] = None, !.window[r.cb] = w,
                               !.done[r.queue] = sent + 1]
    BY <1>1, <1>2, <1>7 DEF Clamp, ClampCompleted
  <2> HIDE DEF w
  <2>2. /\ clamp'.sched = [clamp.sched EXCEPT ![r.cb] = None]
        /\ clamp'.done = [clamp.done EXCEPT ![r.queue] = sent + 1]
        /\ clamp'.window = [clamp.window EXCEPT ![r.cb] = w] /\ ClampTypeOK'
    <3> DEFINE sched == [clamp.sched EXCEPT ![r.cb] = None]
               done == [clamp.done EXCEPT ![r.queue] = sent + 1]
               window == [clamp.window EXCEPT ![r.cb] = w]
    <3>1. clamp = [sched |-> clamp.sched, done |-> clamp.done, window |-> clamp.window]
      BY DEF ClampTypeOK
    <3>2. clamp' = [clamp EXCEPT !.sched = sched, !.window = window, !.done = done]
      BY <2>1, Zenon
    <3>3. /\ sched \in [Pointers -> Int] /\ done \in [Queues -> Nat]
          /\ window \in [Pointers -> Int]
      BY <1>3, <1>4
    <3> HIDE DEF sched, done, window
    <3>4. clamp' = [sched |-> sched, done |-> done, window |-> window]
      BY <3>1, <3>2
    <3>5. clamp'.sched = sched /\ clamp'.done = done /\ clamp'.window = window /\ ClampTypeOK'
      BY <3>3, <3>4 DEF ClampTypeOK
    <3> QED
      BY <3>5 DEF sched, done, window
  <2>3. clamp'.window[r.cb] = w
    BY <1>3, <2>2
  <2> QED
    BY <1>3, <1>7, <2>2, <2>3 DEF ClampMoves, w
<1>8. CASE arrives /\ kind = "ops"
  <2>1. clamp' = [clamp EXCEPT !.window[r.cb] = None]
    BY <1>1, <1>2, <1>8 DEF Clamp, ClampOps
  <2>2. /\ clamp'.sched = clamp.sched /\ clamp'.done = clamp.done
        /\ clamp'.window = [clamp.window EXCEPT ![r.cb] = None] /\ ClampTypeOK'
    BY <1>4, <2>1 DEF ClampTypeOK
  <2> QED
    BY <1>3, <1>8, <2>2 DEF ClampMoves
<1> QED
  BY <1>5, <1>6, <1>7, <1>8 DEF Frames

\* The completions heard of, when the step is none.
LEMMA HeardLasts ==
    ASSUME BuffersOK, \A b \in Buffers : Kept(b),
           \A b \in Buffers' : "completed" \in buffers'[b].got =>
                                  b \in Buffers /\ "completed" \in buffers[b].got,
           LastDone, clamp'.done = clamp.done
    PROVE  LastDone'
<1>1. \A q : Heard(q)' = Heard(q)
  BY DEF Heard, Kept, Frames
<1>2. \A q : \A b \in Heard(q) : buffers'[b].done = buffers[b].done
  BY BufferBounds DEF Heard, Kept
<1> QED
  BY <1>1, <1>2 DEF LastDone

LEMMA LastDoneStep ==
    ASSUME BuffersOK, ClampTypeOK, LastDone, [BufferNext]_bufferVars
    PROVE  ClampTypeOK' /\ LastDone'
<1>0. \A b \in Buffers : Kept(b)
  BY BuffersAreKept
<1>1. ASSUME NEW p, NEW q, NEW ops, NEW arrives \in BOOLEAN, Committing(p, q, ops, arrives)
      PROVE  ClampTypeOK' /\ LastDone'
  <2> DEFINE n == Len(buffers) + 1
             r == Fresh(p, q, ops, arrives)
  <2>1. /\ Buffers' = Buffers \cup {n} /\ n \notin Buffers /\ buffers'[n] = r
        /\ \A a \in Buffers : buffers'[a] = buffers[a]
    BY <1>1 DEF Committing, Grown
  <2>2. "completed" \notin r.got /\ r.cb \in Pointers /\ r.queue \in Queues
    BY <1>1 DEF Fresh, Committing
  <2>3. Send(n, "committed", r, arrives) /\ sent \in Nat
    BY <1>1 DEF Committing, BuffersOK
  <2>4. ClampTypeOK' /\ ClampMoves("committed", r, arrives)
    BY <2>2, <2>3, ClampFrames DEF Frames
  <2> HIDE DEF n, r
  <2>5. clamp'.done = clamp.done
    <3>1. /\ \A x \in Queues : clamp'.done[x] = clamp.done[x]
          /\ clamp.done \in [Queues -> Nat] /\ clamp'.done \in [Queues -> Nat]
      BY <2>2, <2>4 DEF ClampMoves, ClampTypeOK
    <3> QED
      BY <3>1
  <2> QED
    BY <1>0, <2>1, <2>2, <2>4, <2>5, HeardLasts
<1>2. ASSUME NEW b, NEW from, NEW to, NEW arrives \in BOOLEAN, Advancing(b, from, to, arrives)
      PROVE  ClampTypeOK' /\ LastDone'
  <2> DEFINE r == buffers[b]
  <2>1. /\ b \in Buffers /\ Send(b, to, r, arrives) /\ to \in {"scheduled", "completed", "ops"}
        /\ to = "completed" => r.stage = "scheduled"
        /\ r \in Lives /\ sent \in Nat /\ LifeOK(r, sent)
    BY <1>2, BufferBounds DEF Advancing
  <2>2. r.cb \in Pointers /\ r.queue \in Queues
    BY <2>1, LifeFields
  <2>3. ClampTypeOK' /\ ClampMoves(to, r, arrives)
    BY <2>1, <2>2, ClampFrames DEF Frames
  <2>4. /\ Buffers' = Buffers /\ \A a \in Buffers : a # b => buffers'[a] = buffers[a]
        /\ buffers'[b].queue = r.queue
        /\ buffers'[b].done = IF to = "completed" THEN sent + 1 ELSE r.done
        /\ buffers'[b].got = IF arrives THEN r.got \cup {to} ELSE r.got
    BY <1>2 DEF Advancing, Moved
  <2>5. CASE ~(arrives /\ to = "completed")
    <3>1. clamp'.done = clamp.done
      <4>1. /\ \A x \in Queues : clamp'.done[x] = clamp.done[x]
            /\ clamp.done \in [Queues -> Nat] /\ clamp'.done \in [Queues -> Nat]
        BY <2>2, <2>3, <2>5 DEF ClampMoves, ClampTypeOK
      <4> QED
        BY <4>1
    <3>2. \A a \in Buffers' : "completed" \in buffers'[a].got =>
                                 a \in Buffers /\ "completed" \in buffers[a].got
      BY <2>4, <2>5
    <3> QED
      BY <1>0, <2>3, <3>1, <3>2, HeardLasts
  <2>6. CASE arrives /\ to = "completed"
    <3>1. /\ clamp'.done[r.queue] = sent + 1
          /\ \A q \in Queues : q # r.queue => clamp'.done[q] = clamp.done[q]
      BY <2>3, <2>6 DEF ClampMoves
    <3>2. ~Done(b) /\ "completed" \notin r.got
      BY <2>1, <2>6, BufferBounds
    <3>3. \A q \in Queues : Heard(q)' = IF q = r.queue THEN Heard(q) \cup {b} ELSE Heard(q)
      BY <2>1, <2>4, <2>6 DEF Heard
    <3>4. \A q : b \notin Heard(q)
      BY <3>2 DEF Heard
    <3>5. \A q \in Queues : \A a \in Heard(q) :
             buffers'[a].done = buffers[a].done /\ buffers[a].done <= sent
      <4> SUFFICES ASSUME NEW q \in Queues, NEW a \in Heard(q)
                   PROVE  buffers'[a].done = buffers[a].done /\ buffers[a].done <= sent
        OBVIOUS
      <4>1. a \in Buffers /\ a # b
        BY <3>4 DEF Heard
      <4> QED
        BY <2>1, <2>4, <4>1, BufferBounds
    <3>6. buffers'[b].done = sent + 1
      BY <2>4, <2>6
    <3> HIDE DEF r
    <3>7. ASSUME NEW q \in Queues
          PROVE  /\ \A a \in Heard(q)' : buffers'[a].done <= clamp'.done[q]
                 /\ clamp'.done[q] # 0 => \E a \in Heard(q)' : buffers'[a].done = clamp'.done[q]
      <4>1. CASE q = r.queue
        <5>1. Heard(q)' = Heard(q) \cup {b} /\ clamp'.done[q] = sent + 1
          BY <3>1, <3>3, <4>1
        <5>2. \A a \in Heard(q)' : buffers'[a].done <= sent + 1
          <6> SUFFICES ASSUME NEW a \in Heard(q)' PROVE buffers'[a].done <= sent + 1
            OBVIOUS
          <6>1. CASE a = b
            BY <2>1, <3>6, <6>1
          <6>2. CASE a \in Heard(q)
            <7>1. a \in Buffers
              BY <6>2 DEF Heard
            <7>2. buffers[a].done \in 0 .. sent
              BY <7>1, BufferBounds
            <7> QED
              BY <2>1, <3>5, <6>2, <7>2
          <6> QED
            BY <5>1, <6>1, <6>2
        <5> QED
          BY <3>6, <5>1, <5>2
      <4>2. CASE q # r.queue
        <5>1. Heard(q)' = Heard(q) /\ clamp'.done[q] = clamp.done[q]
          BY <3>1, <3>3, <4>2
        <5> QED
          BY <3>5, <5>1 DEF LastDone
      <4> QED
        BY <4>1, <4>2
    <3> QED
      BY <2>3, <3>7 DEF LastDone
  <2> QED
    BY <2>5, <2>6
<1>3. ASSUME NEW b, Releasing(b)
      PROVE  ClampTypeOK' /\ LastDone'
  <2>1. /\ Buffers' = Buffers /\ \A a \in Buffers : a # b => buffers'[a] = buffers[a]
        /\ buffers'[b].got = buffers[b].got /\ clamp' = clamp
    BY <1>3 DEF Releasing, Moved
  <2>2. \A a \in Buffers' : "completed" \in buffers'[a].got =>
                               a \in Buffers /\ "completed" \in buffers[a].got
    BY <2>1
  <2> QED
    BY <1>0, <2>1, <2>2, HeardLasts DEF ClampTypeOK
<1>4. ASSUME UNCHANGED bufferVars
      PROVE  ClampTypeOK' /\ LastDone'
  BY <1>4 DEF bufferVars, ClampTypeOK, LastDone, Heard, Buffers
<1> QED
  BY <1>1, <1>2, <1>3, <1>4, BufferSteps

\* What a commit does; the clamp does not look at it.
Added(p, n, r) ==
    /\ Buffers' = Buffers \cup {n} /\ n \notin Buffers /\ buffers'[n] = r
    /\ \A a \in Buffers : buffers'[a] = buffers[a]
    /\ r.cb = p /\ r.stage = "committed" /\ r.commit = sent + 1 /\ r.sched = 0 /\ r.done = 0
    /\ r.got \subseteq {"committed"}
    /\ \A a \in Buffers : buffers[a].cb = p => buffers[a].stage = "free"
    /\ clamp' = clamp /\ shownTimes' = shownTimes

LEMMA CommitAdds ==
    ASSUME BuffersOK, NEW p, NEW q, NEW ops, NEW arrives \in BOOLEAN,
           Committing(p, q, ops, arrives)
    PROVE  Added(p, Len(buffers) + 1, Fresh(p, q, ops, arrives))
<1> DEFINE n == Len(buffers) + 1
           r == Fresh(p, q, ops, arrives)
<1>1. /\ Buffers' = Buffers \cup {n} /\ n \notin Buffers /\ buffers'[n] = r
      /\ \A a \in Buffers : buffers'[a] = buffers[a]
      /\ \A a \in Buffers : buffers[a].cb = p => buffers[a].stage = "free"
  BY DEF Committing, Grown
<1>2. /\ r.cb = p /\ r.stage = "committed" /\ r.commit = sent + 1 /\ r.sched = 0 /\ r.done = 0
      /\ r.got \subseteq {"committed"}
  BY DEF Fresh
<1>3. clamp' = clamp /\ shownTimes' = shownTimes
  <2>1. Send(n, "committed", r, arrives)
    BY DEF Committing
  <2> HIDE DEF n, r
  <2> QED
    BY <2>1 DEF Send, Clamp
<1> QED
  BY <1>1, <1>2, <1>3 DEF Added

\* What the next frame of a buffer does.
Advanced(b, from, to, arrives) ==
    /\ b \in Buffers /\ buffers[b] \in Lives /\ LifeOK(buffers[b], sent) /\ sent \in Nat
    /\ buffers[b].cb \in Pointers /\ buffers[b].queue \in Queues
    /\ buffers[b].ops \in Seq(Nat) /\ buffers[b].stage = from /\ to \notin buffers[b].got
    /\ \/ from = "committed" /\ to = "scheduled"
       \/ from = "scheduled" /\ to = "completed"
       \/ from = "completed" /\ to = "ops" /\ buffers[b].ops # <<>>
    /\ Buffers' = Buffers /\ \A a \in Buffers : a # b => buffers'[a] = buffers[a]
    /\ \A a \in Buffers : a # b /\ buffers[a].cb = buffers[b].cb => buffers[a].stage = "free"
    /\ buffers'[b].cb = buffers[b].cb /\ buffers'[b].queue = buffers[b].queue
    /\ buffers'[b].ops = buffers[b].ops /\ buffers'[b].commit = buffers[b].commit
    /\ buffers'[b].stage = to
    /\ buffers'[b].sched = IF to = "scheduled" THEN sent + 1 ELSE buffers[b].sched
    /\ buffers'[b].done = IF to = "completed" THEN sent + 1 ELSE buffers[b].done
    /\ buffers'[b].got = IF arrives THEN buffers[b].got \cup {to} ELSE buffers[b].got

LEMMA AdvanceIs ==
    ASSUME BuffersOK, NEW b, NEW from, NEW to, NEW arrives \in BOOLEAN,
           Advancing(b, from, to, arrives)
    PROVE  Advanced(b, from, to, arrives)
<1>1. /\ b \in Buffers /\ buffers[b].stage = from /\ Moved(b, to, arrives)
      /\ \/ from = "committed" /\ to = "scheduled"
         \/ from = "scheduled" /\ to = "completed"
         \/ from = "completed" /\ to = "ops" /\ buffers[b].ops # <<>>
  BY DEF Advancing
<1>2. buffers[b] \in Lives /\ LifeOK(buffers[b], sent) /\ sent \in Nat
  BY <1>1, BufferBounds
<1>3. /\ buffers[b].cb \in Pointers /\ buffers[b].queue \in Queues
      /\ buffers[b].ops \in Seq(Nat)
  BY <1>2, LifeFields
<1>4. to \notin buffers[b].got
  BY <1>1, SentSteps
<1>5. \A a \in Buffers : a # b /\ buffers[a].cb = buffers[b].cb => buffers[a].stage = "free"
  BY <1>1 DEF BuffersOK
<1> QED
  BY <1>1, <1>2, <1>3, <1>4, <1>5 DEF Advanced, Moved

LEMMA AdvanceClamps ==
    ASSUME BuffersOK, ClampTypeOK, NEW b, NEW from, NEW to, NEW arrives \in BOOLEAN,
           Advancing(b, from, to, arrives)
    PROVE  ClampMoves(to, buffers[b], arrives)
<1>1. Advanced(b, from, to, arrives)
  BY AdvanceIs
<1>2. to \in Frames /\ Send(b, to, buffers[b], arrives)
  BY DEF Advancing, Frames
<1> QED
  BY <1>1, <1>2, ClampFrames DEF Advanced

LEMMA ReleaseIs ==
    ASSUME BuffersOK, NEW b, Releasing(b)
    PROVE  /\ b \in Buffers /\ Buffers' = Buffers
           /\ \A a \in Buffers : a # b => buffers'[a] = buffers[a]
           /\ buffers'[b].cb = buffers[b].cb /\ buffers'[b].queue = buffers[b].queue
           /\ buffers'[b].ops = buffers[b].ops /\ buffers'[b].commit = buffers[b].commit
           /\ buffers'[b].sched = buffers[b].sched /\ buffers'[b].done = buffers[b].done
           /\ buffers'[b].got = buffers[b].got /\ buffers'[b].stage = "free"
           /\ Done(b)
           /\ UNCHANGED <<sent, lostFrames, clamp, shownTimes, pairs, trace, panel>>
<1>1. b \in Buffers /\ Done(b)
  BY BufferBounds DEF Releasing
<1> QED
  BY <1>1 DEF Releasing, Moved

-----------------------------------------------------------------------------
LEMMA SchedStep ==
    ASSUME BuffersOK, ClampTypeOK, SchedOK, [BufferNext]_bufferVars
    PROVE  SchedOK'
<1>1. ASSUME NEW p, NEW q, NEW ops, NEW arrives \in BOOLEAN, Committing(p, q, ops, arrives)
      PROVE  SchedOK'
  <2> DEFINE n == Len(buffers) + 1
             r == Fresh(p, q, ops, arrives)
  <2>1. Added(p, n, r)
    BY <1>1, CommitAdds
  <2> HIDE DEF n, r
  <2> QED
    BY <2>1 DEF SchedOK, Added
<1>2. ASSUME NEW b, NEW from, NEW to, NEW arrives \in BOOLEAN, Advancing(b, from, to, arrives)
      PROVE  SchedOK'
  <2>1. Advanced(b, from, to, arrives) /\ ClampMoves(to, buffers[b], arrives)
    BY <1>2, AdvanceIs, AdvanceClamps
  <2> DEFINE r == buffers[b]
             s == buffers'[b]
  <2>2. /\ b \in Buffers /\ r.cb \in Pointers /\ r.stage = from /\ to \notin r.got
        /\ \/ from = "committed" /\ to = "scheduled"
           \/ from = "scheduled" /\ to = "completed"
           \/ from = "completed" /\ to = "ops"
        /\ Buffers' = Buffers /\ \A a \in Buffers : a # b => buffers'[a] = buffers[a]
        /\ \A a \in Buffers : a # b /\ buffers[a].cb = r.cb => buffers[a].stage = "free"
        /\ s.cb = r.cb /\ s.stage = to
        /\ s.sched = IF to = "scheduled" THEN sent + 1 ELSE r.sched
        /\ s.got = IF arrives THEN r.got \cup {to} ELSE r.got
    BY <2>1 DEF Advanced
  <2>3. /\ \A p \in Pointers : p # r.cb => clamp'.sched[p] = clamp.sched[p]
        /\ clamp'.sched[r.cb] = IF arrives /\ to = "scheduled" THEN sent + 1
                                ELSE IF arrives /\ to = "completed" THEN None
                                ELSE clamp.sched[r.cb]
    BY <2>1 DEF ClampMoves
  <2>4. r.stage = "committed" => "completed" \notin r.got
    BY <2>2, BufferBounds
  <2> HIDE DEF r, s
  <2>5. ASSUME NEW p \in Pointers, clamp'.sched[p] # None
        PROVE  \E a \in Buffers : /\ buffers'[a].cb = p /\ "scheduled" \in buffers'[a].got
                                  /\ "completed" \notin buffers'[a].got
    <3>1. CASE p = r.cb /\ arrives
      <4>1. to # "completed"
        BY <2>3, <2>5, <3>1
      <4>2. CASE to = "scheduled"
        BY <2>2, <2>4, <3>1, <4>2 DEF s
      <4>3. CASE to = "ops"
        <5>1. PICK a \in Buffers : /\ buffers[a].cb = p /\ "scheduled" \in buffers[a].got
                                   /\ "completed" \notin buffers[a].got
          BY <2>3, <2>5, <3>1, <4>3 DEF SchedOK
        <5> QED
          BY <2>2, <3>1, <4>3, <5>1 DEF r, s
      <4> QED
        BY <2>2, <4>1, <4>2, <4>3
    <3>2. CASE p # r.cb \/ ~arrives
      <4>1. PICK a \in Buffers : /\ buffers[a].cb = p /\ "scheduled" \in buffers[a].got
                                 /\ "completed" \notin buffers[a].got
        BY <2>3, <2>5, <3>2 DEF SchedOK
      <4> QED
        BY <2>2, <3>2, <4>1 DEF r, s
    <3> QED
      BY <3>1, <3>2
  <2>6. ASSUME NEW a \in Buffers, buffers'[a].stage = "scheduled",
               "scheduled" \in buffers'[a].got
        PROVE  clamp'.sched[buffers'[a].cb] = buffers'[a].sched
    <3>1. CASE a = b
      BY <2>2, <2>3, <2>6, <3>1 DEF s
    <3>2. CASE a # b
      <4>1. buffers'[a] = buffers[a] /\ buffers[a].cb # r.cb /\ buffers[a].cb \in Pointers
        <5>1. buffers'[a] = buffers[a]
          BY <2>2, <3>2
        <5>2. buffers[a].cb \in Pointers
          BY BufferBounds, LifeFields
        <5> QED
          BY <2>2, <2>6, <3>2, <5>1, <5>2
      <4> QED
        BY <2>3, <2>6, <4>1 DEF SchedOK
    <3> QED
      BY <3>1, <3>2
  <2> QED
    BY <2>2, <2>5, <2>6 DEF SchedOK
<1>3. ASSUME NEW b, Releasing(b)
      PROVE  SchedOK'
  <2>1. /\ b \in Buffers /\ Buffers' = Buffers /\ clamp' = clamp
        /\ \A a \in Buffers : a # b => buffers'[a] = buffers[a]
        /\ buffers'[b].cb = buffers[b].cb /\ buffers'[b].got = buffers[b].got
        /\ buffers'[b].stage = "free"
    BY <1>3, ReleaseIs
  <2> QED
    BY <2>1 DEF SchedOK
<1>4. ASSUME UNCHANGED bufferVars
      PROVE  SchedOK'
  BY <1>4 DEF bufferVars, SchedOK, Buffers
<1> QED
  BY <1>1, <1>2, <1>3, <1>4, BufferSteps

\* The window a completion heard of leaves in the clamp is the buffer's own.
LEMMA CompletionWindow ==
    ASSUME BuffersOK, BuffersOK', LossOK, ClampTypeOK, LastDone, SchedOK, lostFrames \in {0, 1},
           NEW b, NEW from, Advancing(b, from, "completed", TRUE)
    PROVE  clamp'.window[buffers[b].cb] =
              IF "scheduled" \in buffers[b].got THEN OwnWindow(b)' ELSE None
<1>1. Advanced(b, from, "completed", TRUE) /\ ClampMoves("completed", buffers[b], TRUE)
  BY AdvanceIs, AdvanceClamps
<1> DEFINE r == buffers[b]
           s == buffers'[b]
           q == r.queue
<1>2. /\ b \in Buffers /\ r.stage = "scheduled" /\ r.cb \in Pointers /\ q \in Queues
      /\ r \in Lives /\ LifeOK(r, sent) /\ sent \in Nat
      /\ Buffers' = Buffers /\ \A a \in Buffers : a # b => buffers'[a] = buffers[a]
      /\ \A a \in Buffers : a # b /\ buffers[a].cb = r.cb => buffers[a].stage = "free"
      /\ s.queue = q /\ s.sched = r.sched /\ s.done = sent + 1
      /\ s.got = r.got \cup {"completed"}
  BY <1>1 DEF Advanced
<1>3. clamp'.window[r.cb] =
         IF clamp.sched[r.cb] = None THEN None
         ELSE SatMinus(sent + 1, Later(clamp.sched[r.cb], clamp.done[q]))
  BY <1>1 DEF ClampMoves
<1>4. r.sched \in 1 .. sent /\ r.done = 0
  <2>1. /\ r.sched \in 0 .. sent /\ r.done \in 0 .. sent
        /\ (r.done > 0 <=> r.stage \in {"completed", "ops", "free"})
        /\ (r.sched = 0 <=> r.stage = "committed")
    BY <1>2, LifeBounds
  <2> QED
    BY <1>2, <2>1
<1>5. CASE "scheduled" \in r.got
  <2>1. clamp.sched[r.cb] = r.sched
    BY <1>2, <1>5 DEF SchedOK
  <2>2. clamp.done[q] \in Nat
    BY <1>2 DEF ClampTypeOK
  <2> DEFINE d == clamp.done[q]
             m == Later(r.sched, d)
  <2>3. \A a \in Buffers : "completed" \in buffers[a].got =>
           a # b /\ buffers[a].done \in 1 .. sent
    <3>1. ASSUME NEW a \in Buffers, "completed" \in buffers[a].got
          PROVE  a # b /\ buffers[a].done \in 1 .. sent
      <4>1. Done(a) /\ buffers[a].done \in 0 .. sent
        BY <3>1, BufferBounds
      <4> QED
        BY <1>4, <4>1 DEF Done
    <3> QED
      BY <3>1
  <2>4. Before(b)' = Heard(q)
    <3>1. ASSUME NEW a
          PROVE  a \in Before(b)' <=> a \in Heard(q)
      <4>1. CASE a \in Buffers /\ a # b
        <5>1. buffers'[a] = buffers[a]
          BY <1>2, <4>1
        <5>2. "completed" \in buffers[a].got => buffers[a].done < sent + 1
          BY <1>2, <2>3, <4>1
        <5> QED
          BY <1>2, <4>1, <5>1, <5>2 DEF Before, Heard
      <4>2. CASE a \notin Buffers \/ a = b
        <5>1. a \notin Heard(q)
          BY <2>3, <4>2 DEF Heard
        <5>2. a \notin Before(b)'
          BY <1>2, <4>2 DEF Before
        <5> QED
          BY <5>1, <5>2
      <4> QED
        BY <4>1, <4>2
    <3> QED
      BY <3>1
  <2>5. \A a \in Heard(q) : buffers'[a].done = buffers[a].done /\ buffers[a].done \in 1 .. sent
    BY <1>2, <2>3 DEF Heard
  <2>6. Starts(b)' = {r.sched} \cup {buffers[a].done : a \in Heard(q)}
    BY <1>2, <2>4, <2>5 DEF Starts
  <2>7. /\ \A a \in Heard(q) : buffers[a].done <= d
        /\ d # 0 => \E a \in Heard(q) : buffers[a].done = d
    BY <1>2 DEF LastDone
  <2>8. d \in 0 .. sent
    BY <1>2, <2>5, <2>7
  <2> DEFINE S == {r.sched} \cup {buffers[a].done : a \in Heard(q)}
  <2>9. S \in SUBSET Int /\ \A k \in S : k = r.sched \/ k <= d
    BY <1>4, <2>5, <2>7
  <2>10. r.sched \in S /\ (d # 0 => d \in S)
    BY <2>7
  <2> HIDE DEF S, d
  <2>11. m \in S /\ \A k \in S : m >= k
    <3>0. d \in Nat /\ r.sched \in Nat
      BY <1>2, <1>4, <2>8
    <3>1. CASE r.sched > d
      <4>1. m = r.sched
        BY <3>1 DEF Later
      <4> QED
        BY <2>9, <2>10, <3>0, <3>1, <4>1
    <3>2. CASE ~(r.sched > d)
      BY <1>4, <2>8, <2>9, <2>10, <3>2 DEF Later
    <3> QED
      BY <3>1, <3>2
  <2>12. Max(S) = m
    BY <2>9, <2>11, GreatestIs
  <2>13. OwnWindow(b)' = (sent + 1) - m
    <3>1. OwnWindow(b)' = s.done - Max(Starts(b)')
      BY DEF OwnWindow, Starts, Before
    <3>2. Starts(b)' = S
      BY <2>6 DEF S
    <3>3. s.done = sent + 1
      BY <1>2
    <3> HIDE DEF m, s
    <3>4. Max(Starts(b)') = m
      BY <2>12, <3>2, Zenon
    <3> QED
      BY <3>1, <3>3, <3>4, Zenon
  <2>14. m \in 0 .. sent
    BY <1>4, <2>8 DEF Later
  <2>15. SatMinus(sent + 1, m) = (sent + 1) - m
    <3> HIDE DEF m
    <3> QED
      BY <1>2, <2>14 DEF SatMinus
  <2>16. clamp'.window[r.cb] = SatMinus(sent + 1, m)
    BY <1>3, <1>4, <2>1 DEF None, d
  <2> QED
    BY <1>5, <2>13, <2>15, <2>16
<1>6. CASE "scheduled" \notin r.got
  <2>1. clamp.sched[r.cb] = None
    <3> SUFFICES ASSUME clamp.sched[r.cb] # None
                 PROVE  FALSE
      OBVIOUS
    <3>1. PICK a \in Buffers : /\ buffers[a].cb = r.cb /\ "scheduled" \in buffers[a].got
                               /\ "completed" \notin buffers[a].got
      BY <1>2 DEF SchedOK
    <3>2. a # b /\ Done(a)
      <4>1. a # b
        BY <1>6, <3>1
      <4>2. buffers[a].stage = "free"
        BY <1>2, <3>1, <4>1
      <4> QED
        BY <4>1, <4>2, BufferBounds
    <3>3. "completed" \in Missing(buffers[a])
      BY <3>1, <3>2 DEF Missing, SentOf, Frames, Done
    <3>4. "scheduled" \in Missing(buffers[b])
      BY <1>2, <1>4, <1>6 DEF Missing, SentOf, Frames
    <3>5. lostFrames <= 1
      OBVIOUS
    <3> QED
      BY <1>2, <3>1, <3>2, <3>3, <3>4, <3>5, Zenon DEF LossOK
  <2> QED
    BY <1>3, <1>6, <2>1
<1> QED
  BY <1>5, <1>6

LEMMA WindowStep ==
    ASSUME BuffersOK, BuffersOK', LossOK, ClampTypeOK, LastDone, SchedOK, WindowOK,
           [BufferNext]_bufferVars
    PROVE  WindowOK'
<1>0. /\ \A b \in Buffers : Kept(b)
      /\ \A b \in Buffers : Done(b) => OwnWindow(b)' = OwnWindow(b)
      /\ \A b \in Buffers : buffers[b].stage = "completed" => Done(b)
  BY BuffersAreKept, OwnWindowLasts, BufferBounds
<1>1. ASSUME NEW p, NEW q, NEW ops, NEW arrives \in BOOLEAN, Committing(p, q, ops, arrives)
      PROVE  WindowOK'
  <2> DEFINE n == Len(buffers) + 1
             r == Fresh(p, q, ops, arrives)
  <2>1. Added(p, n, r) /\ lostFrames \in Nat
    BY <1>1, CommitAdds DEF BuffersOK
  <2>2. lostFrames' = IF arrives THEN lostFrames ELSE lostFrames + 1
    BY <1>1, SendCounts DEF Committing
  <2> HIDE DEF n, r
  <2>3. lostFrames' <= 1 => lostFrames <= 1
    BY <2>1, <2>2
  <2> QED
    BY <1>0, <2>1, <2>3 DEF WindowOK, Added
<1>2. ASSUME NEW b, NEW from, NEW to, NEW arrives \in BOOLEAN, Advancing(b, from, to, arrives)
      PROVE  WindowOK'
  <2>1. /\ Advanced(b, from, to, arrives) /\ ClampMoves(to, buffers[b], arrives)
        /\ lostFrames \in Nat
    BY <1>2, AdvanceIs, AdvanceClamps DEF BuffersOK
  <2>2. lostFrames' = IF arrives THEN lostFrames ELSE lostFrames + 1
    BY <1>2, SendCounts DEF Advancing
  <2>3. lostFrames' <= 1 => lostFrames <= 1
    BY <2>1, <2>2
  <2> SUFFICES ASSUME lostFrames' <= 1, NEW a \in Buffers', buffers'[a].stage = "completed",
                      "completed" \in buffers'[a].got
               PROVE  clamp'.window[buffers'[a].cb] =
                        IF "scheduled" \in buffers'[a].got THEN OwnWindow(a)' ELSE None
    BY DEF WindowOK
  <2>4. CASE a = b
    <3>1. to = "completed" /\ arrives /\ buffers'[b].cb = buffers[b].cb
      BY <2>1, <2>4 DEF Advanced
    <3>2. lostFrames \in {0, 1}
      BY <2>1, <2>3
    <3>3. Advancing(b, from, "completed", TRUE)
      BY <1>2, <3>1
    <3>4. clamp'.window[buffers[b].cb] =
              IF "scheduled" \in buffers[b].got THEN OwnWindow(b)' ELSE None
      BY <3>2, <3>3, CompletionWindow
    <3>5. "scheduled" \in buffers'[b].got <=> "scheduled" \in buffers[b].got
      BY <2>1, <3>1 DEF Advanced
    <3> QED
      BY <2>4, <3>1, <3>4, <3>5
  <2>5. CASE a # b
    <3>1. a \in Buffers /\ buffers'[a] = buffers[a] /\ buffers[a].cb # buffers[b].cb
      BY <2>1, <2>5 DEF Advanced
    <3>2. buffers[a].cb \in Pointers
      BY <3>1, BufferBounds, LifeFields
    <3>3. clamp'.window[buffers[a].cb] = clamp.window[buffers[a].cb]
      BY <2>1, <3>1, <3>2 DEF ClampMoves
    <3>4. OwnWindow(a)' = OwnWindow(a)
      BY <1>0, <3>1
    <3> QED
      BY <2>3, <3>1, <3>3, <3>4 DEF WindowOK
  <2> QED
    BY <2>4, <2>5
<1>3. ASSUME NEW b, Releasing(b)
      PROVE  WindowOK'
  <2>1. /\ b \in Buffers /\ Buffers' = Buffers /\ clamp' = clamp /\ lostFrames' = lostFrames
        /\ \A a \in Buffers : a # b => buffers'[a] = buffers[a]
        /\ buffers'[b].stage = "free"
    BY <1>3, ReleaseIs
  <2> QED
    BY <1>0, <2>1 DEF WindowOK
<1>4. ASSUME UNCHANGED bufferVars
      PROVE  WindowOK'
  <2>1. Buffers' = Buffers /\ buffers' = buffers /\ clamp' = clamp /\ lostFrames' = lostFrames
    BY <1>4 DEF bufferVars, Buffers
  <2> QED
    BY <1>0, <2>1 DEF WindowOK
<1> QED
  BY <1>1, <1>2, <1>3, <1>4, BufferSteps

\* The times as they are scaled.
ScaledTo(ops, w) ==
    IF w # None /\ OpSum(ops) > w THEN [i \in DOMAIN ops |-> (ops[i] * w) \div OpSum(ops)] ELSE ops

LEMMA ShownFrames ==
    ASSUME NEW b, NEW kind, NEW r, NEW arrives \in BOOLEAN, Send(b, kind, r, arrives)
    PROVE  shownTimes' = IF arrives /\ kind = "ops"
                         THEN WithTimes(b, ScaledTo(r.ops, clamp.window[r.cb]))
                         ELSE shownTimes
<1> DEFINE f == [kind |-> kind, of |-> b, ts |-> sent + 1, cb |-> r.cb, queue |-> r.queue,
                 ops |-> r.ops, inFlight |-> sent + 1 - r.commit]
<1>1. /\ arrives /\ kind = "ops" => shownTimes' = WithTimes(b, Scaled(clamp, f))
      /\ ~(arrives /\ kind = "ops") => shownTimes' = shownTimes
  BY DEF Send
<1>2. f.cb = r.cb /\ f.ops = r.ops
  OBVIOUS
<1> HIDE DEF f
<1>3. Scaled(clamp, f) = ScaledTo(r.ops, clamp.window[r.cb])
  BY <1>2 DEF Scaled, ScaledTo
<1> QED
  BY <1>1, <1>3

LEMMA OpSumType ==
    ASSUME NEW s \in Seq(Nat)
    PROVE  OpSum(s) \in Nat
<1>1. PICK f : Sums(s, f)
  BY SumsExist
<1>2. OpSum(s) = f[Len(s)]
  BY <1>1, OpSumIs
<1> QED
  BY <1>1, <1>2 DEF Sums

\* Times scaled by the buffer's own window, or by none, are as promised.
LEMMA ScaledIsRight ==
    ASSUME NEW b, buffers[b].ops \in Seq(Nat), OwnWindow(b) \in Nat, NEW w,
           "completed" \in buffers[b].got =>
              w = IF "scheduled" \in buffers[b].got THEN OwnWindow(b) ELSE None
    PROVE  Right(b, ScaledTo(buffers[b].ops, w))
<1> SUFFICES ASSUME "completed" \in buffers[b].got
             PROVE  Right(b, ScaledTo(buffers[b].ops, w))
  BY DEF Right
<1> DEFINE s == buffers[b].ops
           t == ScaledTo(s, w)
<1>0. OpSum(s) \in Nat
  BY OpSumType
<1>1. CASE "scheduled" \notin buffers[b].got
  <2>1. t = s
    BY <1>1 DEF ScaledTo
  <2> QED
    BY <1>1, <2>1 DEF Right
<1>2. CASE "scheduled" \in buffers[b].got /\ ~(OpSum(s) > w)
  <2>1. t = s /\ w = OwnWindow(b)
    BY <1>2 DEF ScaledTo
  <2>2. OpSum(s) <= OwnWindow(b)
    BY <1>0, <1>2, <2>1
  <2> QED
    BY <2>1, <2>2 DEF Right
<1>3. CASE "scheduled" \in buffers[b].got /\ OpSum(s) > w
  <2>1. w = OwnWindow(b) /\ w \in Nat
    BY <1>3
  <2>2. t = [i \in DOMAIN s |-> (s[i] * w) \div OpSum(s)]
    BY <1>3, <2>1 DEF ScaledTo, None
  <2> HIDE DEF t, s
  <2>3. OpSum(t) <= w /\ OpSum(t) > w - Len(t)
    BY <1>3, <2>1, <2>2, ScaledSum DEF s
  <2>4. ~(OpSum(s) <= OwnWindow(b))
    BY <1>0, <1>3, <2>1
  <2> QED
    BY <2>1, <2>3, <2>4, <1>3 DEF Right, s, t
<1> QED
  BY <1>1, <1>2, <1>3

LEMMA RightLasts ==
    ASSUME BuffersOK, BuffersOK', [BufferNext]_bufferVars, NEW b \in Buffers, Done(b),
           NEW t, Right(b, t)
    PROVE  Right(b, t)'
<1>1. Kept(b) /\ OwnWindow(b)' = OwnWindow(b)
  BY BuffersAreKept, OwnWindowLasts
<1>2. /\ buffers'[b].ops = buffers[b].ops
      /\ "completed" \in buffers'[b].got <=> "completed" \in buffers[b].got
      /\ "scheduled" \in buffers'[b].got <=> "scheduled" \in buffers[b].got
  BY <1>1 DEF Kept
<1> QED
  BY <1>1, <1>2 DEF Right

LEMMA ShownStep ==
    ASSUME BuffersOK, BuffersOK', LossOK, WindowOK, ShownOK, [BufferNext]_bufferVars
    PROVE  ShownOK'
<1>1. /\ \A b \in Buffers : Kept(b)
      /\ \A b \in Buffers : "ops" \in buffers[b].got => Done(b)
  <2>1. \A b \in Buffers : Kept(b)
    BY BuffersAreKept
  <2>2. ASSUME NEW b \in Buffers, "ops" \in buffers[b].got
        PROVE  Done(b)
    <3>1. buffers[b] \in Lives /\ LifeOK(buffers[b], sent) /\ sent \in Nat
      BY BufferBounds
    <3> QED
      BY <2>2, <3>1, LifeBounds DEF Done
  <2> QED
    BY <2>1, <2>2
<1>2. \A b \in DOMAIN shownTimes : b \in Buffers' /\ "ops" \in buffers'[b].got
  BY <1>1 DEF ShownOK, Kept, Frames
<1>3. ASSUME NEW b \in Buffers, Done(b), NEW t, Right(b, t), NEW u, t = u, u = shownTimes'[b]
      PROVE  Right(b, shownTimes[b])'
  <2>1. Right(b, t)'
    BY <1>3, RightLasts
  <2> QED
    BY <1>3, <2>1 DEF Right
<1>4. ASSUME NEW b \in Buffers, Done(b), Right(b, shownTimes[b]), shownTimes'[b] = shownTimes[b]
      PROVE  Right(b, shownTimes[b])'
  <2>1. PICK t : t = shownTimes[b]
    OBVIOUS
  <2>2. Right(b, t)
    BY <1>4, <2>1
  <2> QED
    BY <1>3, <1>4, <2>1, <2>2
<1>5. ASSUME shownTimes' = shownTimes, lostFrames' <= 1 => lostFrames <= 1
      PROVE  ShownOK'
  <2>1. ASSUME lostFrames' <= 1, NEW b \in DOMAIN shownTimes
        PROVE  Right(b, shownTimes[b])'
    <3>1. b \in Buffers /\ Done(b) /\ Right(b, shownTimes[b])
      BY <1>1, <1>5, <2>1 DEF ShownOK
    <3> QED
      BY <1>4, <1>5, <3>1
  <2> QED
    BY <1>2, <1>5, <2>1 DEF ShownOK
<1>6. lostFrames \in Nat
  BY DEF BuffersOK
<1>7. ASSUME NEW p, NEW q, NEW ops, NEW arrives \in BOOLEAN, Committing(p, q, ops, arrives)
      PROVE  ShownOK'
  <2>1. shownTimes' = shownTimes
    BY <1>7, CommitAdds DEF Added
  <2>2. lostFrames' = IF arrives THEN lostFrames ELSE lostFrames + 1
    BY <1>7, SendCounts DEF Committing
  <2> QED
    BY <1>5, <1>6, <2>1, <2>2
<1>8. ASSUME NEW b, NEW from, NEW to, NEW arrives \in BOOLEAN, Advancing(b, from, to, arrives)
      PROVE  ShownOK'
  <2> DEFINE T == ScaledTo(buffers[b].ops, clamp.window[buffers[b].cb])
  <2>1. /\ lostFrames' = IF arrives THEN lostFrames ELSE lostFrames + 1
        /\ shownTimes' = IF arrives /\ to = "ops" THEN WithTimes(b, T) ELSE shownTimes
    BY <1>8, SendCounts, ShownFrames DEF Advancing
  <2>2. lostFrames' <= 1 => lostFrames <= 1
    BY <1>6, <2>1
  <2>3. CASE ~(arrives /\ to = "ops")
    BY <1>5, <2>1, <2>2, <2>3
  <2>4. CASE arrives /\ to = "ops"
    <3>1. Advanced(b, from, to, arrives)
      BY <1>8, AdvanceIs
    <3>2. /\ b \in Buffers /\ b \notin DOMAIN shownTimes /\ buffers[b].stage = "completed"
          /\ Done(b) /\ buffers[b].ops \in Seq(Nat) /\ b \in Buffers' /\ "ops" \in buffers'[b].got
      BY <2>4, <3>1, BufferBounds DEF Advanced, ShownOK
    <3> HIDE DEF T
    <3>3. /\ DOMAIN shownTimes' = DOMAIN shownTimes \cup {b} /\ shownTimes'[b] = T
          /\ \A a \in DOMAIN shownTimes : shownTimes'[a] = shownTimes[a]
      BY <2>1, <2>4, <3>2 DEF WithTimes
    <3>4. ASSUME lostFrames' <= 1
          PROVE  Right(b, shownTimes[b])'
      <4>1. "completed" \in buffers[b].got =>
              clamp.window[buffers[b].cb] =
                IF "scheduled" \in buffers[b].got THEN OwnWindow(b) ELSE None
        BY <2>2, <3>2, <3>4 DEF WindowOK
      <4>2. OwnWindow(b) \in Nat
        BY <3>2, OwnWindowBounds
      <4>3. Right(b, T)
        BY <3>2, <4>1, <4>2, ScaledIsRight DEF T
      <4>4. PICK t : t = T
        OBVIOUS
      <4>5. Right(b, t)
        BY <4>3, <4>4
      <4> QED
        BY <1>3, <3>2, <3>3, <4>4, <4>5
    <3>5. ASSUME lostFrames' <= 1, NEW a \in DOMAIN shownTimes
          PROVE  Right(a, shownTimes[a])'
      <4>1. a \in Buffers /\ Done(a) /\ Right(a, shownTimes[a])
        BY <1>1, <2>2, <3>5 DEF ShownOK
      <4> QED
        BY <1>4, <3>3, <4>1
    <3> QED
      BY <1>2, <3>2, <3>3, <3>4, <3>5 DEF ShownOK
  <2> QED
    BY <2>3, <2>4
<1>9. ASSUME NEW b, Releasing(b)
      PROVE  ShownOK'
  <2>1. shownTimes' = shownTimes /\ lostFrames' = lostFrames
    BY <1>9, ReleaseIs
  <2> QED
    BY <1>5, <2>1
<1>10. ASSUME UNCHANGED bufferVars
       PROVE  ShownOK'
  BY <1>5, <1>10 DEF bufferVars
<1> QED
  BY <1>7, <1>8, <1>9, <1>10, BufferSteps

LEMMA ClampStart ==
    ASSUME BufferInit
    PROVE  ClampInv
<1>1. buffers = <<>> /\ clamp = ClampInit /\ shownTimes = <<>>
  BY DEF BufferInit
<1>2. Buffers = {} /\ DOMAIN shownTimes = {}
  BY <1>1 DEF Buffers
<1>3. /\ clamp.sched = [p \in Pointers |-> None] /\ clamp.done = [q \in Queues |-> 0]
      /\ ClampTypeOK
  BY <1>1 DEF ClampInit, ClampTypeOK, None
<1> QED
  BY <1>1, <1>2, <1>3 DEF ClampInv, LastDone, Heard, SchedOK, WindowOK, ShownOK

LEMMA ClampStep ==
    ASSUME BuffersOK, BuffersOK', LossOK, ClampInv, [BufferNext]_bufferVars
    PROVE  ClampInv'
BY LastDoneStep, SchedStep, WindowStep, ShownStep DEF ClampInv

LEMMA ClampHolds ==
    ASSUME ClampInv, lostFrames <= 1
    PROVE  ClampIsOfOwnBuffer
BY DEF ClampInv, ShownOK, Right, ClampIsOfOwnBuffer

-----------------------------------------------------------------------------
(* What the pairing holds when every frame was heard.                      *)

LEMMA AllIsHeard ==
    ASSUME BuffersOK, LossOK, lostFrames = 0, NEW b \in Buffers
    PROVE  /\ "completed" \in buffers[b].got <=> Done(b)
           /\ "ops" \in buffers[b].got <=>
                \/ buffers[b].stage = "ops"
                \/ buffers[b].stage = "free" /\ buffers[b].ops # <<>>
           /\ "scheduled" \in buffers[b].got <=> buffers[b].sched > 0
<1>1. SentOf(buffers[b]) \subseteq buffers[b].got /\ buffers[b].got \subseteq SentOf(buffers[b])
  BY BufferBounds DEF LossOK, Missing, LifeOK
<1> QED
  BY <1>1 DEF SentOf, Frames, Done

\* The steps, when no frame is lost.
LEMMA HeardSteps ==
    ASSUME BuffersOK, [BufferNext]_bufferVars, lostFrames' = 0
    PROVE  /\ lostFrames = 0
           /\ \/ \E p, q, ops : Committing(p, q, ops, TRUE)
              \/ \E b, from, to : Advancing(b, from, to, TRUE)
              \/ \E b : Releasing(b)
              \/ UNCHANGED bufferVars
<1>0. lostFrames \in Nat
  BY DEF BuffersOK
<1>1. ASSUME NEW p, NEW q, NEW ops, NEW arrives \in BOOLEAN, Committing(p, q, ops, arrives)
      PROVE  lostFrames = 0 /\ Committing(p, q, ops, TRUE)
  <2>1. lostFrames' = IF arrives THEN lostFrames ELSE lostFrames + 1
    BY <1>1, SendCounts DEF Committing
  <2>2. arrives = TRUE /\ lostFrames = 0
    BY <1>0, <2>1
  <2> QED
    BY <1>1, <2>2
<1>2. ASSUME NEW b, NEW from, NEW to, NEW arrives \in BOOLEAN, Advancing(b, from, to, arrives)
      PROVE  lostFrames = 0 /\ Advancing(b, from, to, TRUE)
  <2>1. lostFrames' = IF arrives THEN lostFrames ELSE lostFrames + 1
    BY <1>2, SendCounts DEF Advancing
  <2>2. arrives = TRUE /\ lostFrames = 0
    BY <1>0, <2>1
  <2> QED
    BY <1>2, <2>2
<1>3. ASSUME NEW b, Releasing(b)
      PROVE  lostFrames = 0
  BY <1>3 DEF Releasing
<1>4. ASSUME UNCHANGED bufferVars
      PROVE  lostFrames = 0
  BY <1>4 DEF bufferVars
<1> QED
  BY <1>1, <1>2, <1>3, <1>4, BufferSteps

PairEntry == [commit : Int, of : Int, ops : Int]
PairTypeOK ==
    pairs \in [commit : [Pointers -> Int], completed : Seq(PairEntry), last : [Pointers -> Nat]]

\* The entry of a completed buffer.
EntryFor(r, b) == [commit |-> r.commit, of |-> b, ops |-> IF "ops" \in r.got THEN b ELSE None]

CommitsOK ==
    \A b \in Buffers : buffers[b].done = 0 => pairs.commit[buffers[b].cb] = buffers[b].commit
EntriesOK ==
    \A i \in DOMAIN pairs.completed : \E b \in Buffers :
       buffers[b].done > 0 /\ pairs.completed[i] = EntryFor(buffers[b], b)
EntriesApart ==
    \A i, j \in DOMAIN pairs.completed :
       pairs.completed[i].of = pairs.completed[j].of => i = j
AllListed ==
    \A b \in Buffers : buffers[b].done > 0 =>
       \E i \in DOMAIN pairs.completed : pairs.completed[i].of = b
LastOK ==
    \A b \in Buffers : buffers[b].stage = "completed" =>
       \E i \in DOMAIN pairs.completed :
          pairs.last[buffers[b].cb] = i /\ pairs.completed[i].of = b

PairOK == CommitsOK /\ EntriesOK /\ EntriesApart /\ AllListed /\ LastOK

LEMMA PairStart ==
    ASSUME BufferInit
    PROVE  PairTypeOK /\ PairOK
<1>1. buffers = <<>> /\ pairs = PairInit
  BY DEF BufferInit
<1>2. /\ pairs.commit = [p \in Pointers |-> None] /\ pairs.completed = <<>>
      /\ pairs.last = [p \in Pointers |-> 0] /\ PairTypeOK
  BY <1>1 DEF PairInit, PairTypeOK, None
<1>3. Buffers = {} /\ DOMAIN pairs.completed = {}
  BY <1>1, <1>2 DEF Buffers
<1> QED
  BY <1>2, <1>3 DEF PairOK, CommitsOK, EntriesOK, EntriesApart, AllListed, LastOK

LEMMA PairCommits ==
    ASSUME BuffersOK, PairTypeOK, PairOK, NEW p, NEW q, NEW ops, Committing(p, q, ops, TRUE)
    PROVE  PairTypeOK' /\ PairOK'
<1> DEFINE n == Len(buffers) + 1
           r == Fresh(p, q, ops, TRUE)
<1>1. Added(p, n, r) /\ p \in Pointers /\ sent \in Nat
  BY CommitAdds DEF Committing, BuffersOK
<1>2. Send(n, "committed", r, TRUE)
  BY DEF Committing
<1> HIDE DEF n, r
<1>3. pairs' = [pairs EXCEPT !.commit[r.cb] = sent + 1]
  BY <1>2 DEF Send, Pair
<1>4. /\ pairs'.commit = [pairs.commit EXCEPT ![p] = sent + 1]
      /\ pairs'.completed = pairs.completed /\ pairs'.last = pairs.last /\ PairTypeOK'
  <2>1. r.cb = p /\ sent + 1 \in Int
    BY <1>1 DEF Added
  <2> QED
    BY <1>1, <1>3, <2>1 DEF PairTypeOK
<1>5. /\ Buffers' = Buffers \cup {n} /\ n \notin Buffers /\ buffers'[n] = r
      /\ \A a \in Buffers : buffers'[a] = buffers[a]
      /\ r.cb = p /\ r.done = 0 /\ r.stage = "committed" /\ r.commit = sent + 1
  BY <1>1 DEF Added
<1>6. pairs.commit \in [Pointers -> Int]
  BY DEF PairTypeOK
<1>7. \A b \in Buffers : buffers[b].cb \in Pointers /\ (buffers[b].cb = p => buffers[b].done > 0)
  BY <1>1, BufferBounds, LifeFields DEF Added, Done
<1>8. \A b \in Buffers' :
         buffers'[b].done = 0 => pairs'.commit[buffers'[b].cb] = buffers'[b].commit
  <2> SUFFICES ASSUME NEW b \in Buffers', buffers'[b].done = 0
               PROVE  pairs'.commit[buffers'[b].cb] = buffers'[b].commit
    OBVIOUS
  <2>1. CASE b = n
    BY <1>1, <1>4, <1>5, <1>6, <2>1
  <2>2. CASE b \in Buffers
    <3>1. buffers[b].cb # p /\ buffers[b].cb \in Pointers /\ buffers'[b] = buffers[b]
      BY <1>5, <1>7, <2>2
    <3> QED
      BY <1>4, <1>6, <2>2, <3>1 DEF PairOK, CommitsOK
  <2> QED
    BY <1>5, <2>1, <2>2
<1>9. \A i \in DOMAIN pairs'.completed : \E b \in Buffers' :
         buffers'[b].done > 0 /\ pairs'.completed[i] = EntryFor(buffers'[b], b)
  BY <1>4, <1>5 DEF PairOK, EntriesOK
<1>10. \A b \in Buffers' : buffers'[b].done > 0 \/ buffers'[b].stage = "completed" =>
          b \in Buffers /\ buffers'[b] = buffers[b]
  BY <1>5
<1>11. CommitsOK' /\ EntriesOK'
  BY <1>8, <1>9 DEF CommitsOK, EntriesOK
<1>12. EntriesApart'
  BY <1>4 DEF PairOK, EntriesApart
<1>13. AllListed'
  BY <1>4, <1>10 DEF PairOK, AllListed
<1>14. LastOK'
  BY <1>4, <1>10 DEF PairOK, LastOK
<1> QED
  BY <1>4, <1>11, <1>12, <1>13, <1>14 DEF PairOK

\* The other buffers with a frame still to send have pointers of their own.
LEMMA OthersApart ==
    ASSUME BuffersOK, NEW b, NEW from, NEW to, NEW arrives, Advanced(b, from, to, arrives)
    PROVE  \A a \in Buffers : a # b =>
             /\ buffers'[a] = buffers[a] /\ buffers[a].cb \in Pointers
             /\ buffers[a].done = 0 \/ buffers[a].stage = "completed" =>
                  buffers[a].cb # buffers[b].cb
<1> SUFFICES ASSUME NEW a \in Buffers, a # b
             PROVE  /\ buffers'[a] = buffers[a] /\ buffers[a].cb \in Pointers
                    /\ buffers[a].done = 0 \/ buffers[a].stage = "completed" =>
                         buffers[a].cb # buffers[b].cb
  OBVIOUS
<1>1. /\ buffers'[a] = buffers[a]
      /\ buffers[a].cb = buffers[b].cb => buffers[a].stage = "free"
  BY DEF Advanced
<1>2. buffers[a].cb \in Pointers /\ (buffers[a].stage = "free" => buffers[a].done > 0)
      /\ buffers[a].done \in 0 .. sent
  BY BufferBounds, LifeFields DEF Done
<1> QED
  BY <1>1, <1>2

\* A frame the pairing does not look at, or the release of a buffer.
LEMMA PairRests ==
    ASSUME PairTypeOK, PairOK, pairs' = pairs, Buffers' = Buffers,
           \A a \in Buffers :
              /\ buffers'[a].cb = buffers[a].cb /\ buffers'[a].commit = buffers[a].commit
              /\ buffers'[a].done = buffers[a].done
              /\ "ops" \in buffers'[a].got <=> "ops" \in buffers[a].got
              /\ buffers'[a].stage = "completed" => buffers[a].stage = "completed"
    PROVE  PairTypeOK' /\ PairOK'
<1>1. \A a \in Buffers : EntryFor(buffers'[a], a) = EntryFor(buffers[a], a)
  BY DEF EntryFor
<1>2. CommitsOK' /\ AllListed'
  BY DEF PairOK, CommitsOK, AllListed
<1>3. EntriesOK'
  BY <1>1 DEF PairOK, EntriesOK
<1>4. EntriesApart'
  BY DEF PairOK, EntriesApart
<1>5. LastOK'
  BY DEF PairOK, LastOK
<1> QED
  BY <1>2, <1>3, <1>4, <1>5 DEF PairTypeOK, PairOK

LEMMA PairCompletes ==
    ASSUME BuffersOK, BuffersOK', PairTypeOK, PairOK, NEW b, NEW from,
           Advancing(b, from, "completed", TRUE)
    PROVE  PairTypeOK' /\ PairOK'
<1>1. Advanced(b, from, "completed", TRUE) /\ Send(b, "completed", buffers[b], TRUE)
  BY AdvanceIs DEF Advancing
<1> DEFINE r == buffers[b]
           s == buffers'[b]
           m == Len(pairs.completed)
           e == [commit |-> r.commit, of |-> b, ops |-> None]
<1>2. /\ b \in Buffers /\ Buffers' = Buffers /\ r.cb \in Pointers /\ sent \in Nat
      /\ r \in Lives /\ LifeOK(r, sent)
      /\ r.stage = "scheduled" /\ s.stage = "completed"
      /\ s.cb = r.cb /\ s.commit = r.commit /\ s.done = sent + 1
  BY <1>1 DEF Advanced
<1>3. r.done = 0 /\ r.commit \in Nat /\ r.commit > 0
  <2>1. r.done \in 0 .. sent /\ (r.done > 0 <=> r.stage \in {"completed", "ops", "free"})
        /\ r.commit \in 1 .. sent
    BY <1>2, LifeBounds
  <2> QED
    BY <1>2, <2>1
<1>4. "ops" \notin s.got
  <2>1. s \in Lives /\ LifeOK(s, sent') /\ sent' \in Nat
    BY <1>2 DEF BuffersOK, Buffers
  <2> QED
    BY <1>2, <2>1, LifeBounds
<1>5. \A a \in Buffers : a # b =>
             /\ buffers'[a] = buffers[a] /\ buffers[a].cb \in Pointers
             /\ buffers[a].done = 0 \/ buffers[a].stage = "completed" => buffers[a].cb # r.cb
  BY <1>1, OthersApart
<1>6. pairs.commit[r.cb] = r.commit
  BY <1>2, <1>3 DEF PairOK, CommitsOK
<1>7. b \in Int
  BY <1>2 DEF BuffersOK, Buffers
<1>8. /\ pairs.commit \in [Pointers -> Int] /\ pairs.completed \in Seq(PairEntry)
      /\ pairs.last \in [Pointers -> Nat] /\ m \in Nat
  BY DEF PairTypeOK
<1> HIDE DEF s, m
<1>9. pairs' = [commit |-> [pairs.commit EXCEPT ![r.cb] = None],
                completed |-> Append(pairs.completed, e),
                last |-> [pairs.last EXCEPT ![r.cb] = m + 1]]
  BY <1>1, <1>3, <1>6 DEF Send, Pair, PairCompleted, None, m
<1> HIDE DEF r
<1>10. e \in PairEntry
  BY <1>3, <1>7 DEF PairEntry, None
<1>11. e = EntryFor(s, b)
  BY <1>2, <1>4 DEF EntryFor
<1> HIDE DEF e
<1>12. /\ DOMAIN pairs.completed = 1 .. m /\ DOMAIN pairs'.completed = 1 .. m + 1
       /\ pairs'.completed \in Seq(PairEntry) /\ pairs'.completed[m + 1] = e
       /\ \A i \in 1 .. m : pairs'.completed[i] = pairs.completed[i]
       /\ pairs'.commit \in [Pointers -> Int] /\ pairs'.last \in [Pointers -> Nat]
       /\ pairs'.last[r.cb] = m + 1
       /\ \A p \in Pointers : p # r.cb => /\ pairs'.commit[p] = pairs.commit[p]
                                          /\ pairs'.last[p] = pairs.last[p]
  BY <1>2, <1>8, <1>9, <1>10 DEF None, m
<1>13. PairTypeOK'
  BY <1>9, <1>12 DEF PairTypeOK
<1>14. e.of = b
  BY DEF e
<1>15. \A a \in Buffers : buffers'[a].done = 0 =>
          pairs'.commit[buffers'[a].cb] = buffers'[a].commit
  <2> SUFFICES ASSUME NEW a \in Buffers, buffers'[a].done = 0
               PROVE  pairs'.commit[buffers'[a].cb] = buffers'[a].commit
    OBVIOUS
  <2>1. a # b
    BY <1>2 DEF s
  <2> QED
    BY <1>5, <1>12, <2>1 DEF PairOK, CommitsOK
<1>16. \A i \in 1 .. m : \E a \in Buffers : a # b /\ buffers[a].done > 0
          /\ pairs.completed[i] = EntryFor(buffers[a], a) /\ pairs.completed[i].of = a
  <2> SUFFICES ASSUME NEW i \in 1 .. m
               PROVE  \E a \in Buffers : a # b /\ buffers[a].done > 0
                        /\ pairs.completed[i] = EntryFor(buffers[a], a)
                        /\ pairs.completed[i].of = a
    OBVIOUS
  <2>1. PICK a \in Buffers :
           buffers[a].done > 0 /\ pairs.completed[i] = EntryFor(buffers[a], a)
    BY <1>12 DEF PairOK, EntriesOK
  <2>2. pairs.completed[i].of = a
    BY <2>1 DEF EntryFor
  <2> QED
    BY <1>3, <2>1, <2>2 DEF r
<1>17. \A i \in 1 .. m + 1 : \E a \in Buffers :
          buffers'[a].done > 0 /\ pairs'.completed[i] = EntryFor(buffers'[a], a)
  <2> SUFFICES ASSUME NEW i \in 1 .. m + 1
               PROVE  \E a \in Buffers : /\ buffers'[a].done > 0
                                         /\ pairs'.completed[i] = EntryFor(buffers'[a], a)
    OBVIOUS
  <2>1. CASE i = m + 1
    BY <1>2, <1>11, <1>12, <2>1 DEF s
  <2>2. CASE i # m + 1
    <3>1. i \in 1 .. m
      BY <1>8, <2>2
    <3> QED
      BY <1>5, <1>12, <1>16, <3>1
  <2> QED
    BY <2>1, <2>2
<1>18. ASSUME NEW i \in 1 .. m + 1, NEW j \in 1 .. m + 1,
              pairs'.completed[i].of = pairs'.completed[j].of
       PROVE  i = j
  <2>1. \A k \in 1 .. m + 1 : k = m + 1 \/ k \in 1 .. m
    BY <1>8
  <2>2. \A k \in 1 .. m : pairs'.completed[k].of # b
    BY <1>12, <1>16
  <2>3. pairs'.completed[m + 1].of = b
    BY <1>12, <1>14
  <2>4. CASE i \in 1 .. m /\ j \in 1 .. m
    BY <1>12, <1>18, <2>4 DEF PairOK, EntriesApart
  <2> QED
    BY <1>18, <2>1, <2>2, <2>3, <2>4
<1>19. \A a \in Buffers : buffers'[a].done > 0 =>
          \E i \in 1 .. m + 1 : pairs'.completed[i].of = a
  <2> SUFFICES ASSUME NEW a \in Buffers, buffers'[a].done > 0
               PROVE  \E i \in 1 .. m + 1 : pairs'.completed[i].of = a
    OBVIOUS
  <2>1. CASE a = b
    <3>1. m + 1 \in 1 .. m + 1
      BY <1>8
    <3> QED
      BY <1>12, <1>14, <2>1, <3>1
  <2>2. CASE a # b
    <3>1. PICK i \in 1 .. m : pairs.completed[i].of = a
      BY <1>5, <1>12, <2>2 DEF PairOK, AllListed
    <3>2. i \in 1 .. m + 1
      BY <1>8
    <3> QED
      BY <1>12, <3>1, <3>2
  <2> QED
    BY <2>1, <2>2
<1>20. \A a \in Buffers : buffers'[a].stage = "completed" =>
          \E i \in 1 .. m + 1 :
             pairs'.last[buffers'[a].cb] = i /\ pairs'.completed[i].of = a
  <2> SUFFICES ASSUME NEW a \in Buffers, buffers'[a].stage = "completed"
               PROVE  \E i \in 1 .. m + 1 :
                         pairs'.last[buffers'[a].cb] = i /\ pairs'.completed[i].of = a
    OBVIOUS
  <2>1. CASE a = b
    <3>1. m + 1 \in 1 .. m + 1
      BY <1>8
    <3> QED
      BY <1>2, <1>12, <1>14, <2>1, <3>1 DEF s
  <2>2. CASE a # b
    <3>1. pairs'.last[buffers'[a].cb] = pairs.last[buffers[a].cb]
      BY <1>5, <1>12, <2>2
    <3>2. PICK i \in 1 .. m :
             pairs.last[buffers[a].cb] = i /\ pairs.completed[i].of = a
      BY <1>5, <1>12, <2>2 DEF PairOK, LastOK
    <3>3. i \in 1 .. m + 1
      BY <1>8
    <3> QED
      BY <1>12, <3>1, <3>2, <3>3
  <2> QED
    BY <2>1, <2>2
<1>21. CommitsOK' /\ EntriesOK'
  BY <1>2, <1>12, <1>15, <1>17 DEF CommitsOK, EntriesOK
<1>22. EntriesApart' /\ AllListed' /\ LastOK'
  BY <1>2, <1>12, <1>18, <1>19, <1>20 DEF EntriesApart, AllListed, LastOK
<1> QED
  BY <1>13, <1>21, <1>22 DEF PairOK

LEMMA PairReports ==
    ASSUME BuffersOK, PairTypeOK, PairOK, NEW b, NEW from, Advancing(b, from, "ops", TRUE)
    PROVE  PairTypeOK' /\ PairOK'
<1>1. Advanced(b, from, "ops", TRUE) /\ Send(b, "ops", buffers[b], TRUE)
  BY AdvanceIs DEF Advancing
<1> DEFINE r == buffers[b]
           s == buffers'[b]
           k == pairs.last[r.cb]
<1>2. /\ b \in Buffers /\ Buffers' = Buffers /\ r.stage = "completed" /\ s.stage = "ops"
      /\ s.cb = r.cb /\ s.commit = r.commit /\ s.done = r.done /\ s.got = r.got \cup {"ops"}
  BY <1>1 DEF Advanced
<1>3. r.done > 0 /\ b \in Int
  BY <1>2, BufferBounds DEF Done, BuffersOK, Buffers
<1>4. \A a \in Buffers : a # b => buffers'[a] = buffers[a]
  BY <1>1, OthersApart
<1>5. pairs.completed \in Seq(PairEntry) /\ k \in DOMAIN pairs.completed /\ pairs.completed[k].of = b
  BY <1>2 DEF PairOK, LastOK, PairTypeOK
<1>6. k # 0
  BY <1>5
<1> HIDE DEF s, k
<1>7. pairs' = [pairs EXCEPT !.completed[k].ops = b]
  BY <1>1, <1>6 DEF Send, Pair, PairOps, k
<1> HIDE DEF r
<1>8. /\ pairs'.commit = pairs.commit /\ pairs'.last = pairs.last
      /\ pairs'.completed = [pairs.completed EXCEPT ![k].ops = b]
      /\ DOMAIN pairs' = DOMAIN pairs
      /\ pairs' = [commit |-> pairs'.commit, completed |-> pairs'.completed, last |-> pairs'.last]
  BY <1>7 DEF PairTypeOK
<1>9. pairs.completed[k] \in PairEntry
  BY <1>5
<1> DEFINE e == [pairs.completed[k] EXCEPT !.ops = b]
<1>10. e \in PairEntry /\ e.of = b /\ e.commit = pairs.completed[k].commit /\ e.ops = b
  BY <1>3, <1>5, <1>9 DEF PairEntry
<1>11. pairs'.completed = [pairs.completed EXCEPT ![k] = e]
  BY <1>8
<1> HIDE DEF e
<1>12. /\ pairs'.completed \in Seq(PairEntry) /\ DOMAIN pairs'.completed = DOMAIN pairs.completed
       /\ pairs'.completed[k] = e
       /\ \A i \in DOMAIN pairs.completed : i # k => pairs'.completed[i] = pairs.completed[i]
  BY <1>5, <1>10, <1>11
<1>13. PairTypeOK'
  BY <1>8, <1>12 DEF PairTypeOK
<1>14. e = EntryFor(s, b)
  <2>1. PICK a \in Buffers : pairs.completed[k] = EntryFor(buffers[a], a)
    BY <1>5 DEF PairOK, EntriesOK
  <2>2. a = b /\ e.commit = r.commit
    BY <1>5, <1>10, <2>1 DEF EntryFor, r
  <2>3. e = [commit |-> e.commit, of |-> e.of, ops |-> e.ops]
    BY <1>10 DEF PairEntry
  <2> QED
    BY <1>2, <1>10, <2>2, <2>3 DEF EntryFor
<1>15. \A i \in DOMAIN pairs.completed : pairs'.completed[i].of = pairs.completed[i].of
  BY <1>5, <1>10, <1>12
<1>16. \A i \in DOMAIN pairs.completed : \E a \in Buffers :
          buffers'[a].done > 0 /\ pairs'.completed[i] = EntryFor(buffers'[a], a)
  <2> SUFFICES ASSUME NEW i \in DOMAIN pairs.completed
               PROVE  \E a \in Buffers : /\ buffers'[a].done > 0
                                         /\ pairs'.completed[i] = EntryFor(buffers'[a], a)
    OBVIOUS
  <2>1. CASE i = k
    BY <1>2, <1>3, <1>12, <1>14, <2>1 DEF s
  <2>2. CASE i # k
    <3>1. PICK a \in Buffers :
             buffers[a].done > 0 /\ pairs.completed[i] = EntryFor(buffers[a], a)
      BY DEF PairOK, EntriesOK
    <3>2. a # b
      <4>1. pairs.completed[i].of = a
        BY <3>1 DEF EntryFor
      <4> QED
        BY <1>5, <2>2, <4>1 DEF PairOK, EntriesApart
    <3> QED
      BY <1>4, <1>12, <2>2, <3>1, <3>2
  <2> QED
    BY <2>1, <2>2
<1>17. \A a \in Buffers : /\ buffers'[a].cb = buffers[a].cb
                          /\ buffers'[a].commit = buffers[a].commit
                          /\ buffers'[a].done = buffers[a].done
                          /\ buffers'[a].stage = "completed" => buffers[a].stage = "completed"
  BY <1>2, <1>4 DEF r, s
<1>18. CommitsOK'
  BY <1>2, <1>8, <1>17 DEF PairOK, CommitsOK
<1>19. EntriesOK'
  BY <1>2, <1>12, <1>16 DEF EntriesOK
<1>20. EntriesApart'
  <2>1. ASSUME NEW i \in DOMAIN pairs.completed, NEW j \in DOMAIN pairs.completed,
               pairs'.completed[i].of = pairs'.completed[j].of
        PROVE  i = j
    <3>1. pairs.completed[i].of = pairs.completed[j].of
      BY <1>15, <2>1
    <3> QED
      BY <3>1 DEF PairOK, EntriesApart
  <2> QED
    BY <1>12, <2>1 DEF EntriesApart
<1>21. AllListed'
  BY <1>2, <1>12, <1>15, <1>17 DEF PairOK, AllListed
<1>22. LastOK'
  BY <1>2, <1>8, <1>12, <1>15, <1>17 DEF PairOK, LastOK
<1> QED
  BY <1>13, <1>18, <1>19, <1>20, <1>21, <1>22 DEF PairOK

LEMMA PairStep ==
    ASSUME BuffersOK, BuffersOK', PairTypeOK, PairOK, [BufferNext]_bufferVars, lostFrames' = 0
    PROVE  PairTypeOK' /\ PairOK'
<1>1. ASSUME NEW b, NEW from, Advancing(b, from, "scheduled", TRUE)
      PROVE  PairTypeOK' /\ PairOK'
  <2>1. Advanced(b, from, "scheduled", TRUE) /\ Send(b, "scheduled", buffers[b], TRUE)
    BY <1>1, AdvanceIs DEF Advancing
  <2>2. pairs' = pairs
    BY <2>1 DEF Send, Pair
  <2> QED
    BY <2>1, <2>2, PairRests DEF Advanced
<1>2. ASSUME NEW b, NEW from, NEW to, Advancing(b, from, to, TRUE)
      PROVE  to \in {"scheduled", "completed", "ops"}
  BY <1>2 DEF Advancing
<1>3. ASSUME NEW b, Releasing(b)
      PROVE  PairTypeOK' /\ PairOK'
  <2>1. /\ b \in Buffers /\ Buffers' = Buffers /\ pairs' = pairs
        /\ \A a \in Buffers : a # b => buffers'[a] = buffers[a]
        /\ buffers'[b].cb = buffers[b].cb /\ buffers'[b].commit = buffers[b].commit
        /\ buffers'[b].done = buffers[b].done /\ buffers'[b].got = buffers[b].got
        /\ buffers'[b].stage = "free"
    BY <1>3, ReleaseIs
  <2> QED
    BY <2>1, PairRests
<1>4. ASSUME UNCHANGED bufferVars
      PROVE  PairTypeOK' /\ PairOK'
  BY <1>4, PairRests DEF bufferVars, Buffers
<1>5. ASSUME NEW p, NEW q, NEW ops, Committing(p, q, ops, TRUE)
      PROVE  PairTypeOK' /\ PairOK'
  BY <1>5, PairCommits
<1>6. ASSUME NEW b, NEW from, NEW to, Advancing(b, from, to, TRUE)
      PROVE  PairTypeOK' /\ PairOK'
  <2>1. CASE to = "scheduled"
    BY <1>1, <1>6, <2>1
  <2>2. CASE to = "completed"
    BY <1>6, <2>2, PairCompletes
  <2>3. CASE to = "ops"
    BY <1>6, <2>3, PairReports
  <2> QED
    BY <1>2, <1>6, <2>1, <2>2, <2>3
<1> QED
  BY <1>3, <1>4, <1>5, <1>6, HeardSteps

LEMMA PairsHold ==
    ASSUME BuffersOK, PairTypeOK, PairOK
    PROVE  PairsAreTrue /\ PairingIsExact
<1> DEFINE m == Len(pairs.completed)
           D == {b \in Buffers : Done(b)}
<1>1. m \in Nat /\ DOMAIN pairs.completed = 1 .. m
  BY DEF PairTypeOK
<1>2. \A b \in Buffers : Done(b) <=> buffers[b].done > 0
  BY DEF Done
<1> HIDE DEF m
<1>3. ASSUME NEW i \in 1 .. m
      PROVE  pairs.completed[i].of \in D
             /\ pairs.completed[i] = EntryFor(buffers[pairs.completed[i].of], pairs.completed[i].of)
  <2>1. PICK a \in Buffers :
           buffers[a].done > 0 /\ pairs.completed[i] = EntryFor(buffers[a], a)
    BY <1>1 DEF PairOK, EntriesOK
  <2>2. pairs.completed[i].of = a
    BY <2>1 DEF EntryFor
  <2> QED
    BY <1>2, <2>1, <2>2
<1>4. ASSUME NEW b \in D
      PROVE  \E i \in 1 .. m : pairs.completed[i].of = b
  BY <1>1, <1>2 DEF PairOK, AllListed
<1>5. {pairs.completed[i] : i \in DOMAIN pairs.completed} = {EntryFor(buffers[b], b) : b \in D}
  <2>1. ASSUME NEW i \in 1 .. m
        PROVE  pairs.completed[i] \in {EntryFor(buffers[b], b) : b \in D}
    BY <1>3
  <2>2. ASSUME NEW b \in D
        PROVE  \E i \in 1 .. m : pairs.completed[i] = EntryFor(buffers[b], b)
    <3>1. PICK i \in 1 .. m : pairs.completed[i].of = b
      BY <1>4
    <3>2. pairs.completed[i] = EntryFor(buffers[pairs.completed[i].of], pairs.completed[i].of)
      BY <1>3
    <3> QED
      BY <3>1, <3>2
  <2> QED
    BY <1>1, <2>1, <2>2
<1>6. m = Cardinality(D)
  <2> DEFINE f == [i \in 1 .. m |-> pairs.completed[i].of]
  <2>1. f \in [1 .. m -> D]
    BY <1>3
  <2>2. \A i, j \in 1 .. m : f[i] = f[j] => i = j
    BY <1>1 DEF PairOK, EntriesApart
  <2>3. \A b \in D : \E i \in 1 .. m : f[i] = b
    BY <1>4
  <2> HIDE DEF f, D
  <2>4. f \in Bijection(1 .. m, D)
    BY <2>1, <2>2, <2>3 DEF Bijection, Injection, Surjection, IsInjective
  <2>5. ExistsBijection(1 .. m, D)
    BY <2>4 DEF ExistsBijection
  <2> QED
    BY <1>1, <2>5, FS_CountingElements
<1>7. PairingIsExact
  <2>1. ASSUME NEW i \in 1 .. m
        PROVE  pairs.completed[i].ops \in {None, pairs.completed[i].of}
    <3>1. PICK b : b = pairs.completed[i].of
      OBVIOUS
    <3>2. pairs.completed[i] = EntryFor(buffers[b], b)
      BY <1>3, <3>1
    <3>3. pairs.completed[i].ops \in {None, b}
      BY <3>2 DEF EntryFor
    <3> QED
      BY <3>1, <3>3
  <2> QED
    BY <1>1, <2>1 DEF PairingIsExact
<1>8. PairsAreTrue
  BY <1>5, <1>6 DEF PairsAreTrue, EntryFor, m
<1> QED
  BY <1>7, <1>8

-----------------------------------------------------------------------------
(* What the trace holds when every frame was heard.                        *)

TraceSpans == [start : Int, end : Int, of : Int]
Commands == [commit : Int, sched : Int]
TraceTypeOK ==
    trace \in [open : [Pointers -> Commands], awaiting : [Pointers -> TraceSpans],
               pending : [Pointers -> {<<>>}], busy : [Queues -> Int],
               slices : SUBSET [queue : Queues, window : TraceSpans],
               drawn : SUBSET [window : TraceSpans, ops : Seq(Int)]]

\* The window of a completed buffer that took the time w.
Span(r, b, w) == [start |-> r.done - w, end |-> r.done, of |-> b]
SliceOf(r, b, w) == [queue |-> r.queue, window |-> Span(r, b, w)]
KernelsOf(r, b, w) == [window |-> Span(r, b, w), ops |-> <<b>>]

OpenOK ==
    \A b \in Buffers : buffers[b].done = 0 =>
       trace.open[buffers[b].cb] =
          [commit |-> buffers[b].commit,
           sched |-> IF buffers[b].sched = 0 THEN None ELSE buffers[b].sched]
BusyOK == \A q \in Queues : trace.busy[q] = clamp.done[q]
AwaitingOK ==
    \A b \in Buffers : buffers[b].stage = "completed" =>
       trace.awaiting[buffers[b].cb] = Span(buffers[b], b, OwnWindow(b))
SlicesOK ==
    \A s : s \in trace.slices <=>
       \E b \in Buffers : buffers[b].done > 0 /\ s = SliceOf(buffers[b], b, OwnWindow(b))
DrawnOK ==
    \A d : d \in trace.drawn <=>
       \E b \in Buffers : "ops" \in buffers[b].got /\ d = KernelsOf(buffers[b], b, OwnWindow(b))

TraceOK == OpenOK /\ BusyOK /\ AwaitingOK /\ SlicesOK /\ DrawnOK

LEMMA TraceStart ==
    ASSUME BufferInit
    PROVE  TraceTypeOK /\ TraceOK
<1>1. buffers = <<>> /\ trace = TraceInit /\ clamp = ClampInit
  BY DEF BufferInit
<1>2. NoCb \in Commands /\ NoWindow \in TraceSpans /\ None \in Int
  BY DEF NoCb, NoWindow, Commands, TraceSpans, None
<1>3. /\ trace.open = [p \in Pointers |-> NoCb] /\ trace.awaiting = [p \in Pointers |-> NoWindow]
      /\ trace.pending = [p \in Pointers |-> <<>>] /\ trace.busy = [q \in Queues |-> 0]
      /\ trace.slices = {} /\ trace.drawn = {} /\ TraceTypeOK
  BY <1>1, <1>2 DEF TraceInit, TraceTypeOK
<1>4. Buffers = {} /\ clamp.done = [q \in Queues |-> 0]
  BY <1>1 DEF Buffers, ClampInit
<1> QED
  BY <1>3, <1>4 DEF TraceOK, OpenOK, BusyOK, AwaitingOK, SlicesOK, DrawnOK

\* The trace's fields, as a record.
LEMMA TraceFields ==
    ASSUME TraceTypeOK
    PROVE  /\ trace.open \in [Pointers -> Commands] /\ trace.awaiting \in [Pointers -> TraceSpans]
           /\ trace.pending \in [Pointers -> {<<>>}] /\ trace.busy \in [Queues -> Int]
           /\ trace.slices \in SUBSET [queue : Queues, window : TraceSpans]
           /\ trace.drawn \in SUBSET [window : TraceSpans, ops : Seq(Int)]
           /\ trace = [open |-> trace.open, awaiting |-> trace.awaiting,
                       pending |-> trace.pending, busy |-> trace.busy,
                       slices |-> trace.slices, drawn |-> trace.drawn]
BY DEF TraceTypeOK

\* What is known of the completed buffers stays so.
LEMMA SpansLast ==
    ASSUME BuffersOK, BuffersOK', [BufferNext]_bufferVars, NEW b \in Buffers, buffers[b].done > 0
    PROVE  /\ b \in Buffers' /\ OwnWindow(b)' = OwnWindow(b)
           /\ Span(buffers'[b], b, OwnWindow(b)') = Span(buffers[b], b, OwnWindow(b))
           /\ SliceOf(buffers'[b], b, OwnWindow(b)') = SliceOf(buffers[b], b, OwnWindow(b))
           /\ KernelsOf(buffers'[b], b, OwnWindow(b)') = KernelsOf(buffers[b], b, OwnWindow(b))
<1>1. Done(b) /\ Kept(b)
  BY BuffersAreKept DEF Done
<1>2. OwnWindow(b)' = OwnWindow(b)
  BY <1>1, OwnWindowLasts
<1>3. /\ b \in Buffers' /\ buffers'[b].done = buffers[b].done
      /\ buffers'[b].queue = buffers[b].queue
  BY <1>1 DEF Kept
<1> QED
  BY <1>2, <1>3 DEF Span, SliceOf, KernelsOf

LEMMA TraceCommits ==
    ASSUME BuffersOK, BuffersOK', [BufferNext]_bufferVars, TraceTypeOK, TraceOK,
           NEW p, NEW q, NEW ops, Committing(p, q, ops, TRUE)
    PROVE  TraceTypeOK' /\ TraceOK'
<1> DEFINE n == Len(buffers) + 1
           r == Fresh(p, q, ops, TRUE)
           e == [commit |-> sent + 1, sched |-> None]
<1>1. Added(p, n, r) /\ p \in Pointers /\ sent \in Nat /\ Send(n, "committed", r, TRUE)
  BY CommitAdds DEF Committing, BuffersOK
<1> HIDE DEF n, r
<1>2. /\ Buffers' = Buffers \cup {n} /\ n \notin Buffers /\ buffers'[n] = r
      /\ \A a \in Buffers : buffers'[a] = buffers[a]
      /\ r.cb = p /\ r.done = 0 /\ r.stage = "committed" /\ r.commit = sent + 1 /\ r.sched = 0
      /\ r.got \subseteq {"committed"}
      /\ clamp' = clamp
  BY <1>1 DEF Added
<1>3. trace' = [trace EXCEPT !.open[p] = e]
  BY <1>1, <1>2 DEF Send, Trace
<1>4. e \in Commands
  BY <1>1 DEF Commands, None
<1> HIDE DEF e
<1>5. /\ trace'.open = [trace.open EXCEPT ![p] = e] /\ trace'.awaiting = trace.awaiting
      /\ trace'.busy = trace.busy /\ trace'.slices = trace.slices /\ trace'.drawn = trace.drawn
      /\ TraceTypeOK'
  BY <1>1, <1>3, <1>4 DEF TraceTypeOK
<1>6. \A b \in Buffers : buffers[b].cb \in Pointers /\ (buffers[b].cb = p => buffers[b].done > 0)
  BY <1>1, BufferBounds, LifeFields DEF Added, Done
<1>7. trace.open \in [Pointers -> Commands]
  BY TraceFields
<1>8. OpenOK'
  <2> SUFFICES ASSUME NEW b \in Buffers', buffers'[b].done = 0
               PROVE  trace'.open[buffers'[b].cb] =
                        [commit |-> buffers'[b].commit,
                         sched |-> IF buffers'[b].sched = 0 THEN None ELSE buffers'[b].sched]
    BY DEF OpenOK
  <2>1. CASE b = n
    BY <1>1, <1>2, <1>5, <1>7, <2>1 DEF e
  <2>2. CASE b \in Buffers
    <3>1. buffers[b].cb # p /\ buffers[b].cb \in Pointers /\ buffers'[b] = buffers[b]
      BY <1>2, <1>6, <2>2
    <3> QED
      BY <1>5, <1>7, <2>2, <3>1 DEF TraceOK, OpenOK
  <2> QED
    BY <1>2, <2>1, <2>2
<1>9. BusyOK'
  BY <1>2, <1>5 DEF TraceOK, BusyOK
<1>10. \A b \in Buffers' : buffers'[b].done > 0 => b \in Buffers /\ buffers[b].done > 0
  BY <1>2
<1>11. \A b \in Buffers : buffers[b].done > 0 => buffers'[b].done > 0
  BY <1>2
<1>12. \A b \in Buffers : buffers[b].stage = "completed" => buffers[b].done > 0
  BY BufferBounds DEF Done
<1>13. AwaitingOK'
  <2> SUFFICES ASSUME NEW b \in Buffers', buffers'[b].stage = "completed"
               PROVE  trace'.awaiting[buffers'[b].cb] = Span(buffers'[b], b, OwnWindow(b)')
    BY DEF AwaitingOK
  <2>1. b \in Buffers /\ buffers'[b] = buffers[b] /\ buffers[b].done > 0
    BY <1>2, <1>12
  <2>2. Span(buffers'[b], b, OwnWindow(b)') = Span(buffers[b], b, OwnWindow(b))
    BY <2>1, SpansLast
  <2> QED
    BY <1>5, <2>1, <2>2 DEF TraceOK, AwaitingOK
<1>14. SlicesOK'
  <2> SUFFICES ASSUME NEW x
               PROVE  x \in trace'.slices <=> \E b \in Buffers' :
                        buffers'[b].done > 0 /\ x = SliceOf(buffers'[b], b, OwnWindow(b)')
    BY DEF SlicesOK
  <2>1. x \in trace'.slices <=> \E b \in Buffers :
                        buffers[b].done > 0 /\ x = SliceOf(buffers[b], b, OwnWindow(b))
    BY <1>5 DEF TraceOK, SlicesOK
  <2> QED
    BY <1>2, <1>10, <1>11, <2>1, SpansLast
<1>15. DrawnOK'
  <2> SUFFICES ASSUME NEW x
               PROVE  x \in trace'.drawn <=> \E b \in Buffers' :
                        "ops" \in buffers'[b].got /\ x = KernelsOf(buffers'[b], b, OwnWindow(b)')
    BY DEF DrawnOK
  <2>1. x \in trace'.drawn <=> \E b \in Buffers :
                        "ops" \in buffers[b].got /\ x = KernelsOf(buffers[b], b, OwnWindow(b))
    BY <1>5 DEF TraceOK, DrawnOK
  <2>2. \A b \in Buffers' : "ops" \in buffers'[b].got <=> b \in Buffers /\ "ops" \in buffers[b].got
    BY <1>2
  <2>3. \A b \in Buffers : "ops" \in buffers[b].got => buffers[b].done > 0
    BY BufferBounds, LifeBounds
  <2> QED
    BY <1>2, <2>1, <2>2, <2>3, SpansLast
<1> QED
  BY <1>5, <1>8, <1>9, <1>13, <1>14, <1>15 DEF TraceOK

\* The slices, when no buffer completes, and the kernels, when none reports.
LEMMA SlicesLast ==
    ASSUME BuffersOK, BuffersOK', [BufferNext]_bufferVars, SlicesOK,
           trace'.slices = trace.slices, Buffers' = Buffers,
           \A b \in Buffers : buffers'[b].done > 0 <=> buffers[b].done > 0
    PROVE  SlicesOK'
<1> SUFFICES ASSUME NEW x
             PROVE  x \in trace'.slices <=> \E b \in Buffers :
                      buffers'[b].done > 0 /\ x = SliceOf(buffers'[b], b, OwnWindow(b)')
  BY DEF SlicesOK
<1>1. x \in trace'.slices <=> \E b \in Buffers :
                      buffers[b].done > 0 /\ x = SliceOf(buffers[b], b, OwnWindow(b))
  BY DEF SlicesOK
<1>2. \A b \in Buffers : buffers[b].done > 0 =>
         SliceOf(buffers'[b], b, OwnWindow(b)') = SliceOf(buffers[b], b, OwnWindow(b))
  BY SpansLast
<1> QED
  BY <1>1, <1>2

LEMMA ReportedIsDone ==
    ASSUME BuffersOK, NEW b \in Buffers, "ops" \in buffers[b].got
    PROVE  buffers[b].done > 0
BY BufferBounds, LifeBounds

LEMMA DrawnLasts ==
    ASSUME BuffersOK, BuffersOK', [BufferNext]_bufferVars, DrawnOK,
           trace'.drawn = trace.drawn, Buffers' = Buffers,
           \A b \in Buffers : "ops" \in buffers'[b].got <=> "ops" \in buffers[b].got
    PROVE  DrawnOK'
<1> SUFFICES ASSUME NEW x
             PROVE  x \in trace'.drawn <=> \E b \in Buffers :
                      "ops" \in buffers'[b].got /\ x = KernelsOf(buffers'[b], b, OwnWindow(b)')
  BY DEF DrawnOK
<1>1. x \in trace'.drawn <=> \E b \in Buffers :
                      "ops" \in buffers[b].got /\ x = KernelsOf(buffers[b], b, OwnWindow(b))
  BY DEF DrawnOK
<1>2. \A b \in Buffers : "ops" \in buffers[b].got =>
         KernelsOf(buffers'[b], b, OwnWindow(b)') = KernelsOf(buffers[b], b, OwnWindow(b))
  BY ReportedIsDone, SpansLast
<1> QED
  BY <1>1, <1>2

\* The windows awaiting kernels, of the buffers the step is not about.
LEMMA OthersAwait ==
    ASSUME BuffersOK, BuffersOK', [BufferNext]_bufferVars, AwaitingOK,
           NEW a \in Buffers, buffers'[a] = buffers[a], buffers[a].stage = "completed",
           trace'.awaiting[buffers[a].cb] = trace.awaiting[buffers[a].cb]
    PROVE  trace'.awaiting[buffers'[a].cb] = Span(buffers'[a], a, OwnWindow(a)')
<1>1. buffers[a].done > 0
  BY BufferBounds DEF Done
<1>2. Span(buffers'[a], a, OwnWindow(a)') = Span(buffers[a], a, OwnWindow(a))
  BY <1>1, SpansLast
<1> QED
  BY <1>2 DEF AwaitingOK

LEMMA TraceSchedules ==
    ASSUME BuffersOK, BuffersOK', [BufferNext]_bufferVars, ClampTypeOK, TraceTypeOK, TraceOK,
           NEW b, NEW from, Advancing(b, from, "scheduled", TRUE)
    PROVE  TraceTypeOK' /\ TraceOK'
<1> DEFINE r == buffers[b]
           s == buffers'[b]
           e == [commit |-> r.commit, sched |-> sent + 1]
<1>1. /\ Advanced(b, from, "scheduled", TRUE) /\ Send(b, "scheduled", buffers[b], TRUE)
      /\ ClampMoves("scheduled", buffers[b], TRUE)
  BY AdvanceIs, AdvanceClamps DEF Advancing
<1>2. /\ b \in Buffers /\ Buffers' = Buffers /\ r.cb \in Pointers /\ sent \in Nat
      /\ r \in Lives /\ LifeOK(r, sent) /\ r.stage = "committed" /\ s.stage = "scheduled"
      /\ s.cb = r.cb /\ s.commit = r.commit /\ s.done = r.done /\ s.sched = sent + 1
      /\ s.got = r.got \cup {"scheduled"}
  BY <1>1 DEF Advanced
<1>3. r.commit \in 1 .. sent /\ r.done = 0 /\ r.sched = 0
  <2>1. /\ r.done \in 0 .. sent /\ (r.done > 0 <=> r.stage \in {"completed", "ops", "free"})
        /\ r.commit \in 1 .. sent /\ (r.sched = 0 <=> r.stage = "committed")
    BY <1>2, LifeBounds
  <2> QED
    BY <1>2, <2>1
<1>4. \A a \in Buffers : a # b =>
             /\ buffers'[a] = buffers[a] /\ buffers[a].cb \in Pointers
             /\ buffers[a].done = 0 \/ buffers[a].stage = "completed" => buffers[a].cb # r.cb
  BY <1>1, OthersApart
<1>5. trace.open[r.cb] = [commit |-> r.commit, sched |-> None]
  BY <1>2, <1>3 DEF TraceOK, OpenOK
<1>6. trace.open \in [Pointers -> Commands]
  BY TraceFields
<1>7. trace' = [trace EXCEPT !.open[r.cb].sched = sent + 1]
  <2>1. trace.open[r.cb].commit # None
    BY <1>3, <1>5 DEF None
  <2> QED
    BY <1>1, <2>1 DEF Send, Trace
<1>8. e \in Commands
  BY <1>2, <1>3 DEF Commands
<1>9. [trace.open[r.cb] EXCEPT !.sched = sent + 1] = e
  BY <1>5
<1> HIDE DEF r, s, e
<1>10. /\ trace'.open = [trace.open EXCEPT ![r.cb] = e] /\ trace'.awaiting = trace.awaiting
       /\ trace'.busy = trace.busy /\ trace'.slices = trace.slices /\ trace'.drawn = trace.drawn
       /\ TraceTypeOK'
  <2>1. trace' = [trace EXCEPT !.open = [trace.open EXCEPT ![r.cb] = e]]
    BY <1>7, <1>9 DEF TraceTypeOK
  <2>2. [trace.open EXCEPT ![r.cb] = e] \in [Pointers -> Commands]
    BY <1>6, <1>8
  <2> QED
    BY <2>1, <2>2 DEF TraceTypeOK
<1>11. OpenOK'
  <2> SUFFICES ASSUME NEW a \in Buffers, buffers'[a].done = 0
               PROVE  trace'.open[buffers'[a].cb] =
                        [commit |-> buffers'[a].commit,
                         sched |-> IF buffers'[a].sched = 0 THEN None ELSE buffers'[a].sched]
    BY <1>2 DEF OpenOK
  <2>1. CASE a = b
    <3>1. s.sched # 0
      BY <1>2
    <3> QED
      BY <1>2, <1>6, <1>10, <2>1, <3>1 DEF e, s
  <2>2. CASE a # b
    BY <1>2, <1>4, <1>6, <1>10, <2>2 DEF TraceOK, OpenOK
  <2> QED
    BY <2>1, <2>2
<1>12. BusyOK'
  <2>1. \A q \in Queues : clamp'.done[q] = clamp.done[q]
    BY <1>1 DEF ClampMoves
  <2> QED
    BY <1>10, <2>1 DEF TraceOK, BusyOK
<1>13. AwaitingOK'
  <2> SUFFICES ASSUME NEW a \in Buffers, buffers'[a].stage = "completed"
               PROVE  trace'.awaiting[buffers'[a].cb] = Span(buffers'[a], a, OwnWindow(a)')
    BY <1>2 DEF AwaitingOK
  <2>1. a # b /\ buffers'[a] = buffers[a] /\ buffers[a].stage = "completed"
    BY <1>2, <1>4 DEF s
  <2>2. AwaitingOK /\ trace'.awaiting[buffers[a].cb] = trace.awaiting[buffers[a].cb]
    BY <1>10 DEF TraceOK
  <2> QED
    BY <2>1, <2>2, OthersAwait
<1>14. SlicesOK' /\ DrawnOK'
  <2>1. \A a \in Buffers : /\ buffers'[a].done > 0 <=> buffers[a].done > 0
                           /\ "ops" \in buffers'[a].got <=> "ops" \in buffers[a].got
    BY <1>2, <1>4 DEF r, s
  <2> QED
    BY <1>2, <1>10, <2>1, SlicesLast, DrawnLasts DEF TraceOK
<1> QED
  BY <1>10, <1>11, <1>12, <1>13, <1>14 DEF TraceOK

LEMMA TraceReports ==
    ASSUME BuffersOK, BuffersOK', [BufferNext]_bufferVars, ClampTypeOK, TraceTypeOK, TraceOK,
           NEW b, NEW from, Advancing(b, from, "ops", TRUE)
    PROVE  TraceTypeOK' /\ TraceOK'
<1> DEFINE r == buffers[b]
           s == buffers'[b]
           d == KernelsOf(r, b, OwnWindow(b))
<1>1. /\ Advanced(b, from, "ops", TRUE) /\ Send(b, "ops", buffers[b], TRUE)
      /\ ClampMoves("ops", buffers[b], TRUE)
  BY AdvanceIs, AdvanceClamps DEF Advancing
<1>2. /\ b \in Buffers /\ Buffers' = Buffers /\ r.cb \in Pointers /\ sent \in Nat
      /\ r.stage = "completed" /\ s.stage = "ops"
      /\ s.cb = r.cb /\ s.commit = r.commit /\ s.done = r.done /\ s.sched = r.sched
      /\ s.got = r.got \cup {"ops"}
  BY <1>1 DEF Advanced
<1>3. r.done \in Nat /\ r.done > 0 /\ OwnWindow(b) \in Nat /\ b \in Int
  <2>1. Done(b) /\ r.done \in 0 .. sent /\ b \in Int
    BY <1>2, BufferBounds DEF BuffersOK, Buffers
  <2> QED
    BY <1>2, <2>1, OwnWindowBounds DEF Done
<1>4. \A a \in Buffers : a # b =>
             /\ buffers'[a] = buffers[a] /\ buffers[a].cb \in Pointers
             /\ buffers[a].done = 0 \/ buffers[a].stage = "completed" => buffers[a].cb # r.cb
  BY <1>1, OthersApart
<1>5. trace.awaiting[r.cb] = Span(r, b, OwnWindow(b))
  BY <1>2 DEF TraceOK, AwaitingOK
<1>6. /\ trace.awaiting \in [Pointers -> TraceSpans] /\ NoWindow \in TraceSpans
      /\ trace.drawn \in SUBSET [window : TraceSpans, ops : Seq(Int)]
  BY TraceFields DEF NoWindow, None, TraceSpans
<1>7. trace.awaiting[r.cb] # NoWindow
  <2>1. Span(r, b, OwnWindow(b)).end = r.done /\ NoWindow.end = -1
    BY DEF Span, NoWindow, None
  <2> HIDE DEF r
  <2> QED
    BY <1>3, <1>5, <2>1
<1>8. d \in [window : TraceSpans, ops : Seq(Int)]
  <2>1. Span(r, b, OwnWindow(b)) \in TraceSpans
    BY <1>3 DEF Span, TraceSpans
  <2>2. <<b>> \in Seq(Int)
    BY <1>3
  <2> QED
    BY <2>1, <2>2 DEF KernelsOf
<1>9. trace' = [trace EXCEPT !.awaiting[r.cb] = NoWindow, !.drawn = @ \cup {d}]
  BY <1>1, <1>5, <1>7 DEF Send, Trace, TraceOps, KernelsOf
<1> HIDE DEF r, s, d
<1>10. /\ trace'.awaiting = [trace.awaiting EXCEPT ![r.cb] = NoWindow]
       /\ trace'.drawn = trace.drawn \cup {d} /\ trace'.open = trace.open
       /\ trace'.busy = trace.busy /\ trace'.slices = trace.slices /\ TraceTypeOK'
  <2> DEFINE awaiting == [trace.awaiting EXCEPT ![r.cb] = NoWindow]
             drawn == trace.drawn \cup {d}
  <2>1. /\ awaiting \in [Pointers -> TraceSpans]
        /\ drawn \in SUBSET [window : TraceSpans, ops : Seq(Int)]
    BY <1>6, <1>8
  <2>2. trace' = [trace EXCEPT !.awaiting = awaiting, !.drawn = drawn]
    BY <1>9 DEF TraceTypeOK
  <2> HIDE DEF awaiting, drawn
  <2>3. /\ trace'.awaiting = awaiting /\ trace'.drawn = drawn /\ trace'.open = trace.open
        /\ trace'.busy = trace.busy /\ trace'.slices = trace.slices /\ TraceTypeOK'
    BY <2>1, <2>2 DEF TraceTypeOK
  <2> QED
    BY <2>3 DEF awaiting, drawn
<1>11. OpenOK'
  <2>1. \A a \in Buffers : /\ buffers'[a].cb = buffers[a].cb
                           /\ buffers'[a].commit = buffers[a].commit
                           /\ buffers'[a].done = buffers[a].done
                           /\ buffers'[a].sched = buffers[a].sched
    BY <1>2, <1>4 DEF r, s
  <2> QED
    BY <1>2, <1>10, <2>1 DEF TraceOK, OpenOK
<1>12. BusyOK'
  <2>1. \A q \in Queues : clamp'.done[q] = clamp.done[q]
    BY <1>1 DEF ClampMoves
  <2> QED
    BY <1>10, <2>1 DEF TraceOK, BusyOK
<1>13. AwaitingOK'
  <2> SUFFICES ASSUME NEW a \in Buffers, buffers'[a].stage = "completed"
               PROVE  trace'.awaiting[buffers'[a].cb] = Span(buffers'[a], a, OwnWindow(a)')
    BY <1>2 DEF AwaitingOK
  <2>1. a # b /\ buffers'[a] = buffers[a] /\ buffers[a].stage = "completed"
    BY <1>2, <1>4 DEF s
  <2>2. AwaitingOK /\ trace'.awaiting[buffers[a].cb] = trace.awaiting[buffers[a].cb]
    BY <1>2, <1>4, <1>6, <1>10, <2>1 DEF TraceOK
  <2> QED
    BY <2>1, <2>2, OthersAwait
<1>14. SlicesOK'
  <2>1. \A a \in Buffers : buffers'[a].done > 0 <=> buffers[a].done > 0
    BY <1>2, <1>4 DEF r, s
  <2> QED
    BY <1>2, <1>10, <2>1, SlicesLast DEF TraceOK
<1>15. DrawnOK'
  <2> SUFFICES ASSUME NEW x
               PROVE  x \in trace'.drawn <=> \E a \in Buffers :
                        "ops" \in buffers'[a].got /\ x = KernelsOf(buffers'[a], a, OwnWindow(a)')
    BY <1>2 DEF DrawnOK
  <2>1. x \in trace.drawn <=> \E a \in Buffers :
                      "ops" \in buffers[a].got /\ x = KernelsOf(buffers[a], a, OwnWindow(a))
    BY DEF TraceOK, DrawnOK
  <2>2. KernelsOf(buffers'[b], b, OwnWindow(b)') = d
    BY <1>2, <1>3, SpansLast DEF d, r
  <2>3. \A a \in Buffers : "ops" \in buffers[a].got =>
           KernelsOf(buffers'[a], a, OwnWindow(a)') = KernelsOf(buffers[a], a, OwnWindow(a))
    BY ReportedIsDone, SpansLast
  <2>4. "ops" \in buffers'[b].got /\ \A a \in Buffers : a # b =>
           ("ops" \in buffers'[a].got <=> "ops" \in buffers[a].got)
    BY <1>2, <1>4 DEF s
  <2>5. ASSUME x \in trace'.drawn
        PROVE  \E a \in Buffers :
                 "ops" \in buffers'[a].got /\ x = KernelsOf(buffers'[a], a, OwnWindow(a)')
    <3>1. CASE x = d
      BY <1>2, <2>2, <2>4, <3>1
    <3>2. CASE x \in trace.drawn
      <4>1. PICK a \in Buffers :
               "ops" \in buffers[a].got /\ x = KernelsOf(buffers[a], a, OwnWindow(a))
        BY <2>1, <3>2
      <4>2. "ops" \in buffers'[a].got /\ x = KernelsOf(buffers'[a], a, OwnWindow(a)')
        BY <2>3, <2>4, <4>1
      <4> QED
        BY <4>2
    <3> QED
      BY <1>10, <2>5, <3>1, <3>2
  <2>6. ASSUME NEW a \in Buffers, "ops" \in buffers'[a].got,
               x = KernelsOf(buffers'[a], a, OwnWindow(a)')
        PROVE  x \in trace'.drawn
    <3>1. CASE a = b
      BY <1>10, <2>2, <2>6, <3>1
    <3>2. CASE a # b
      BY <1>10, <2>1, <2>3, <2>4, <2>6, <3>2
    <3> QED
      BY <3>1, <3>2
  <2> QED
    BY <2>5, <2>6
<1> QED
  BY <1>10, <1>11, <1>12, <1>13, <1>14, <1>15 DEF TraceOK

\* A completion, when every frame was heard, ends a time that began at the
\* scheduling or at the queue's last completion.
LEMMA CompletionSpan ==
    ASSUME BuffersOK, BuffersOK', LossOK, ClampTypeOK, LastDone, SchedOK, lostFrames = 0,
           NEW b, NEW from, Advancing(b, from, "completed", TRUE)
    PROVE  LET m == Later(buffers[b].sched, clamp.done[buffers[b].queue])
           IN  /\ m \in 0 .. sent /\ buffers[b].sched \in 1 .. sent
               /\ buffers[b].commit \in 1 .. sent /\ buffers[b].commit < buffers[b].sched
               /\ clamp.done[buffers[b].queue] \in 0 .. sent
               /\ OwnWindow(b)' = (sent + 1) - m
<1> DEFINE r == buffers[b]
           q == r.queue
           d == clamp.done[q]
           m == Later(r.sched, d)
<1>1. Advanced(b, from, "completed", TRUE) /\ ClampMoves("completed", r, TRUE)
  BY AdvanceIs, AdvanceClamps
<1>2. /\ b \in Buffers /\ r.stage = "scheduled" /\ r.cb \in Pointers /\ q \in Queues
      /\ r \in Lives /\ LifeOK(r, sent) /\ sent \in Nat
  BY <1>1 DEF Advanced
<1>3. r.sched \in 1 .. sent /\ r.commit \in 1 .. sent /\ r.commit < r.sched
  <2>1. /\ r.sched \in 0 .. sent /\ (r.sched = 0 <=> r.stage = "committed")
        /\ r.commit \in 1 .. sent /\ (r.sched > 0 => r.commit < r.sched)
    BY <1>2, LifeBounds
  <2> QED
    BY <1>2, <2>1
<1>4. "scheduled" \in r.got
  BY <1>2, <1>3, AllIsHeard
<1>5. clamp.sched[r.cb] = r.sched
  BY <1>2, <1>4 DEF SchedOK
<1>6. d \in 0 .. sent
  <2>1. d \in Nat
    BY <1>2 DEF ClampTypeOK
  <2>2. d = 0 \/ \E a \in Heard(q) : buffers[a].done = d
    BY <1>2 DEF LastDone
  <2>3. \A a \in Heard(q) : buffers[a].done \in 0 .. sent
    BY BufferBounds DEF Heard
  <2> HIDE DEF d
  <2> QED
    BY <1>2, <2>1, <2>2, <2>3
<1>7. clamp'.window[r.cb] = OwnWindow(b)'
  BY <1>4, CompletionWindow
<1>8. clamp'.window[r.cb] = SatMinus(sent + 1, m)
  <2>1. clamp'.window[r.cb] = IF clamp.sched[r.cb] = None THEN None
                              ELSE SatMinus(sent + 1, Later(clamp.sched[r.cb], d))
    BY <1>1 DEF ClampMoves
  <2>2. clamp.sched[r.cb] # None
    BY <1>3, <1>5 DEF None
  <2> QED
    BY <1>5, <2>1, <2>2
<1> HIDE DEF d
<1>9. m \in 0 .. sent
  BY <1>3, <1>6 DEF Later
<1> HIDE DEF m
<1>10. SatMinus(sent + 1, m) = (sent + 1) - m
  BY <1>2, <1>9 DEF SatMinus
<1> QED
  BY <1>3, <1>6, <1>7, <1>8, <1>9, <1>10 DEF m, d

\* The window the trace gives it is the same.
LEMMA WindowIsSpan ==
    ASSUME BuffersOK, BuffersOK', LossOK, ClampTypeOK, LastDone, SchedOK, lostFrames = 0,
           TraceTypeOK, TraceOK, NEW b, NEW from, Advancing(b, from, "completed", TRUE),
           NEW f, f.ts = sent + 1, f.cb = buffers[b].cb, f.queue = buffers[b].queue,
           f.of = b, f.inFlight = sent + 1 - buffers[b].commit
    PROVE  /\ trace.open[f.cb].commit # None
           /\ Window(trace, f) = Span(buffers'[b], b, OwnWindow(b)')
<1> DEFINE r == buffers[b]
           d == clamp.done[r.queue]
           m == Later(r.sched, d)
           S == {r.sched, r.commit, d}
<1>1. Advanced(b, from, "completed", TRUE)
  BY AdvanceIs
<1>2. /\ b \in Buffers /\ r.stage = "scheduled" /\ r.cb \in Pointers /\ r.queue \in Queues
      /\ sent \in Nat /\ buffers'[b].done = sent + 1
  BY <1>1 DEF Advanced
<1>3. /\ m \in 0 .. sent /\ r.sched \in 1 .. sent /\ r.commit \in 1 .. sent
      /\ r.commit < r.sched /\ d \in 0 .. sent
      /\ OwnWindow(b)' = (sent + 1) - m
  BY CompletionSpan
<1>4. trace.open[r.cb] = [commit |-> r.commit, sched |-> r.sched]
  <2>1. r.done = 0
    BY <1>2, BufferBounds DEF Done
  <2> QED
    BY <1>2, <1>3, <2>1 DEF TraceOK, OpenOK
<1>5. trace.busy[r.queue] = d
  BY <1>2 DEF TraceOK, BusyOK
<1>6. trace.open[f.cb].commit # None /\ trace.open[f.cb].sched # None
  BY <1>3, <1>4 DEF None
<1>7. Window(trace, f) = [start |-> Max(S), end |-> Later(r.commit + (sent + 1 - r.commit), Max(S)),
                          of |-> b]
  BY <1>4, <1>5, <1>6 DEF Window
<1> HIDE DEF r, d
<1>8. Max(S) = m
  <2>1. S \in SUBSET Int
    BY <1>3
  <2>2. m \in S /\ \A k \in S : m >= k
    <3>1. CASE r.sched > d
      BY <1>2, <1>3, <3>1 DEF Later
    <3>2. CASE ~(r.sched > d)
      BY <1>2, <1>3, <3>2 DEF Later
    <3> QED
      BY <3>1, <3>2
  <2> HIDE DEF S, m
  <2> QED
    BY <2>1, <2>2, GreatestIs
<1> HIDE DEF m, S
<1>9. r.commit + (sent + 1 - r.commit) = sent + 1
  BY <1>2, <1>3
<1>10. Later(sent + 1, m) = sent + 1
  BY <1>2, <1>3 DEF Later
<1>11. buffers'[b].done - OwnWindow(b)' = m
  BY <1>2, <1>3
<1> QED
  BY <1>2, <1>6, <1>7, <1>8, <1>9, <1>10, <1>11 DEF Span

LEMMA TraceCompletes ==
    ASSUME BuffersOK, BuffersOK', [BufferNext]_bufferVars, LossOK, ClampTypeOK, LastDone,
           SchedOK, lostFrames = 0, TraceTypeOK, TraceOK,
           NEW b, NEW from, Advancing(b, from, "completed", TRUE)
    PROVE  TraceTypeOK' /\ TraceOK'
<1> DEFINE r == buffers[b]
           s == buffers'[b]
           w == Span(s, b, OwnWindow(b)')
           x == [queue |-> r.queue, window |-> w]
           f == [kind |-> "completed", of |-> b, ts |-> sent + 1, cb |-> r.cb,
                 queue |-> r.queue, ops |-> r.ops, inFlight |-> sent + 1 - r.commit]
<1>1. /\ Advanced(b, from, "completed", TRUE) /\ Send(b, "completed", buffers[b], TRUE)
      /\ ClampMoves("completed", buffers[b], TRUE)
  BY AdvanceIs, AdvanceClamps DEF Advancing
<1>2. /\ b \in Buffers /\ Buffers' = Buffers /\ r.cb \in Pointers /\ r.queue \in Queues
      /\ sent \in Nat /\ r.stage = "scheduled" /\ s.stage = "completed"
      /\ s.cb = r.cb /\ s.commit = r.commit /\ s.done = sent + 1 /\ s.queue = r.queue
      /\ s.got = r.got \cup {"completed"}
  BY <1>1 DEF Advanced
<1>3. r.done = 0 /\ b \in Int
  BY <1>2, BufferBounds DEF Done, BuffersOK, Buffers
<1>4. \A a \in Buffers : a # b =>
             /\ buffers'[a] = buffers[a] /\ buffers[a].cb \in Pointers
             /\ buffers[a].done = 0 \/ buffers[a].stage = "completed" => buffers[a].cb # r.cb
  BY <1>1, OthersApart
<1>5. trace.open[f.cb].commit # None /\ Window(trace, f) = w
  BY WindowIsSpan
<1>6. w \in TraceSpans
  <2>1. OwnWindow(b)' \in Int
    <3>1. OwnWindow(b)' = (sent + 1) - Later(r.sched, clamp.done[r.queue])
          /\ Later(r.sched, clamp.done[r.queue]) \in 0 .. sent
      BY CompletionSpan
    <3> HIDE DEF r
    <3> QED
      BY <1>2, <3>1
  <2> QED
    BY <1>2, <1>3, <2>1 DEF Span, TraceSpans
<1>7. trace.pending[r.cb] = <<>>
  BY <1>2, TraceFields
<1>8. /\ f.kind = "completed" /\ f.cb = r.cb /\ f.queue = r.queue
  OBVIOUS
<1>9. trace' = Trace(trace, f)
  BY <1>1 DEF Send
<1> HIDE DEF f, w, r, s
<1>10. trace' = [[trace EXCEPT !.open[r.cb] = NoCb, !.busy[r.queue] = w.end,
                               !.slices = @ \cup {x}] EXCEPT !.awaiting[r.cb] = w]
  <2>1. trace' = TraceCompleted(trace, f)
    BY <1>8, <1>9 DEF Trace
  <2> QED
    BY <1>5, <1>7, <1>8, <2>1 DEF TraceCompleted
<1>11. w.end = sent + 1
  BY <1>2 DEF w, Span
<1>12. /\ trace.open \in [Pointers -> Commands] /\ trace.awaiting \in [Pointers -> TraceSpans]
       /\ trace.busy \in [Queues -> Int] /\ NoCb \in Commands
       /\ trace.slices \in SUBSET [queue : Queues, window : TraceSpans]
       /\ x \in [queue : Queues, window : TraceSpans]
  BY <1>2, <1>6, TraceFields DEF NoCb, Commands, None
<1> HIDE DEF x
<1>13. /\ trace'.open = [trace.open EXCEPT ![r.cb] = NoCb]
       /\ trace'.awaiting = [trace.awaiting EXCEPT ![r.cb] = w]
       /\ trace'.busy = [trace.busy EXCEPT ![r.queue] = sent + 1]
       /\ trace'.slices = trace.slices \cup {x} /\ trace'.drawn = trace.drawn
       /\ TraceTypeOK'
  <2> DEFINE open == [trace.open EXCEPT ![r.cb] = NoCb]
             awaiting == [trace.awaiting EXCEPT ![r.cb] = w]
             busy == [trace.busy EXCEPT ![r.queue] = sent + 1]
             slices == trace.slices \cup {x}
  <2>1. /\ open \in [Pointers -> Commands] /\ awaiting \in [Pointers -> TraceSpans]
        /\ busy \in [Queues -> Int] /\ slices \in SUBSET [queue : Queues, window : TraceSpans]
    BY <1>2, <1>6, <1>12
  <2>2. trace = [open |-> trace.open, awaiting |-> trace.awaiting,
                 pending |-> trace.pending, busy |-> trace.busy,
                 slices |-> trace.slices, drawn |-> trace.drawn]
    BY TraceFields
  <2>3. trace' = [[trace EXCEPT !.open = open, !.busy = busy, !.slices = slices]
                     EXCEPT !.awaiting = awaiting]
    BY <1>10, <1>11, <2>2
  <2> HIDE DEF open, awaiting, busy, slices
  <2>4. trace' = [open |-> open, awaiting |-> awaiting, pending |-> trace.pending,
                  busy |-> busy, slices |-> slices, drawn |-> trace.drawn]
    BY <2>2, <2>3
  <2>5. /\ trace.pending \in [Pointers -> {<<>>}]
        /\ trace.drawn \in SUBSET [window : TraceSpans, ops : Seq(Int)]
    BY TraceFields
  <2>6. TraceTypeOK'
    BY <2>1, <2>4, <2>5 DEF TraceTypeOK
  <2>7. /\ trace'.open = open /\ trace'.awaiting = awaiting /\ trace'.busy = busy
        /\ trace'.slices = slices /\ trace'.drawn = trace.drawn
    BY <2>4
  <2> QED
    BY <2>6, <2>7 DEF open, awaiting, busy, slices
<1>14. OpenOK'
  <2> SUFFICES ASSUME NEW a \in Buffers, buffers'[a].done = 0
               PROVE  trace'.open[buffers'[a].cb] =
                        [commit |-> buffers'[a].commit,
                         sched |-> IF buffers'[a].sched = 0 THEN None ELSE buffers'[a].sched]
    BY <1>2 DEF OpenOK
  <2>1. a # b
    BY <1>2 DEF s
  <2> QED
    BY <1>2, <1>4, <1>12, <1>13, <2>1 DEF TraceOK, OpenOK
<1>15. BusyOK'
  <2>1. /\ clamp'.done[r.queue] = sent + 1
        /\ \A q \in Queues : q # r.queue => clamp'.done[q] = clamp.done[q]
    BY <1>1 DEF ClampMoves, r
  <2> QED
    BY <1>2, <1>12, <1>13, <2>1 DEF TraceOK, BusyOK
<1>16. AwaitingOK'
  <2> SUFFICES ASSUME NEW a \in Buffers, buffers'[a].stage = "completed"
               PROVE  trace'.awaiting[buffers'[a].cb] = Span(buffers'[a], a, OwnWindow(a)')
    BY <1>2 DEF AwaitingOK
  <2>1. CASE a = b
    <3>1. trace'.awaiting[r.cb] = w /\ buffers'[b].cb = r.cb
      BY <1>2, <1>12, <1>13 DEF s
    <3> QED
      BY <2>1, <3>1 DEF w, s
  <2>2. CASE a # b
    <3>1. buffers'[a] = buffers[a] /\ buffers[a].stage = "completed"
      BY <1>4, <2>2
    <3>2. AwaitingOK /\ trace'.awaiting[buffers[a].cb] = trace.awaiting[buffers[a].cb]
      BY <1>2, <1>4, <1>12, <1>13, <2>2, <3>1 DEF TraceOK
    <3> QED
      BY <3>1, <3>2, OthersAwait
  <2> QED
    BY <2>1, <2>2
<1>17. SlicesOK'
  <2> SUFFICES ASSUME NEW y
               PROVE  y \in trace'.slices <=> \E a \in Buffers :
                        buffers'[a].done > 0 /\ y = SliceOf(buffers'[a], a, OwnWindow(a)')
    BY <1>2 DEF SlicesOK
  <2>1. y \in trace.slices <=> \E a \in Buffers :
                      buffers[a].done > 0 /\ y = SliceOf(buffers[a], a, OwnWindow(a))
    BY DEF TraceOK, SlicesOK
  <2>2. SliceOf(buffers'[b], b, OwnWindow(b)') = x /\ buffers'[b].done > 0
    BY <1>2 DEF SliceOf, x, w, s
  <2>3. \A a \in Buffers : buffers[a].done > 0 =>
           SliceOf(buffers'[a], a, OwnWindow(a)') = SliceOf(buffers[a], a, OwnWindow(a))
    BY SpansLast
  <2>4. ASSUME y \in trace'.slices
        PROVE  \E a \in Buffers :
                 buffers'[a].done > 0 /\ y = SliceOf(buffers'[a], a, OwnWindow(a)')
    <3>1. CASE y = x
      BY <1>2, <2>2, <3>1
    <3>2. CASE y \in trace.slices
      <4>1. PICK a \in Buffers :
               buffers[a].done > 0 /\ y = SliceOf(buffers[a], a, OwnWindow(a))
        BY <2>1, <3>2
      <4>2. a # b
        BY <1>3, <4>1 DEF r
      <4>3. buffers'[a].done > 0 /\ y = SliceOf(buffers'[a], a, OwnWindow(a)')
        BY <1>4, <2>3, <4>1, <4>2
      <4> QED
        BY <4>3
    <3> QED
      BY <1>13, <2>4, <3>1, <3>2
  <2>5. ASSUME NEW a \in Buffers, buffers'[a].done > 0,
               y = SliceOf(buffers'[a], a, OwnWindow(a)')
        PROVE  y \in trace'.slices
    <3>1. CASE a = b
      BY <1>13, <2>2, <2>5, <3>1
    <3>2. CASE a # b
      <4>1. buffers[a].done > 0
        BY <1>4, <2>5, <3>2
      <4> QED
        BY <1>13, <2>1, <2>3, <2>5, <4>1
    <3> QED
      BY <3>1, <3>2
  <2> QED
    BY <2>4, <2>5
<1>18. DrawnOK'
  <2>1. \A a \in Buffers : "ops" \in buffers'[a].got <=> "ops" \in buffers[a].got
    BY <1>2, <1>4 DEF r, s
  <2> QED
    BY <1>2, <1>13, <2>1, DrawnLasts DEF TraceOK
<1> QED
  BY <1>13, <1>14, <1>15, <1>16, <1>17, <1>18 DEF TraceOK

\* The release of a buffer, or no step at all.
LEMMA TraceRests ==
    ASSUME BuffersOK, BuffersOK', [BufferNext]_bufferVars, TraceTypeOK, TraceOK,
           trace' = trace, clamp' = clamp, Buffers' = Buffers,
           \A a \in Buffers :
              /\ buffers'[a].cb = buffers[a].cb /\ buffers'[a].commit = buffers[a].commit
              /\ buffers'[a].done = buffers[a].done /\ buffers'[a].sched = buffers[a].sched
              /\ "ops" \in buffers'[a].got <=> "ops" \in buffers[a].got
              /\ buffers'[a].stage = "completed" => buffers[a].stage = "completed"
    PROVE  TraceTypeOK' /\ TraceOK'
<1>1. TraceTypeOK' /\ OpenOK' /\ BusyOK'
  <2>1. TraceTypeOK' /\ BusyOK'
    BY DEF TraceTypeOK, TraceOK, BusyOK
  <2>2. OpenOK'
    BY DEF TraceOK, OpenOK
  <2> QED
    BY <2>1, <2>2
<1>2. SlicesOK' /\ DrawnOK'
  BY SlicesLast, DrawnLasts DEF TraceOK
<1>3. AwaitingOK'
  <2> SUFFICES ASSUME NEW a \in Buffers, buffers'[a].stage = "completed"
               PROVE  trace'.awaiting[buffers'[a].cb] = Span(buffers'[a], a, OwnWindow(a)')
    BY DEF AwaitingOK
  <2>1. buffers[a].stage = "completed" /\ buffers'[a].cb = buffers[a].cb
    OBVIOUS
  <2>2. buffers[a].done > 0
    BY <2>1, BufferBounds DEF Done
  <2>3. Span(buffers'[a], a, OwnWindow(a)') = Span(buffers[a], a, OwnWindow(a))
    BY <2>2, SpansLast
  <2> QED
    BY <2>1, <2>3 DEF TraceOK, AwaitingOK
<1> QED
  BY <1>1, <1>2, <1>3 DEF TraceOK

LEMMA TraceStep ==
    ASSUME BuffersOK, BuffersOK', LossOK, ClampInv, TraceTypeOK, TraceOK,
           [BufferNext]_bufferVars, lostFrames' = 0
    PROVE  TraceTypeOK' /\ TraceOK'
<1>0. ClampTypeOK /\ LastDone /\ SchedOK /\ lostFrames = 0
  BY HeardSteps DEF ClampInv
<1>1. ASSUME NEW p, NEW q, NEW ops, Committing(p, q, ops, TRUE)
      PROVE  TraceTypeOK' /\ TraceOK'
  BY <1>1, TraceCommits
<1>2. ASSUME NEW b, NEW from, NEW to, Advancing(b, from, to, TRUE)
      PROVE  TraceTypeOK' /\ TraceOK'
  <2>1. CASE to = "scheduled"
    BY <1>0, <1>2, <2>1, TraceSchedules
  <2>2. CASE to = "completed"
    BY <1>0, <1>2, <2>2, TraceCompletes
  <2>3. CASE to = "ops"
    BY <1>0, <1>2, <2>3, TraceReports
  <2> QED
    BY <1>2, <2>1, <2>2, <2>3 DEF Advancing
<1>3. ASSUME NEW b, Releasing(b)
      PROVE  TraceTypeOK' /\ TraceOK'
  <2>1. /\ b \in Buffers /\ Buffers' = Buffers /\ trace' = trace /\ clamp' = clamp
        /\ \A a \in Buffers : a # b => buffers'[a] = buffers[a]
        /\ buffers'[b].cb = buffers[b].cb /\ buffers'[b].commit = buffers[b].commit
        /\ buffers'[b].done = buffers[b].done /\ buffers'[b].sched = buffers[b].sched
        /\ buffers'[b].got = buffers[b].got /\ buffers'[b].stage = "free"
    BY <1>3, ReleaseIs
  <2> QED
    BY <2>1, TraceRests
<1>4. ASSUME UNCHANGED bufferVars
      PROVE  TraceTypeOK' /\ TraceOK'
  <2>1. Buffers' = Buffers /\ trace' = trace /\ clamp' = clamp /\ buffers' = buffers
    BY <1>4 DEF bufferVars, Buffers
  <2> QED
    BY <2>1, TraceRests
<1> QED
  BY <1>1, <1>2, <1>3, <1>4, HeardSteps

LEMMA SlicesHold ==
    ASSUME BuffersOK, LossOK, lostFrames = 0, TraceOK
    PROVE  TraceIsTrue
<1>1. ASSUME NEW b \in Buffers, buffers[b].done > 0
      PROVE  /\ buffers[b].done \in Int /\ OwnWindow(b) \in Nat /\ "completed" \in buffers[b].got
             /\ \A a \in Before(b) : buffers[a].done <= buffers[b].done - OwnWindow(b)
  <2>1. Done(b) /\ buffers[b].done \in 0 .. sent
    BY <1>1, BufferBounds DEF Done
  <2> QED
    BY <2>1, OwnWindowBounds, AllIsHeard
<1>2. ASSUME NEW s \in trace.slices
      PROVE  \E b \in Buffers : /\ buffers[b].done > 0 /\ s.window.of = b
                                /\ s = SliceOf(buffers[b], b, OwnWindow(b))
                                /\ s.queue = buffers[b].queue
                                /\ s.window.end = buffers[b].done
                                /\ s.window.start = buffers[b].done - OwnWindow(b)
  <2>1. PICK b \in Buffers : buffers[b].done > 0 /\ s = SliceOf(buffers[b], b, OwnWindow(b))
    BY DEF TraceOK, SlicesOK
  <2>2. /\ s.window.of = b /\ s.queue = buffers[b].queue /\ s.window.end = buffers[b].done
        /\ s.window.start = buffers[b].done - OwnWindow(b)
    BY <2>1 DEF SliceOf, Span
  <2> QED
    BY <2>1, <2>2
<1>3. ASSUME NEW s \in trace.slices
      PROVE  /\ s.window.end = buffers[s.window.of].done
             /\ s.window.end - s.window.start = OwnWindow(s.window.of)
  <2>1. PICK b \in Buffers : /\ buffers[b].done > 0 /\ s.window.of = b
                             /\ s.window.end = buffers[b].done
                             /\ s.window.start = buffers[b].done - OwnWindow(b)
    BY <1>2
  <2>2. buffers[b].done - (buffers[b].done - OwnWindow(b)) = OwnWindow(b)
    BY <1>1, <2>1
  <2> QED
    BY <2>1, <2>2
<1>4. ASSUME NEW a \in Buffers, NEW b \in Buffers, buffers[a].done > 0, buffers[b].done > 0,
             buffers[a].queue = buffers[b].queue, buffers[a].done < buffers[b].done
      PROVE  buffers[a].done <= buffers[b].done - OwnWindow(b)
  <2>1. a \in Before(b)
    BY <1>1, <1>4 DEF Before
  <2> QED
    BY <1>1, <1>4, <2>1
<1>5. ASSUME NEW s \in trace.slices, NEW u \in trace.slices, s.queue = u.queue, s # u
      PROVE  s.window.end <= u.window.start \/ u.window.end <= s.window.start
  <2>1. PICK a \in Buffers : /\ buffers[a].done > 0
                             /\ s = SliceOf(buffers[a], a, OwnWindow(a))
                             /\ s.queue = buffers[a].queue
                             /\ s.window.end = buffers[a].done
                             /\ s.window.start = buffers[a].done - OwnWindow(a)
    BY <1>2
  <2>2. PICK b \in Buffers : /\ buffers[b].done > 0
                             /\ u = SliceOf(buffers[b], b, OwnWindow(b))
                             /\ u.queue = buffers[b].queue
                             /\ u.window.end = buffers[b].done
                             /\ u.window.start = buffers[b].done - OwnWindow(b)
    BY <1>2
  <2>3. a # b /\ buffers[a].queue = buffers[b].queue
    BY <1>5, <2>1, <2>2
  <2>4. buffers[a].done # buffers[b].done
    BY <2>1, <2>3 DEF BuffersOK
  <2>5. CASE buffers[a].done < buffers[b].done
    BY <1>4, <2>1, <2>2, <2>3, <2>5
  <2>6. CASE buffers[b].done < buffers[a].done
    BY <1>4, <2>1, <2>2, <2>3, <2>6
  <2> QED
    BY <1>1, <2>1, <2>2, <2>4, <2>5, <2>6
<1>6. ASSUME NEW d
      PROVE  d \in trace.drawn <=> \E s \in trace.slices :
               "ops" \in buffers[s.window.of].got /\ d = [window |-> s.window, ops |-> <<s.window.of>>]
  <2>1. ASSUME d \in trace.drawn
        PROVE  \E s \in trace.slices : /\ "ops" \in buffers[s.window.of].got
                                       /\ d = [window |-> s.window, ops |-> <<s.window.of>>]
    <3>1. PICK b \in Buffers :
             "ops" \in buffers[b].got /\ d = KernelsOf(buffers[b], b, OwnWindow(b))
      BY <2>1 DEF TraceOK, DrawnOK
    <3>2. PICK s : s = SliceOf(buffers[b], b, OwnWindow(b))
      OBVIOUS
    <3>3. s \in trace.slices
      BY <3>1, <3>2, ReportedIsDone DEF TraceOK, SlicesOK
    <3>4. s.window = Span(buffers[b], b, OwnWindow(b)) /\ s.window.of = b
      BY <3>2 DEF SliceOf, Span
    <3>5. d = [window |-> s.window, ops |-> <<s.window.of>>]
      BY <3>1, <3>4 DEF KernelsOf
    <3> QED
      BY <3>1, <3>3, <3>4, <3>5
  <2>2. ASSUME NEW s \in trace.slices, "ops" \in buffers[s.window.of].got,
               d = [window |-> s.window, ops |-> <<s.window.of>>]
        PROVE  d \in trace.drawn
    <3>1. PICK b \in Buffers : s.window.of = b /\ s = SliceOf(buffers[b], b, OwnWindow(b))
      BY <1>2
    <3>2. s.window = Span(buffers[b], b, OwnWindow(b))
      BY <3>1 DEF SliceOf
    <3>3. d = KernelsOf(buffers[b], b, OwnWindow(b))
      BY <2>2, <3>1, <3>2 DEF KernelsOf
    <3> QED
      BY <2>2, <3>1, <3>3 DEF TraceOK, DrawnOK
  <2> QED
    BY <2>1, <2>2
<1>7. trace.drawn = {[window |-> s.window, ops |-> <<s.window.of>>] :
                        s \in {s \in trace.slices : "ops" \in buffers[s.window.of].got}}
  BY <1>6
<1> QED
  BY <1>3, <1>5, <1>7 DEF TraceIsTrue

-----------------------------------------------------------------------------
(* What the panel shows when every frame was heard.                        *)

OnPanel(r) == [cb |-> r.cb, ts |-> r.commit]
PanelOK ==
    /\ DOMAIN panel = Queues
    /\ \A q \in Queues : \A e : e \in panel[q] <=>
         \E b \in Buffers : buffers[b].queue = q /\ buffers[b].done = 0 /\ e = OnPanel(buffers[b])

LEMMA PanelStart ==
    ASSUME BufferInit
    PROVE  PanelOK
<1>1. buffers = <<>> /\ panel = PanelInit
  BY DEF BufferInit
<1>2. Buffers = {}
  BY <1>1 DEF Buffers
<1> QED
  BY <1>1, <1>2 DEF PanelOK, PanelInit

LEMMA PanelHolds ==
    ASSUME BuffersOK, PanelOK
    PROVE  PanelIsTrue
<1>1. \A b \in Buffers : ~Done(b) <=> buffers[b].done = 0
  BY BufferBounds DEF Done
<1> SUFFICES ASSUME NEW q \in Queues, NEW e
             PROVE  e \in panel[q] <=>
                      \E b \in {b \in Buffers : buffers[b].queue = q /\ ~Done(b)} :
                         e = [cb |-> buffers[b].cb, ts |-> buffers[b].commit]
  BY <1>1 DEF PanelIsTrue
<1>2. e \in panel[q] <=>
         \E b \in Buffers : buffers[b].queue = q /\ buffers[b].done = 0 /\ e = OnPanel(buffers[b])
  BY DEF PanelOK
<1> QED
  BY <1>1, <1>2 DEF OnPanel

LEMMA PanelRests ==
    ASSUME PanelOK, panel' = panel, Buffers' = Buffers,
           \A a \in Buffers :
              /\ buffers'[a].cb = buffers[a].cb /\ buffers'[a].commit = buffers[a].commit
              /\ buffers'[a].queue = buffers[a].queue /\ buffers'[a].done = buffers[a].done
    PROVE  PanelOK'
<1>1. \A a \in Buffers : OnPanel(buffers'[a]) = OnPanel(buffers[a])
  BY DEF OnPanel
<1> QED
  BY <1>1 DEF PanelOK

LEMMA PanelCommits ==
    ASSUME BuffersOK, PanelOK, NEW p, NEW q, NEW ops, Committing(p, q, ops, TRUE)
    PROVE  PanelOK'
<1> DEFINE n == Len(buffers) + 1
           r == Fresh(p, q, ops, TRUE)
<1>1. Added(p, n, r) /\ q \in Queues /\ Send(n, "committed", r, TRUE)
  BY CommitAdds DEF Committing
<1>2. r.queue = q
  BY DEF Fresh
<1> HIDE DEF n, r
<1>3. /\ Buffers' = Buffers \cup {n} /\ n \notin Buffers /\ buffers'[n] = r
      /\ \A a \in Buffers : buffers'[a] = buffers[a]
      /\ r.cb = p /\ r.done = 0 /\ r.commit = sent + 1
  BY <1>1 DEF Added
<1>4. panel' = [panel EXCEPT ![q] = {e \in @ : e.cb # p} \cup {[cb |-> p, ts |-> sent + 1]}]
  BY <1>1, <1>2, <1>3 DEF Send, Panel
<1>5. OnPanel(r) = [cb |-> p, ts |-> sent + 1]
  BY <1>3 DEF OnPanel
<1>6. \A b \in Buffers : buffers[b].done = 0 => buffers[b].cb # p
  <2> SUFFICES ASSUME NEW b \in Buffers, buffers[b].done = 0, buffers[b].cb = p
               PROVE  FALSE
    OBVIOUS
  <2>1. buffers[b].stage = "free"
    BY <1>1 DEF Added
  <2> QED
    BY <2>1, BufferBounds DEF Done
<1>7. \A e \in panel[q] : e.cb # p
  BY <1>1, <1>6 DEF PanelOK, OnPanel
<1>8. /\ DOMAIN panel' = Queues /\ panel'[q] = panel[q] \cup {OnPanel(r)}
      /\ \A x \in Queues : x # q => panel'[x] = panel[x]
  BY <1>1, <1>4, <1>5, <1>7 DEF PanelOK
<1>9. ASSUME NEW x \in Queues, NEW e
      PROVE  e \in panel'[x] <=> \E b \in Buffers' :
               buffers'[b].queue = x /\ buffers'[b].done = 0 /\ e = OnPanel(buffers'[b])
  <2>1. e \in panel[x] <=> \E b \in Buffers :
               buffers'[b].queue = x /\ buffers'[b].done = 0 /\ e = OnPanel(buffers'[b])
    BY <1>3 DEF PanelOK
  <2>2. e \in panel'[x] <=> e \in panel[x] \/ (x = q /\ e = OnPanel(r))
    BY <1>8
  <2> QED
    BY <1>2, <1>3, <2>1, <2>2
<1> QED
  BY <1>8, <1>9 DEF PanelOK

LEMMA PanelCompletes ==
    ASSUME BuffersOK, PanelOK, NEW b, NEW from, Advancing(b, from, "completed", TRUE)
    PROVE  PanelOK'
<1> DEFINE r == buffers[b]
           s == buffers'[b]
<1>1. Advanced(b, from, "completed", TRUE) /\ Send(b, "completed", r, TRUE)
  BY AdvanceIs DEF Advancing
<1>2. /\ b \in Buffers /\ Buffers' = Buffers /\ r.queue \in Queues /\ sent \in Nat
      /\ r.stage = "scheduled" /\ s.done = sent + 1
  BY <1>1 DEF Advanced
<1>3. \A a \in Buffers : a # b =>
             /\ buffers'[a] = buffers[a]
             /\ buffers[a].done = 0 => buffers[a].cb # r.cb
  BY <1>1, OthersApart
<1>4. s.done # 0
  BY <1>2
<1>5. panel' = [panel EXCEPT ![r.queue] = {e \in @ : e.cb # r.cb}]
  BY <1>1 DEF Send, Panel
<1> HIDE DEF s, r
<1>6. /\ DOMAIN panel' = Queues /\ panel'[r.queue] = {e \in panel[r.queue] : e.cb # r.cb}
      /\ \A x \in Queues : x # r.queue => panel'[x] = panel[x]
  BY <1>2, <1>5 DEF PanelOK
<1>7. ASSUME NEW x \in Queues, NEW e
      PROVE  e \in panel'[x] <=> \E a \in Buffers :
               buffers'[a].queue = x /\ buffers'[a].done = 0 /\ e = OnPanel(buffers'[a])
  <2>1. e \in panel[x] <=> \E a \in Buffers :
               buffers[a].queue = x /\ buffers[a].done = 0 /\ e = OnPanel(buffers[a])
    BY DEF PanelOK
  <2>2. \A a \in Buffers : OnPanel(buffers[a]).cb = buffers[a].cb
    BY DEF OnPanel
  <2>3. ASSUME e \in panel'[x]
        PROVE  \E a \in Buffers :
                 buffers'[a].queue = x /\ buffers'[a].done = 0 /\ e = OnPanel(buffers'[a])
    <3>1. e \in panel[x] /\ (x = r.queue => e.cb # r.cb)
      BY <1>6, <2>3
    <3>2. PICK a \in Buffers :
             buffers[a].queue = x /\ buffers[a].done = 0 /\ e = OnPanel(buffers[a])
      BY <2>1, <3>1
    <3>3. a # b
      BY <2>2, <3>1, <3>2 DEF r
    <3> QED
      BY <1>3, <3>2, <3>3
  <2>4. ASSUME NEW a \in Buffers, buffers'[a].queue = x, buffers'[a].done = 0,
               e = OnPanel(buffers'[a])
        PROVE  e \in panel'[x]
    <3>1. a # b
      BY <1>4, <2>4 DEF s
    <3>2. buffers'[a] = buffers[a] /\ buffers[a].cb # r.cb
      BY <1>3, <2>4, <3>1
    <3>3. e \in panel[x] /\ e.cb # r.cb
      BY <2>1, <2>2, <2>4, <3>2
    <3> QED
      BY <1>6, <3>3
  <2> QED
    BY <2>3, <2>4
<1> QED
  BY <1>2, <1>6, <1>7 DEF PanelOK

LEMMA PanelStep ==
    ASSUME BuffersOK, PanelOK, [BufferNext]_bufferVars, lostFrames' = 0
    PROVE  PanelOK'
<1>1. ASSUME NEW p, NEW q, NEW ops, Committing(p, q, ops, TRUE)
      PROVE  PanelOK'
  BY <1>1, PanelCommits
<1>2. ASSUME NEW b, NEW from, NEW to, Advancing(b, from, to, TRUE)
      PROVE  PanelOK'
  <2>1. CASE to = "completed"
    BY <1>2, <2>1, PanelCompletes
  <2>2. CASE to \in {"scheduled", "ops"}
    <3>1. Advanced(b, from, to, TRUE) /\ Send(b, to, buffers[b], TRUE)
      BY <1>2, AdvanceIs DEF Advancing
    <3>2. panel' = panel
      BY <2>2, <3>1 DEF Send, Panel
    <3>3. /\ Buffers' = Buffers /\ \A a \in Buffers : a # b => buffers'[a] = buffers[a]
          /\ buffers'[b].cb = buffers[b].cb /\ buffers'[b].commit = buffers[b].commit
          /\ buffers'[b].queue = buffers[b].queue /\ buffers'[b].done = buffers[b].done
      BY <2>2, <3>1 DEF Advanced
    <3> QED
      BY <3>2, <3>3, PanelRests
  <2> QED
    BY <1>2, <2>1, <2>2 DEF Advancing
<1>3. ASSUME NEW b, Releasing(b)
      PROVE  PanelOK'
  <2>1. /\ b \in Buffers /\ Buffers' = Buffers /\ panel' = panel
        /\ \A a \in Buffers : a # b => buffers'[a] = buffers[a]
        /\ buffers'[b].cb = buffers[b].cb /\ buffers'[b].commit = buffers[b].commit
        /\ buffers'[b].queue = buffers[b].queue /\ buffers'[b].done = buffers[b].done
    BY <1>3, ReleaseIs
  <2> QED
    BY <2>1, PanelRests
<1>4. ASSUME UNCHANGED bufferVars
      PROVE  PanelOK'
  <2>1. Buffers' = Buffers /\ panel' = panel /\ buffers' = buffers
    BY <1>4 DEF bufferVars, Buffers
  <2> QED
    BY <2>1, PanelRests
<1> QED
  BY <1>1, <1>2, <1>3, <1>4, HeardSteps

-----------------------------------------------------------------------------
\* What the consumers hold, when every frame was heard.
AllHeard == lostFrames = 0 => /\ PairTypeOK /\ PairOK
                              /\ TraceTypeOK /\ TraceOK /\ PanelOK

BufferInv == BuffersOK /\ LossOK /\ ClampInv /\ AllHeard

\* As long as no more than one frame was lost, the kernel times shown are
\* scaled by their own buffer's time on the queue or not at all; and when none
\* was, completions, slices, kernels and what is in flight are those of the GPU
\* (op_clamp.rs, breakdown.rs, export.rs, tui/state.rs), whatever the number of
\* buffers, pointers and queues.
THEOREM BuffersArePairedAlways ==
    BufferSpec => [](lostFrames <= 1 => BuffersArePaired)
<1>1. BufferInit => BufferInv
  <2> SUFFICES ASSUME BufferInit PROVE BufferInv
    OBVIOUS
  <2> QED
    BY BuffersStart, ClampStart, PairStart, TraceStart, PanelStart DEF BufferInv, AllHeard
<1>2. BufferInv /\ [BufferNext]_bufferVars => BufferInv'
  <2> SUFFICES ASSUME BufferInv, [BufferNext]_bufferVars
               PROVE  BufferInv'
    OBVIOUS
  <2>1. BuffersOK /\ LossOK /\ ClampInv /\ AllHeard
    BY DEF BufferInv
  <2>2. BuffersOK' /\ LossOK'
    BY <2>1, BuffersStep
  <2>3. ClampInv'
    BY <2>1, <2>2, ClampStep
  <2>4. AllHeard'
    <3> SUFFICES ASSUME lostFrames' = 0
                 PROVE  PairTypeOK' /\ PairOK' /\ TraceTypeOK' /\ TraceOK' /\ PanelOK'
      BY DEF AllHeard
    <3>1. lostFrames = 0
      BY <2>1, HeardSteps
    <3>2. PairTypeOK /\ PairOK /\ TraceTypeOK /\ TraceOK /\ PanelOK
      BY <2>1, <3>1 DEF AllHeard
    <3>3. PairTypeOK' /\ PairOK'
      BY <2>1, <2>2, <3>2, PairStep
    <3>4. TraceTypeOK' /\ TraceOK'
      BY <2>1, <2>2, <3>2, TraceStep
    <3>5. PanelOK'
      BY <2>1, <3>2, PanelStep
    <3> QED
      BY <3>3, <3>4, <3>5
  <2> QED
    BY <2>2, <2>3, <2>4 DEF BufferInv
<1>3. BufferInv => (lostFrames <= 1 => BuffersArePaired)
  <2> SUFFICES ASSUME BufferInv, lostFrames <= 1
               PROVE  BuffersArePaired
    OBVIOUS
  <2>1. BuffersOK /\ LossOK /\ ClampInv /\ AllHeard
    BY DEF BufferInv
  <2>2. ClampIsOfOwnBuffer
    BY <2>1, ClampHolds
  <2>3. FramesArePaired
    <3> SUFFICES ASSUME lostFrames = 0
                 PROVE  PairsAreTrue /\ TraceIsTrue /\ PanelIsTrue /\ PairingIsExact
      BY DEF FramesArePaired
    <3>1. PairTypeOK /\ PairOK /\ TraceTypeOK /\ TraceOK /\ PanelOK
      BY <2>1 DEF AllHeard
    <3> QED
      BY <2>1, <3>1, PairsHold, SlicesHold, PanelHolds
  <2> QED
    BY <2>2, <2>3 DEF BuffersArePaired
<1> QED
  BY <1>1, <1>2, <1>3, PTL DEF BufferSpec
=============================================================================
