------------------------------ MODULE MCReading ------------------------------
(***************************************************************************)
(* The readers of a session, on small instances.  They share no state but  *)
(* the session they read, so each behaviour is about one of them ("focus") *)
(* and leaves the others in their initial states:                          *)
(*   "damage"       SessionDamage, up to three one-event units on a disk   *)
(*                  that works, left by finalize or by a crash, damaged;   *)
(*   "buffers"      CommandBuffers, pointers reused on two queues;         *)
(*   "attribution"  Attribution, two threads of a Python process;          *)
(*   "memory"       ScopeMemory, the same with device memory samples;      *)
(*   "cache"        SessionCache, two tools, a growing session and another;*)
(*   "replay"       Replay;                                                *)
(*   "verdict"      CrashVerdict, two analyses of a run that dies, where   *)
(*                  the probe does not watch the reports and that of       *)
(*                  another process is whole at once;                      *)
(*   "incidents"    CrashVerdict, where it does and nobody analyzes.       *)
(***************************************************************************)
EXTENDS SessionDamage, CommandBuffers, ScopeMemory, SessionCache, Replay, CrashVerdict

VARIABLE focus

OneEvent == {[size |-> 0, ts |-> 0, source |-> 0]}
NoFilters == {}
AnyLength == 0 .. 6
AnyOffset == 0 .. 6
KernelTimes == {<<>>, <<1, 4>>}
CallNames == <<"a", "b", "a">>
Times == {<<7>>, <<5, 5, 6>>, <<4, 9, 6, 8>>}
SeekKeys == {-2, -1, 1, 2}
FewPasses == [ours |-> 2, stranger |-> 1]

\* The same two values stand for the pointers, threads, tools and analysts, and
\* two more for the queues: what exchanges the former, and the latter.
Interchangeable ==
    {p @@ q : p \in Permutations(Pointers \cup Threads \cup Tools \cup Analysts),
              q \in Permutations(Queues)}

Foci == {"damage", "buffers", "attribution", "memory", "cache", "replay", "verdict",
         "incidents"}

\* The parts out of focus start, and stay, in one fixed state.
AttributionRest == capture = FALSE /\ HelloSent
ReplayRest == speed = 0 /\ Len(timeline) = 1

ReadingInit ==
    /\ focus \in Foci
    /\ DamageInit /\ BufferInit /\ MemoryInit /\ CacheInit /\ ReplayInit
    /\ VerdictInit /\ probe.watches = (focus = "incidents")
    /\ focus # "attribution" => AttributionRest
    /\ focus # "replay" => ReplayRest

ReadingNext ==
    \/ /\ focus = "damage" /\ DamageNext
       /\ UNCHANGED <<bufferVars, memoryVars, cacheVars, replayVars, verdictVars>>
    \/ /\ focus = "buffers" /\ BufferNext
       /\ UNCHANGED <<damageVars, memoryVars, cacheVars, replayVars, verdictVars>>
    \/ /\ focus = "attribution" /\ AttributionNext
       /\ UNCHANGED <<ring, damageVars, bufferVars, cacheVars, replayVars, verdictVars>>
    \/ /\ focus = "memory" /\ MemoryNext
       /\ UNCHANGED <<damageVars, bufferVars, cacheVars, replayVars, verdictVars>>
    \/ /\ focus = "cache" /\ CacheNext /\ version'["s2"] = version["s2"]
       /\ UNCHANGED <<damageVars, bufferVars, memoryVars, replayVars, verdictVars>>
    \/ /\ focus = "replay" /\ ReplayNext
       /\ UNCHANGED <<damageVars, bufferVars, memoryVars, cacheVars, verdictVars>>
    \/ /\ focus \in {"verdict", "incidents"} /\ VerdictNext
       /\ focus = "incidents" => UNCHANGED analysis
       /\ focus = "verdict" => reports'["stranger"].state # "partial"
       /\ UNCHANGED <<damageVars, bufferVars, memoryVars, cacheVars, replayVars>>

ReadingVars == <<focus, damageVars, bufferVars, memoryVars, cacheVars, replayVars, verdictVars>>

ReadingSpec == ReadingInit /\ [][ReadingNext /\ UNCHANGED focus]_ReadingVars
=============================================================================
