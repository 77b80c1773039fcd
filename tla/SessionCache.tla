----------------------------- MODULE SessionCache -----------------------------
(***************************************************************************)
(* The MCP server's cache of the last session decoded                      *)
(* (crates/smeltr-mcp/src/session_cache.rs), used by tools on several      *)
(* threads while the daemon writes the sessions.  An entry is keyed on the *)
(* sizes and times of the events file and of the metadata, read one after  *)
(* the other before the lookup; decoding happens without the lock.  What a *)
(* file contains is its version: the number of times it has changed.       *)
(***************************************************************************)
EXTENDS Integers

CONSTANTS Tools, Sessions,
          MaxChanges      \* bound: changes of each file

ASSUME CacheAssumption == MaxChanges \in Nat

VARIABLES
  version,    \* the files of each session: [events, meta]
  cache,      \* [dir, key, data], or Empty
  tools       \* each tool's call: [pc, dir, key, data, store, since]

cacheVars == <<version, cache, tools>>

Blank == [events |-> 0, meta |-> 0]
Empty == [dir |-> "none", key |-> Blank, data |-> Blank]
Idle(t) == tools[t].pc \in {"idle", "returned"}

CacheInit ==
    /\ version = [d \in Sessions |-> Blank]
    /\ cache = Empty
    /\ tools = [t \in Tools |-> [pc |-> "idle", dir |-> "none", key |-> Blank,
                                 data |-> Blank, stores |-> FALSE, since |-> Blank]]

\* checked (which decodes and stores) or visit (which only peeks).
CallTool(t, d, stores) ==
    /\ Idle(t)
    /\ tools' = [tools EXCEPT ![t] = [pc |-> "statEvents", dir |-> d, key |-> Blank,
                                      data |-> Blank, stores |-> stores,
                                      since |-> version[d]]]
    /\ UNCHANGED <<version, cache>>

\* key: the events file, then the metadata.
StatEvents(t) ==
    /\ tools[t].pc = "statEvents"
    /\ tools' = [tools EXCEPT ![t].pc = "statMeta",
                              ![t].key.events = version[tools[t].dir].events]
    /\ UNCHANGED <<version, cache>>

StatMeta(t) ==
    /\ tools[t].pc = "statMeta"
    /\ tools' = [tools EXCEPT ![t].pc = "lookup",
                              ![t].key.meta = version[tools[t].dir].meta]
    /\ UNCHANGED <<version, cache>>

Cached(t) == cache.dir = tools[t].dir /\ cache.key = tools[t].key

LookUp(t) ==
    /\ tools[t].pc = "lookup"
    /\ tools' = [tools EXCEPT ![t].pc = IF Cached(t) THEN "returned" ELSE "readEvents",
                              ![t].data = IF Cached(t) THEN cache.data ELSE @]
    /\ cache' = IF Cached(t) \/ ~tools[t].stores THEN cache ELSE Empty
    /\ UNCHANGED version

\* read_events_checked: the events, and when they are decoded the metadata.
ReadEvents(t) ==
    /\ tools[t].pc = "readEvents"
    /\ tools' = [tools EXCEPT ![t].pc = "readMeta",
                              ![t].data.events = version[tools[t].dir].events]
    /\ UNCHANGED <<version, cache>>

ReadMeta(t) ==
    /\ tools[t].pc = "readMeta"
    /\ tools' = [tools EXCEPT ![t].pc = IF tools[t].stores THEN "store" ELSE "returned",
                              ![t].data.meta = version[tools[t].dir].meta]
    /\ UNCHANGED <<version, cache>>

\* Mutant: the key is taken when the entry is stored.
StoreWithNewKey(t) ==
    /\ tools[t].pc = "store"
    /\ cache' = [dir |-> tools[t].dir, key |-> version[tools[t].dir], data |-> tools[t].data]
    /\ tools' = [tools EXCEPT ![t].pc = "returned"]
    /\ UNCHANGED version

Store(t) ==
    /\ tools[t].pc = "store"
    /\ cache' = [dir |-> tools[t].dir, key |-> tools[t].key, data |-> tools[t].data]
    /\ tools' = [tools EXCEPT ![t].pc = "returned"]
    /\ UNCHANGED version

\* evict_idle: after a minute without use, from another thread.
EvictIdle ==
    /\ cache # Empty /\ cache' = Empty
    /\ UNCHANGED <<version, tools>>

\* The daemon appends events, or finalizes the session.
ChangeFile(d, f) ==
    /\ version[d][f] < MaxChanges
    /\ version' = [version EXCEPT ![d][f] = @ + 1]
    /\ UNCHANGED <<cache, tools>>

ToolStep(t) == StatEvents(t) \/ StatMeta(t) \/ LookUp(t) \/ ReadEvents(t) \/ ReadMeta(t)
               \/ Store(t)

CacheNext ==
    \/ \E t \in Tools :
          ToolStep(t) \/ \E d \in Sessions, stores \in BOOLEAN : CallTool(t, d, stores)
    \/ EvictIdle
    \/ \E d \in Sessions, f \in {"events", "meta"} : ChangeFile(d, f)

CacheSpec == CacheInit /\ [][CacheNext]_cacheVars

-----------------------------------------------------------------------------
(* What a tool answers with is no older than its call: neither the events  *)
(* nor the metadata the damage was judged by, although other tools fill    *)
(* and empty the cache in between and the session keeps growing; a session *)
(* at rest is thus answered for as it is.                                  *)
CacheIsFresh ==
    \A t \in Tools : tools[t].pc = "returned" =>
        \A f \in {"events", "meta"} :
            /\ tools[t].since[f] <= tools[t].data[f]
            /\ tools[t].data[f] <= version[tools[t].dir][f]
=============================================================================
