------------------------------ MODULE RingFamily ------------------------------
(***************************************************************************)
(* The rings of one recording.  Every process below the recorded command   *)
(* loads the hook: the first claims the ring record created, by flock;     *)
(* each other one makes <ring>.<pid> of its own (metal-hook: ring.c,       *)
(* hook.mm).  The daemon's probe finds and drains them                     *)
(* (smeltr-probes-metal-hook: lib.rs; smeltr-metal-ring: family.rs) until  *)
(* record, which has waited for its command, detaches it and removes the   *)
(* files (record.rs).                                                      *)
(*                                                                         *)
(* A ring is a file (a number, 0 for record's); a name leads to a file or  *)
(* to none.  How bytes go through one ring is Ring's matter: here a ring   *)
(* counts its frames, and one pass of the probe takes all there are.       *)
(***************************************************************************)
EXTENDS Integers, FiniteSets

CONSTANTS
    Pids, Command,  \* processes; the recorded command is one
    Main,           \* the name of record's ring, without a pid
    ScanEvery,      \* passes of the probe from one look for rings to the next
    DrainWait,      \* passes that fit in record's wait before it detaches
    MaxFiles,       \* bound: rings beside record's
    MaxFrames       \* bound: frames in a ring

ASSUME FamilyAssumption ==
    /\ Command \in Pids /\ Main \notin Pids /\ ScanEvery \in Nat \ {0}
    /\ DrainWait \in Nat \ {0}
    /\ MaxFiles \in Nat /\ MaxFrames \in Nat

VARIABLES
    image,     \* what each process is at
    writes,    \* the ring its image writes, or NoFile
    name, tmp, \* the file at <ring> (Main) and <ring>.<pid>; at <ring>.<pid>.tmp
    holders,   \* who has a descriptor that holds the flock on a file
    files,     \* files made so far
    written, drained,     \* frames of each file
    opened,    \* the probe: the names it drains, and the file it opened there
    passes,    \* passes since the last look for rings
    stage,     \* record: running, waiting, detached, unlinking, over
    waited,
    seen, age, due, maker
               \* history: files some look found; passes since a file got its
               \* name; its frames when the command was over; who made it

familyVars == <<image, writes, name, tmp, holders, files, written, drained,
                opened, passes, stage, waited, seen, age, due, maker>>

NoFile == -1
Files == 0 .. MaxFiles
Names == Pids \cup {Main}

FamilyInit ==
    /\ image = [p \in Pids |-> IF p = Command THEN "starting" ELSE "none"]
    /\ writes = [p \in Pids |-> NoFile]
    /\ name = [n \in Names |-> IF n = Main THEN 0 ELSE NoFile]
    /\ tmp = [p \in Pids |-> NoFile]
    /\ holders = [f \in Files |-> {}]
    /\ files = 0
    /\ written = [f \in Files |-> 0] /\ drained = [f \in Files |-> 0]
    /\ opened = [n \in {Main} |-> 0]
    /\ passes = 0 /\ stage = "running" /\ waited = 0
    /\ seen = {} /\ age = [f \in Files |-> 0] /\ due = [f \in Files |-> 0]
    /\ maker = [f \in Files |-> Command]

probeVars == <<drained, opened, passes, waited, seen, age>>
recordVars == <<stage, due>>

-----------------------------------------------------------------------------
(* smeltr_ring_open, called when the hook is loaded.                       *)

Becomes(p, what) == image' = [image EXCEPT ![p] = what]

OpenMain(p) ==
    /\ image[p] = "starting"
    /\ Becomes(p, IF name[Main] = NoFile THEN "inert" ELSE "opened")
    /\ UNCHANGED <<writes, name, tmp, holders, files, written, maker>>

\* flock, without waiting.
Claim(p) ==
    /\ image[p] = "opened"
    /\ IF holders[0] = {}
       THEN /\ Becomes(p, "writing")
            /\ writes' = [writes EXCEPT ![p] = 0]
            /\ holders' = [holders EXCEPT ![0] = {p}]
       ELSE Becomes(p, "refused") /\ UNCHANGED <<writes, holders>>
    /\ UNCHANGED <<name, tmp, files, written, maker>>

\* A sibling is whole, and locked, before it has its name.
MakeSibling(p) ==
    /\ image[p] = "refused" /\ files < MaxFiles
    /\ files' = files + 1
    /\ tmp' = [tmp EXCEPT ![p] = files']
    /\ holders' = [holders EXCEPT ![files'] = {p}]
    /\ maker' = [maker EXCEPT ![files'] = p]
    /\ Becomes(p, "naming")
    /\ UNCHANGED <<writes, name, written>>

NameSibling(p) ==
    /\ image[p] = "naming"
    /\ IF tmp[p] = NoFile
       THEN Becomes(p, "inert") /\ UNCHANGED <<writes, name>>
       ELSE /\ Becomes(p, "writing")
            /\ name' = [name EXCEPT ![p] = tmp[p]]
            /\ writes' = [writes EXCEPT ![p] = tmp[p]]
    /\ tmp' = [tmp EXCEPT ![p] = NoFile]
    /\ UNCHANGED <<holders, files, written, maker>>

-----------------------------------------------------------------------------
(* The processes.                                                          *)

WriteFrame(p) ==
    /\ image[p] = "writing" /\ written[writes[p]] < MaxFrames
    /\ written' = [written EXCEPT ![writes[p]] = @ + 1]
    /\ UNCHANGED <<image, writes, name, tmp, holders, files, maker>>

Exists(p) == image[p] \notin {"none", "exited"}
Settled(p) == image[p] \in {"writing", "forked", "inert"}

\* A forked child has the parent's descriptors, and writes nowhere.
ForkProcess(p, c) ==
    /\ Settled(p) /\ image[c] = "none"
    /\ Becomes(c, "forked")
    /\ holders' = [f \in Files |-> IF p \in holders[f] THEN holders[f] \cup {c}
                                   ELSE holders[f]]
    /\ UNCHANGED <<writes, name, tmp, files, written, maker>>

\* posix_spawn: the descriptors are closed on exec.
SpawnProcess(p, c) ==
    /\ Settled(p) /\ image[c] = "none"
    /\ Becomes(c, "starting")
    /\ UNCHANGED <<writes, name, tmp, holders, files, written, maker>>

Leaves(p, what) ==
    /\ Becomes(p, what)
    /\ writes' = [writes EXCEPT ![p] = NoFile]
    /\ holders' = [f \in Files |-> holders[f] \ {p}]
    /\ UNCHANGED <<name, tmp, files, written, maker>>

Exec(p) == Settled(p) /\ Leaves(p, "starting")
ExitProcess(p) == Exists(p) /\ Leaves(p, "exited")

ProcessStep ==
    /\ \E p \in Pids :
        \/ OpenMain(p) \/ Claim(p) \/ MakeSibling(p) \/ NameSibling(p)
        \/ WriteFrame(p) \/ Exec(p) \/ ExitProcess(p)
        \/ \E c \in Pids : ForkProcess(p, c) \/ SpawnProcess(p, c)
    /\ UNCHANGED <<probeVars, recordVars>>

-----------------------------------------------------------------------------
(* The probe.  Cancelled, it returns without another pass.                 *)

\* ring_family.
Family == {n \in Names : name[n] # NoFile}

\* A name already drained is not opened again.
Look == [n \in DOMAIN opened \cup Family |->
            IF n \in DOMAIN opened THEN opened[n] ELSE name[n]]

Aged(f) == IF age[f] < ScanEvery /\ \E n \in Names : name[n] = f
           THEN age[f] + 1 ELSE age[f]

Pass ==
    /\ stage \in {"running", "waiting"}
    /\ passes' = (passes + 1) % ScanEvery
    /\ IF passes = 0
       THEN opened' = Look /\ seen' = seen \cup {name[n] : n \in Family}
       ELSE UNCHANGED <<opened, seen>>
    /\ drained' = [f \in Files |-> IF \E n \in DOMAIN opened' : opened'[n] = f
                                     THEN written[f] ELSE drained[f]]
    /\ age' = [f \in Files |-> Aged(f)]
    /\ waited' = IF stage = "waiting" /\ waited < DrainWait
                 THEN waited + 1 ELSE waited
    /\ UNCHANGED <<image, writes, name, tmp, holders, files, written, maker,
                   recordVars>>

-----------------------------------------------------------------------------
(* record.                                                                 *)

CommandOver ==
    /\ stage = "running" /\ image[Command] = "exited"
    /\ stage' = "waiting" /\ due' = written
    /\ UNCHANGED <<image, writes, name, tmp, holders, files, written, maker,
                   probeVars>>

\* Mutant: at once.
DetachAtOnce ==
    /\ stage = "waiting" /\ stage' = "detached"
    /\ UNCHANGED <<image, writes, name, tmp, holders, files, written, maker,
                   due, probeVars>>

\* After the wait, in which the probe makes its passes.
Detach ==
    /\ stage = "waiting" /\ waited >= DrainWait
    /\ stage' = "detached"
    /\ UNCHANGED <<image, writes, name, tmp, holders, files, written, maker,
                   due, probeVars>>

\* remove_ring_family: the ring, then what is found beside it.
UnlinkMain ==
    /\ stage = "detached" /\ stage' = "unlinking"
    /\ name' = [name EXCEPT ![Main] = NoFile]
    /\ UNCHANGED <<image, writes, tmp, holders, files, written, maker, due, probeVars>>

UnlinkSiblings ==
    /\ stage = "unlinking" /\ stage' = "over"
    /\ name' = [n \in Names |-> NoFile] /\ tmp' = [p \in Pids |-> NoFile]
    /\ UNCHANGED <<image, writes, holders, files, written, maker, due, probeVars>>

FamilyNext == \/ ProcessStep \/ Pass
              \/ CommandOver \/ Detach \/ UnlinkMain \/ UnlinkSiblings

FamilySpec == FamilyInit /\ [][FamilyNext]_familyVars

-----------------------------------------------------------------------------
(* Properties.                                                             *)

\* Of all the processes below the command, launched, forked or re-executed in
\* any order, one writes a ring at a time.
OneWriterPerRing ==
    \A p, q \in Pids : writes[p] # NoFile /\ writes[p] = writes[q] => p = q

\* When record detaches the probe, everything written before its command was
\* over is in the session -- of a ring that has had its name for the time
\* between two looks, and is not the second one of its name.
FirstOfItsName(f) == \A g \in 1 .. f - 1 : maker[g] # maker[f]
FamilyIsDrained ==
    stage = "detached" =>
        \A f \in Files :
            f = 0 \/ (age[f] >= ScanEvery /\ FirstOfItsName(f))
                => drained[f] >= due[f]

FamilyIsSound == OneWriterPerRing /\ FamilyIsDrained

\* ring.c:35: every other process creates its own ring, "which the daemon
\* drains too".  Violated: a process that made a ring and then executes a
\* hooked program makes another one under the same name, and the probe knows
\* the rings it drains by their names.
FoundIsDrained == seen \subseteq {opened[n] : n \in DOMAIN opened}
=============================================================================
