-------------------------------- MODULE Replay --------------------------------
(***************************************************************************)
(* Replaying a session in the TUI (crates/smeltr-tui/src/scrub.rs and      *)
(* app.rs): a cursor over the events, moved by a virtual clock that plays  *)
(* at some speed, and by seeks.  Moving forward feeds the screen the       *)
(* events passed; moving back rebuilds it from the first one.              *)
(***************************************************************************)
EXTENDS Integers, Sequences, FiniteSets, FiniteSetsExt, Functions

CONSTANTS
  Recordings,      \* the event times of sessions, in file order
  Speeds,          \* playing speeds, 0 for "as fast as possible"
  Seconds          \* what a seek key may move by

ASSUME ReplayAssumption ==
    /\ Recordings \subseteq Seq(Nat) \ {<<>>} /\ Speeds \subseteq Nat
    /\ Seconds \subseteq Int

VARIABLES
  timeline,        \* times of the events, sorted
  speed, playing,
  position,          \* events passed
  clock,           \* virtual_ns
  folded,           \* the events the screen's state was folded from, in order
  cleared          \* history: events passed when the user cleared the screen

replayVars == <<timeline, speed, playing, position, clock, folded, cleared>>

Rel(i) == timeline[i] - timeline[1]
Duration == Rel(Len(timeline))
AtEnd == position >= Len(timeline) /\ clock >= Duration
Slice(from, to) == [n \in 1 .. to - from |-> from + n]

\* The same times in increasing order: there is one such sequence.
InOrder(r) ==
    {t \in {[i \in DOMAIN r |-> r[p[i]]] : p \in Bijection(DOMAIN r, DOMAIN r)} :
        \A i, j \in DOMAIN r : i <= j => t[i] <= t[j]}

\* new and set_scrub: speed 0 opens fully played.
ReplayInit ==
    /\ \E r \in Recordings : timeline \in InOrder(r)
    /\ speed \in Speeds
    /\ playing = TRUE
    /\ position = IF speed = 0 THEN Len(timeline) ELSE 0
    /\ clock = IF speed = 0 THEN Duration ELSE 0
    /\ folded = Slice(0, position)
    /\ cleared = 0

\* The cursor after catch_up from "from".
CaughtUp(from, time) ==
    Max({from} \cup {i \in from + 1 .. Len(timeline) :
                        \A j \in from + 1 .. i : Rel(j) <= time})

Forward(time) ==
    /\ clock' = time
    /\ position' = CaughtUp(position, time)
    /\ folded' = folded \o Slice(position, position')
    /\ UNCHANGED cleared

\* Mutant: the cursor stays where it was.
RewindFromCursor(time) ==
    /\ clock' = time
    /\ position' = CaughtUp(position, time)
    /\ folded' = Slice(0, position')
    /\ cleared' = 0

Rewind(time) ==
    /\ clock' = time
    /\ position' = CaughtUp(0, time)
    /\ folded' = Slice(0, position')
    /\ cleared' = 0

AdvanceClock(dt) ==
    /\ playing /\ speed > 0 /\ ~AtEnd
    /\ Forward(Min({clock + dt * speed, Duration}))
    /\ UNCHANGED <<timeline, speed, playing>>

\* The arrow keys.  Already at the start, the screen is rebuilt as it is.
SeekBy(delta) ==
    LET target == Min({Max({clock + delta, 0}), Duration})
    IN  /\ \/ delta >= 0 /\ Forward(target)
           \/ delta < 0 /\ target < clock /\ Rewind(target)
           \/ /\ delta < 0 /\ target >= clock
              /\ folded' = Slice(0, position)
              /\ cleared' = 0
              /\ UNCHANGED <<position, clock>>
        /\ UNCHANGED <<timeline, speed, playing>>

\* Home and End.
SeekTo(time) ==
    LET target == Min({time, Duration})
    IN  /\ IF target >= clock THEN Forward(target) ELSE Rewind(target)
        /\ UNCHANGED <<timeline, speed, playing>>

Pause == /\ playing' = ~playing
         /\ UNCHANGED <<timeline, speed, position, clock, folded, cleared>>

\* The r key.
ClearScreen == /\ folded' = <<>>
               /\ cleared' = position
               /\ UNCHANGED <<timeline, speed, playing, position, clock>>

ReplayNext ==
    \/ AdvanceClock(1)
    \/ \E delta \in Seconds : SeekBy(delta)
    \/ SeekTo(0) \/ SeekTo(Duration)
    \/ Pause
    \/ ClearScreen

ReplaySpec == ReplayInit /\ [][ReplayNext]_replayVars

-----------------------------------------------------------------------------
(* The screen shows the moment the clock shows, however one got there:     *)
(* folded once, in time order, from exactly the events up to it that the   *)
(* user has not cleared away (from none yet before the first tick).        *)
ReplayShowsTheMoment ==
    /\ folded = Slice(cleared, position)
    /\ position # 0 => {i \in DOMAIN timeline : Rel(i) <= clock} = 1 .. position
    /\ position = 0 => clock = 0
=============================================================================
