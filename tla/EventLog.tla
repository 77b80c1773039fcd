------------------------------- MODULE EventLog -------------------------------
(***************************************************************************)
(* What a session writer promises, whatever its batches, its files and the *)
(* disk do: events are numbered as they are accepted; those that reach the *)
(* file do so in that order and stay; the others are held in memory or     *)
(* given up, knowingly; a session that is closed leaves none in doubt.     *)
(***************************************************************************)
EXTENDS Integers, Sequences, SequencesExt

VARIABLES
    accepted,   \* number of events accepted
    stored,     \* those a reader of the file gets, in file order
    lost,       \* those given up
    open        \* the writer is running

logVars == <<accepted, stored, lost, open>>

Held == (1 .. accepted) \ (ToSet(stored) \cup lost)

\* The n oldest held events, for some n, in order of acceptance.
Oldest(S) == \A x \in S, y \in Held : y < x => y \in S

Init == accepted = 0 /\ stored = <<>> /\ lost = {} /\ open = TRUE

Accept == /\ open
          /\ accepted' = accepted + 1
          /\ UNCHANGED <<stored, lost, open>>

\* The events of S reach the file behind the others, in order of acceptance.
Extend(S) ==
    \E n \in 0 .. accepted : \E new \in [1 .. n -> S] :
        /\ \A i, j \in 1 .. n : i < j => new[i] < new[j]
        /\ \A x \in S : \E i \in 1 .. n : new[i] = x
        /\ stored' = stored \o new

Store == /\ open
         /\ \E S \in SUBSET Held : S # {} /\ Oldest(S) /\ Extend(S)
         /\ UNCHANGED <<accepted, lost, open>>

GiveUp == /\ open
          /\ \E S \in SUBSET Held : S # {} /\ lost' = lost \cup S
          /\ UNCHANGED <<accepted, stored, open>>

\* A clean end leaves no event in memory.
Close == /\ open
         /\ Held = {}
         /\ open' = FALSE
         /\ UNCHANGED <<accepted, stored, lost>>

\* A crash may fall right after a write, and takes what memory held.
Crash == /\ open
         /\ \E S \in SUBSET Held : Oldest(S) /\ Extend(S)
         /\ open' = FALSE
         /\ UNCHANGED <<accepted, lost>>

Next == Accept \/ Store \/ GiveUp \/ Close \/ Crash

Spec == Init /\ [][Next]_logVars
=============================================================================
