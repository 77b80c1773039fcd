------------------------------- MODULE MCDaemon -------------------------------
(***************************************************************************)
(* Small instances of the daemon's process (Daemon, which extends          *)
(* Supervisor) and of what observes its events (Subscriber, which extends  *)
(* PostMortem).  They share no state: each behaviour is about one of them  *)
(* ("focus"), and the other one stays in a state where nothing happens.    *)
(***************************************************************************)
EXTENDS Daemon, Subscriber, TLC

CONSTANTS d1, d2, d3, h1, h2, p1, p2

\* Two daemons of one home, and one with a home of its own.
TwoHomes == d1 :> h1 @@ d2 :> h1 @@ d3 :> h2

VARIABLE focus

NobodyPublishes == publisher[p1] = Quiet /\ publisher[p2] = Quiet
FeedRest == client = "gone" /\ clock = MaxTime /\ panics = MaxPanics /\ NobodyPublishes
DaemonRest == cli = "over" /\ pidFile = [h \in Homes |-> NoFile] /\ socket = NoFile

\* Of the observers: all of the recorder and the gate, in time; panics of any
\* thread, at a moment; a client, one publisher and panics.
Foci ==
    \/ focus = "daemon" /\ FeedRest /\ cli = "idle"
    \/ /\ focus = "feed" /\ DaemonRest
       /\ \/ client = "gone" /\ clock = 0 /\ panics = MaxPanics /\ NobodyPublishes
          \/ client = "gone" /\ clock = MaxTime /\ panics = 0 /\ NobodyPublishes
          \/ /\ client = "connecting" /\ clock = MaxTime /\ panics = 0
             /\ publisher[p1] = Quiet /\ publisher[p2] = Idle

MCVars == <<focus, vars, allVars>>

MCInit == Init /\ FeedInit /\ Foci

MCNext == \/ focus = "daemon" /\ Next /\ UNCHANGED <<focus, allVars>>
          \/ focus = "feed" /\ FeedNext /\ UNCHANGED <<focus, vars>>

\* DaemonFairness and FeedFairness, evaluated where they matter.
FocusFairness ==
    /\ \A p \in Procs : WF_vars(focus = "daemon" /\ DaemonStep(p))
    /\ WF_vars(focus = "daemon" /\ ProbeStep)
    /\ WF_vars(focus = "daemon" /\ CliStep)
    /\ WF_allVars(focus = "feed" /\ HookStep /\ ConnectionLost)
    /\ WF_allVars(focus = "feed" /\ Restart /\ ConnectionLost)
    /\ WF_allVars(focus = "feed" /\ HandlerStep /\ UNCHANGED pmVars)
    /\ WF_allVars(focus = "feed" /\ ClientStep /\ UNCHANGED pmVars)

MCSpec == MCInit /\ [][MCNext]_MCVars /\ FocusFairness
=============================================================================
