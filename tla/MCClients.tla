------------------------------- MODULE MCClients -------------------------------
(***************************************************************************)
(* Small instances of the daemon's clients: a recording (Recording), the   *)
(* Python sidecar's connection (SidecarClient), the handlers the sidecar   *)
(* hooks in its program and the imports it waits for (SidecarHooks).  They *)
(* share no state: each behaviour is about one of them ("focus"), and the  *)
(* others stay in an initial state.                                        *)
(***************************************************************************)
EXTENDS Recording, SidecarClient, SidecarHooks

CONSTANTS c1, c2, s1, s2, m1, m2

VARIABLE focus

MCVars == <<focus, vars, sidecarVars, hookVars>>

\* A program that sets handlers has imported its libraries before.
MCInit ==
    /\ Init /\ SidecarInit /\ HooksInit
    /\ focus \in {"recording", "connection", "handlers", "imports"}
    /\ focus # "connection" => Forked
    /\ focus # "imports" => \A m \in Libraries : lib[m] = "loaded"

\* Recordings are alike, and so are threads: the first to connect is c1, the
\* first to emit is s1.
FirstConnects == client'[c1] = "new" => client'[c2] = "new"
FirstEmits == emitted = 0 => emitter'[s2] = Quiet

MCNext ==
    \/ /\ focus = "recording" /\ Next /\ FirstConnects
       /\ UNCHANGED <<focus, sidecarVars, hookVars>>
    \/ /\ focus = "connection" /\ SidecarNext /\ FirstEmits
       /\ UNCHANGED <<focus, vars, hookVars>>
    \/ focus = "handlers" /\ HooksNext /\ UNCHANGED <<focus, vars, sidecarVars>>
    \/ /\ focus = "imports" /\ HooksNext
       /\ UNCHANGED <<focus, vars, sidecarVars, changes>>

\* Fairness and SidecarFairness, evaluated where they matter.
FocusFairness ==
    /\ WF_vars(focus = "recording" /\ Going)
    /\ \A t \in Emitters :
          WF_sidecarVars(focus = "connection" /\ EmitStep(t))
    /\ WF_sidecarVars(focus = "connection" /\ SenderStep)
    /\ WF_sidecarVars(focus = "connection" /\ CloseStep)
    /\ WF_sidecarVars(focus = "connection" /\ Serve)
    /\ WF_sidecarVars(focus = "connection" /\ Restart)

MCSpec == MCInit /\ [][MCNext]_MCVars /\ FocusFairness
=============================================================================
