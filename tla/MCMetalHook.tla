------------------------------ MODULE MCMetalHook ------------------------------
(***************************************************************************)
(* The hook's side on small instances: one ring at every memory access     *)
(* (Ring), the rings of one recording (RingFamily), or what the hook keeps *)
(* of an application's command buffers (MetalHook).  They share no state:  *)
(* each behaviour is about one of them ("focus").                          *)
(***************************************************************************)
EXTENDS MCRing, RingFamily, MetalHook

CONSTANTS c1, c2, c3, b1, b2

VARIABLE focus

Interchangeable == ThreadSymmetry \cup Permutations(Pids \ {Command})
                   \cup Permutations(Buffers)

FocusInit == /\ focus \in {"ring", "family", "hook"}
             /\ Init /\ FamilyInit /\ HookInit

FocusNext ==
    \/ focus = "ring" /\ Next /\ UNCHANGED <<focus, familyVars, hookVars>>
    \/ focus = "family" /\ FamilyNext /\ UNCHANGED <<focus, vars, hookVars>>
    \/ focus = "hook" /\ HookNext /\ UNCHANGED <<focus, vars, familyVars>>

FocusSpec == FocusInit /\ [][FocusNext]_<<focus, vars, familyVars, hookVars>>
=============================================================================
