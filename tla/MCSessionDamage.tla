--------------------------- MODULE MCSessionDamage ---------------------------
(***************************************************************************)
(* Small instances of SessionDamage: up to three one-event units on a disk *)
(* that works, left by finalize or by a crash anywhere.                    *)
(***************************************************************************)
EXTENDS SessionDamage

OneEvent == {[size |-> 0, ts |-> 0, source |-> 0]}
NoFilters == {}
AnyLength == 0 .. 6
AnyOffset == 0 .. 6
NoOffset == {}
=============================================================================
