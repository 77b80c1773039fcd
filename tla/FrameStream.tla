----------------------------- MODULE FrameStream -----------------------------
(***************************************************************************)
(* What the shared-memory ring of the Metal hook promises to the recording *)
(* daemon: a FIFO stream of frames that may refuse a frame when it is full *)
(* but then says so.                                                       *)
(*                                                                         *)
(* A frame is accepted or refused, never both and never half.  Accepted    *)
(* frames come out once each, in order and unaltered.  The count of        *)
(* refusals reported to the session never exceeds the refusals that        *)
(* happened.  The ring (module Ring) is shown to implement this.           *)
(***************************************************************************)
EXTENDS Naturals, Sequences

CONSTANT Frames  \* identities of the frames the traced application produces

VARIABLES
  accepted,   \* the frames the ring took, in the order it took them
  delivered,  \* the frames the daemon put into the session
  refused,    \* how many frames found the ring full
  reported    \* how many refusals the session has been told of

vars == <<accepted, delivered, refused, reported>>

Init ==
  /\ accepted = <<>>
  /\ delivered = <<>>
  /\ refused = 0
  /\ reported = 0

Accept(f) ==
  /\ \A i \in DOMAIN accepted : accepted[i] # f
  /\ accepted' = Append(accepted, f)
  /\ UNCHANGED <<delivered, refused, reported>>

Refuse ==
  /\ refused' = refused + 1
  /\ UNCHANGED <<accepted, delivered, reported>>

Deliver ==
  /\ Len(delivered) < Len(accepted)
  /\ delivered' = Append(delivered, accepted[Len(delivered) + 1])
  /\ UNCHANGED <<accepted, refused, reported>>

Report ==
  /\ reported < refused
  /\ reported' = refused
  /\ UNCHANGED <<accepted, delivered, refused>>

Next ==
  \/ \E f \in Frames : Accept(f)
  \/ Refuse
  \/ Deliver
  \/ Report

Spec == Init /\ [][Next]_vars
=============================================================================
