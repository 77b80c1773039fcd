----------------------------- MODULE MCLivePolls -----------------------------
(* The small instances of MCSessionWriter, with a client that polls.       *)
EXTENDS MCSessionWriter, LivePolls
=============================================================================
