------------------------------ MODULE LivePolls ------------------------------
(***************************************************************************)
(* An MCP client that follows a session while the daemon writes it         *)
(* (crates/smeltr-mcp/src/tools/subscribe_live.rs).  Each poll reads the   *)
(* metadata, then the events, and answers with the events past the cursor  *)
(* and with the number of events read as the next cursor; the client       *)
(* passes it to its next poll and stops when the session is reported as    *)
(* finalized.                                                              *)
(***************************************************************************)
EXTENDS SessionWriter

VARIABLES
  polling,      \* a poll has read the metadata and not yet the events
  live,         \* what it read: the session has not ended
  pollCursor,   \* the client's cursor
  polled        \* the events the client was told of, in order

pollVars == <<polling, live, pollCursor, polled>>

PollInit == polling = FALSE /\ live = TRUE /\ pollCursor = 0 /\ polled = <<>>

IsLive == meta.count = -1

PollMeta ==
    /\ ~polling /\ live
    /\ polling' = TRUE
    /\ live' = IsLive
    /\ UNCHANGED <<vars, pollCursor, polled>>

\* Mutant: the events past the cursor start one early.
DeltaFromCursor(events) ==
    SubSeq(events, IF pollCursor = 0 THEN 1 ELSE pollCursor, Len(events))
Delta(events) ==
    LET cursorNow == IF pollCursor > Len(events) THEN Len(events) ELSE pollCursor
    IN  SubSeq(events, cursorNow + 1, Len(events))

PollEvents ==
    /\ polling
    /\ polling' = FALSE
    /\ polled' = polled \o Delta(Stored)
    /\ pollCursor' = Len(Stored)
    /\ UNCHANGED <<vars, live>>

PollNext == (Next /\ UNCHANGED pollVars) \/ PollMeta \/ PollEvents

PolledSpec == Init /\ PollInit /\ [][PollNext]_<<vars, pollVars>>

-----------------------------------------------------------------------------
(* What the polls reported is, at any moment, a beginning of what the file *)
(* will still be read as, no event twice or left out, whatever is torn,    *)
(* cut, retried or crashes between two polls; and when a poll reports the  *)
(* session finalized, everything in it was reported.                       *)
PollsContinue ==
    /\ IsPrefix(polled, Stored)
    /\ ~live /\ ~polling => /\ polled = Stored
                            /\ ToSet(polled) = (1 .. Len(log)) \ lost
=============================================================================
