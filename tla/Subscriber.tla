------------------------------ MODULE Subscriber ------------------------------
(***************************************************************************)
(* A client of the daemon's event feed: server.rs:stream_events on the     *)
(* daemon's side of the connection, client.rs on the other.                *)
(*                                                                         *)
(* The handler reads the bus at its own pace and writes to a socket that   *)
(* takes a few frames; the client reads them, and connects again when the  *)
(* connection or the daemon is gone.  What is published, and when the      *)
(* daemon dies, is PostMortem.                                             *)
(***************************************************************************)
EXTENDS PostMortem

CONSTANTS PipeMax,       \* frames the socket holds
          MaxTimeouts    \* bound: frames whose body comes too late

ASSUME SubscriberAssumption == PipeMax \in Nat \ {0} /\ MaxTimeouts \in Nat

VARIABLES
    client,            \* subscribe_events_reconnecting; its backoff is any time
    midFrame,          \* whether the client reads from the middle of a frame
    handler,           \* its place, the bus position read, the event in hand
    pipe,              \* frames on their way to the client: bus positions
    timeouts,
    since, received,   \* history: where the handler subscribed; frames taken
    skipped            \* history: bus positions a lag has passed over

connection == <<handler, pipe, since, received, skipped>>
clientVars == <<client, midFrame, timeouts>>
subVars == <<connection, clientVars>>
allVars == <<pmVars, subVars>>

Ack == 0
NoHandler == [at |-> "none", pos |-> 0, event |-> 0]

\* A connection that is over leaves nothing.
Disconnected ==
    /\ handler' = NoHandler /\ pipe' = <<>> /\ since' = 0
    /\ received' = <<>> /\ skipped' = {}

\* A client that tries to connect, or none.
SubInit ==
    /\ client \in {"connecting", "gone"} /\ midFrame = FALSE
    /\ handler = NoHandler /\ pipe = <<>> /\ timeouts = 0
    /\ since = 0 /\ received = <<>> /\ skipped = {}

-----------------------------------------------------------------------------
(* The handler.                                                            *)

HandlerAt(place) == life = "up" /\ handler.at = place
HandlerGoes(place) == handler' = [handler EXCEPT !.at = place]

\* The Ack is written before the bus is subscribed to.
WriteAck ==
    /\ HandlerAt("ack") /\ HandlerGoes("subscribe")
    /\ pipe' = Append(pipe, Ack)
    /\ UNCHANGED <<since, received, skipped, clientVars>>

Subscribe ==
    /\ HandlerAt("subscribe")
    /\ handler' = [at |-> "recv", pos |-> Len(feed), event |-> 0]
    /\ since' = Len(feed)
    /\ UNCHANGED <<pipe, received, skipped, clientVars>>

HandlerRecv ==
    /\ HandlerAt("recv") /\ handler.pos < Len(feed)
    /\ IF Lagged(handler.pos)
       THEN /\ handler' = [handler EXCEPT !.pos = Oldest]
            /\ skipped' = skipped \cup (handler.pos + 1 .. Oldest)
       ELSE /\ handler' = [at |-> "write", pos |-> handler.pos + 1,
                           event |-> handler.pos + 1]
            /\ UNCHANGED skipped
    /\ UNCHANGED <<pipe, since, received, clientVars>>

HandlerWrite ==
    /\ HandlerAt("write") /\ HandlerGoes("recv")
    /\ Len(pipe) < PipeMax /\ pipe' = Append(pipe, handler.event)
    /\ UNCHANGED <<since, received, skipped, clientVars>>

HandlerStep == WriteAck \/ Subscribe \/ HandlerRecv \/ HandlerWrite

-----------------------------------------------------------------------------
(* The client.                                                             *)

BackOff == /\ Disconnected
           /\ client' = "sleeping" /\ midFrame' = FALSE

Connect ==
    /\ client = "connecting"
    /\ \/ /\ life = "up" /\ client' = "acking"
          /\ handler' = [NoHandler EXCEPT !.at = "ack"]
          /\ UNCHANGED <<pipe, since, received, skipped, midFrame>>
       \/ life = "down" /\ BackOff
    /\ UNCHANGED timeouts

ReadAck ==
    /\ client = "acking" /\ pipe # <<>>
    /\ client' = "streaming" /\ pipe' = Tail(pipe)
    /\ UNCHANGED <<handler, since, received, skipped, midFrame, timeouts>>

ReadEvent ==
    /\ client = "streaming" /\ pipe # <<>> /\ ~midFrame
    /\ received' = Append(received, Head(pipe)) /\ pipe' = Tail(pipe)
    /\ UNCHANGED <<handler, since, skipped, clientVars>>

\* The length has arrived and the body has not, in FRAME_BODY_TIMEOUT: what
\* was read is lost, the rest of the frame comes later.
ReadTimesOut ==
    /\ client = "streaming" /\ pipe # <<>> /\ ~midFrame
    /\ timeouts < MaxTimeouts /\ timeouts' = timeouts + 1
    /\ midFrame' = TRUE
    /\ UNCHANGED <<connection, client>>

\* Bytes of a body read as a frame: too large or not decodable, an error; or
\* short of a body and waited for, with the frames after it.
ReadMidFrame ==
    /\ client = "streaming" /\ pipe # <<>> /\ midFrame
    /\ \/ BackOff
       \/ /\ pipe' = Tail(pipe)
          /\ UNCHANGED <<handler, since, received, skipped, client, midFrame>>
    /\ UNCHANGED timeouts

\* Mutant: the end of the stream is taken for a timeout.
ReadEofRetries ==
    /\ client = "acking" /\ handler.at = "none" /\ pipe = <<>>
    /\ BackOff
    /\ UNCHANGED timeouts

ReadEof ==
    /\ client \in {"acking", "streaming"} /\ handler.at = "none" /\ pipe = <<>>
    /\ BackOff
    /\ UNCHANGED timeouts

Awake ==
    /\ client = "sleeping" /\ client' = "connecting"
    /\ UNCHANGED <<connection, midFrame, timeouts>>

ClientStep == \/ Connect \/ ReadAck \/ ReadEvent \/ ReadMidFrame
              \/ ReadEof \/ Awake

SubStep == HandlerStep \/ ClientStep \/ ReadTimesOut

\* The kernel closes the connections of a daemon that is gone.
ConnectionLost ==
    \/ /\ life' = "down" /\ handler' = NoHandler
       /\ UNCHANGED <<pipe, since, received, skipped, clientVars>>
    \/ life' = "up" /\ UNCHANGED subVars

FeedInit == PMInit /\ SubInit

FeedNext == \/ PMNext /\ ConnectionLost
            \/ SubStep /\ UNCHANGED pmVars

\* The panic hook, a daemon started again, and both ends of the connection
\* do not stop half-way.
FeedFairness ==
    /\ WF_allVars(HookStep /\ ConnectionLost)
    /\ WF_allVars(Restart /\ ConnectionLost)
    /\ WF_allVars(HandlerStep /\ UNCHANGED pmVars)
    /\ WF_allVars(ClientStep /\ UNCHANGED pmVars)

FeedSpec == FeedInit /\ [][FeedNext]_allVars /\ FeedFairness

-----------------------------------------------------------------------------
(* Properties.                                                             *)

\* Over one connection the client gets the events of the bus in the order of
\* the bus, none twice, and misses only those that a lag of the handler has
\* passed over, however full the socket and however slow the client: as long
\* as no frame was cut by a timeout.
FeedIsContiguous ==
    /\ \A i \in 2 .. Len(received) : received[i - 1] < received[i]
    /\ handler.at \in {"recv", "write"} /\ client = "streaming" /\ ~midFrame =>
         LET inHand == IF handler.at = "write" THEN {handler.event} ELSE {}
             events == ToSet(received) \cup (ToSet(pipe) \ {Ack}) \cup inHand
         IN  /\ events \cup skipped = since + 1 .. handler.pos
             /\ events \cap skipped = {}

\* The client does not stay with a daemon that is gone: it streams again from
\* the next one, or from the one after it.
ClientFollows ==
    client # "gone" =>
      []<>(life = "down" \/ (client = "streaming" /\ handler.at # "none"))

\* The feed of a client: contiguous over a connection, and never the last one.
ClientIsServed == []FeedIsContiguous /\ ClientFollows
=============================================================================
