----------------------------- MODULE MediaStream -----------------------------
(***************************************************************************)
(* GET /media/events for one user: the pages that read it (apps/web/src/   *)
(* lib/media/events.ts), the handler of each connection and the one Redis  *)
(* subscriber of the API process (MediaEventsService and its controller).  *)
(*                                                                         *)
(* MediaEventsService keeps a Map from the user's channel to a Set of      *)
(* listeners.  A handler that waits for SUBSCRIBE holds on to the Set it   *)
(* found, so Sets have an identity here: a number, 0 for `undefined`.      *)
(***************************************************************************)
EXTENDS Naturals, Sequences, FiniteSets

CONSTANTS Viewers,       \* pages with the logged-in area mounted
          Connections,   \* requests the server can have at once
          OfflineAfter,  \* OFFLINE_AFTER: failures until a page says so
          NoConnection

ASSUME MediaStreamAssumption ==
    OfflineAfter \in Nat \ {0} /\ NoConnection \notin Connections /\ IsFiniteSet(Connections)

VARIABLES
    loop,        \* per page: asking for the stream, reading it, pausing, or stopped
    missed,      \* per page, `failures` (up to OfflineAfter)
    at,          \* per page, the connection it reads
    handler,     \* per connection, what its handler is doing and the Set it has
    listeners,   \* the Set in the Map, with who is in it
    wire,        \* commands the subscriber has sent and Redis has not answered
    subscribed,  \* is the process subscribed to the channel in Redis?
    refused      \* did the SUBSCRIBE that should open the Set in the Map fail?

streamVars == <<loop, missed, at, handler, listeners, wire, subscribed, refused>>

NoHandler == [step |-> "none", set |-> 0]
NoListeners == [id |-> 0, members |-> {}]
Unsubscribe == NoConnection   \* in `wire`; SUBSCRIBE is its connection
SetIds == 0 .. Cardinality(Connections) + 1

MediaStreamTypeOK ==
    /\ loop \in [Viewers -> {"asking", "reading", "pausing", "stopped"}]
    /\ missed \in [Viewers -> 0 .. OfflineAfter]
    /\ at \in [Viewers -> Connections \cup {NoConnection}]
    /\ handler \in [Connections ->
          [step: {"none", "subscribing", "abandoned", "live", "broken"}, set: SetIds]]
    /\ listeners \in [id: SetIds, members: SUBSET Connections]
    /\ \A c \in listeners.members : handler[c].step = "live" /\ handler[c].set = listeners.id
    /\ wire \in Seq(Connections \cup {Unsubscribe})
    /\ subscribed \in BOOLEAN /\ refused \in BOOLEAN
    /\ \A v \in Viewers : loop[v] = "reading" <=> at[v] # NoConnection

MediaStreamInit ==
    /\ loop = [v \in Viewers |-> "asking"]
    /\ missed = [v \in Viewers |-> 0]
    /\ at = [v \in Viewers |-> NoConnection]
    /\ handler = [c \in Connections |-> NoHandler]
    /\ listeners = NoListeners
    /\ wire = <<>> /\ subscribed = FALSE /\ refused = FALSE
-----------------------------------------------------------------------------
(* MediaEventsService and MediaEventsController. *)

NewSetId == CHOOSE g \in SetIds \ {0} :
    g # listeners.id /\ \A c \in Connections : handler[c].set # g

\* The function subscribe returns: the listener leaves the Set that is in the
\* Map now; the one that empties it takes it out and unsubscribes.
Leave(c, map, commands) ==
    LET left == map.members \ {c}
    IN  IF map.id # 0 /\ left = {}
        THEN listeners' = NoListeners /\ wire' = Append(commands, Unsubscribe) /\ refused' = FALSE
        ELSE listeners' = [map EXCEPT !.members = left] /\ wire' = commands /\ UNCHANGED refused

\* stream, up to its await: 200 is written, then the first connection of the
\* user makes the Set and subscribes; another one joins the Set at once.
Accept(v, c) ==
    /\ loop[v] = "asking" /\ handler[c].step = "none"
    /\ loop' = [loop EXCEPT ![v] = "reading"]
    /\ missed' = [missed EXCEPT ![v] = 0]
    /\ at' = [at EXCEPT ![v] = c]
    /\ IF listeners.id = 0
       THEN /\ listeners' = [id |-> NewSetId, members |-> {}]
            /\ handler' = [handler EXCEPT ![c] = [step |-> "subscribing", set |-> NewSetId]]
            /\ wire' = Append(wire, c)
       ELSE /\ listeners' = [listeners EXCEPT !.members = @ \cup {c}]
            /\ handler' = [handler EXCEPT ![c] = [step |-> "live", set |-> listeners.id]]
            /\ UNCHANGED wire
    /\ UNCHANGED <<subscribed, refused>>

\* Mutant: the handler does not look whether the client has gone.
SubscribeAnsweredBlindly ==
    LET c == Head(wire)
    IN  /\ wire # <<>> /\ c # Unsubscribe
        /\ subscribed' = TRUE
        /\ handler' = [handler EXCEPT ![c].step = "live"]
        /\ listeners' = IF handler[c].set = listeners.id
                        THEN [listeners EXCEPT !.members = @ \cup {c}] ELSE listeners
        /\ wire' = Tail(wire)
        /\ UNCHANGED <<loop, missed, at, refused>>

\* SUBSCRIBE is answered and the handler goes on: it joins the Set it made,
\* whether or not that is still the one in the Map, and leaves at once if the
\* client has gone.
SubscribeAnswered ==
    LET c == Head(wire)
        joined == IF handler[c].set = listeners.id
                  THEN [listeners EXCEPT !.members = @ \cup {c}] ELSE listeners
    IN  /\ wire # <<>> /\ c # Unsubscribe
        /\ subscribed' = TRUE
        /\ IF handler[c].step = "abandoned"
           THEN handler' = [handler EXCEPT ![c] = NoHandler] /\ Leave(c, joined, Tail(wire))
           ELSE /\ handler' = [handler EXCEPT ![c].step = "live"]
                /\ listeners' = joined /\ wire' = Tail(wire) /\ UNCHANGED refused
        /\ UNCHANGED <<loop, missed, at>>

\* SUBSCRIBE fails: the handler is over, with the answer already begun; the
\* Set it made stays in the Map.
SubscribeFails ==
    LET c == Head(wire)
    IN  /\ wire # <<>> /\ c # Unsubscribe
        /\ handler' = [handler EXCEPT ![c] =
              IF @.step = "abandoned" THEN NoHandler ELSE [step |-> "broken", set |-> 0]]
        /\ refused' = (refused \/ handler[c].set = listeners.id)
        /\ wire' = Tail(wire)
        /\ UNCHANGED <<loop, missed, at, listeners, subscribed>>

UnsubscribeAnswered ==
    /\ wire # <<>> /\ Head(wire) = Unsubscribe
    /\ subscribed' = FALSE /\ wire' = Tail(wire)
    /\ UNCHANGED <<loop, missed, at, handler, listeners, refused>>

\* The connection of page v closes; its handler hears of it, now or, while it
\* waits for SUBSCRIBE, when it goes on.
Close(v) ==
    LET c == at[v]
    IN  /\ at' = [at EXCEPT ![v] = NoConnection]
        /\ CASE handler[c].step = "live" ->
                  handler' = [handler EXCEPT ![c] = NoHandler] /\ Leave(c, listeners, wire)
             [] handler[c].step = "subscribing" ->
                  /\ handler' = [handler EXCEPT ![c].step = "abandoned"]
                  /\ UNCHANGED <<listeners, wire, refused>>
             [] OTHER ->
                  /\ handler' = [handler EXCEPT ![c] = NoHandler]
                  /\ UNCHANGED <<listeners, wire, refused>>
        /\ UNCHANGED subscribed
-----------------------------------------------------------------------------
(* startMediaEvents. *)

ServerUnchanged == UNCHANGED <<at, handler, listeners, wire, subscribed, refused>>

Failed(v) ==
    /\ missed' = [missed EXCEPT ![v] = IF @ < OfflineAfter THEN @ + 1 ELSE @]
    /\ loop' = [loop EXCEPT ![v] = "pausing"]

\* The network, a 5xx, or a 401 that is not worth another try now.
AskFails(v) == loop[v] = "asking" /\ Failed(v) /\ ServerUnchanged

\* 401: refreshSession has renewed the session, and nothing failed before.
AskAgain(v) ==
    /\ loop[v] = "asking" /\ missed[v] = 0
    /\ missed' = [missed EXCEPT ![v] = 1]
    /\ UNCHANGED loop /\ ServerUnchanged

\* 401, and the session is over.
SessionOver(v) ==
    /\ loop[v] = "asking"
    /\ loop' = [loop EXCEPT ![v] = "stopped"]
    /\ UNCHANGED missed /\ ServerUnchanged

\* The server ends the stream when the access token expires: a short pause,
\* no failure.  Only a handler that went past its await has that timer.
StreamEnds(v) ==
    /\ loop[v] = "reading" /\ handler[at[v]].step = "live"
    /\ loop' = [loop EXCEPT ![v] = "pausing"]
    /\ Close(v)
    /\ UNCHANGED missed

StreamDrops(v) == loop[v] = "reading" /\ Failed(v) /\ Close(v)

PauseEnds(v) ==
    /\ loop[v] = "pausing"
    /\ loop' = [loop EXCEPT ![v] = "asking"]
    /\ UNCHANGED missed /\ ServerUnchanged

\* The logged-in area is unmounted (abort), and mounted again.
Unmount(v) ==
    /\ loop[v] # "stopped"
    /\ loop' = [loop EXCEPT ![v] = "stopped"]
    /\ UNCHANGED missed
    /\ IF loop[v] = "reading" THEN Close(v) ELSE ServerUnchanged

Mount(v) ==
    /\ loop[v] = "stopped"
    /\ loop' = [loop EXCEPT ![v] = "asking"]
    /\ missed' = [missed EXCEPT ![v] = 0]
    /\ ServerUnchanged

MediaStreamNext ==
    \/ \E v \in Viewers :
         \/ \E c \in Connections : Accept(v, c)
         \/ AskFails(v) \/ AskAgain(v) \/ SessionOver(v) \/ StreamEnds(v)
         \/ StreamDrops(v) \/ PauseEnds(v) \/ Unmount(v) \/ Mount(v)
    \/ SubscribeAnswered \/ SubscribeFails \/ UnsubscribeAnswered

MediaStreamSpec == MediaStreamInit /\ [][MediaStreamNext]_streamVars
-----------------------------------------------------------------------------
(* Properties. *)

\* Once Redis has answered everything, the process is subscribed exactly while
\* the Map has a Set of the user whose SUBSCRIBE worked, and it has none once
\* every page has gone: pages that leave during their SUBSCRIBE, or together
\* with another, leave no subscription behind (the leak tests of
\* MediaEventsService.stats reach one order).
ChannelIsReleased == wire = <<>> =>
    /\ subscribed <=> listeners.id # 0 /\ ~refused
    /\ (\A v \in Viewers : at[v] = NoConnection) => listeners.id = 0 \/ refused
=============================================================================
