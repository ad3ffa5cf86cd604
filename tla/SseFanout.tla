----------------------------- MODULE SseFanout ------------------------------
(***************************************************************************)
(* Live events (src/src/realtime/sse.service.ts, sse.controller.ts): every *)
(* backend node publishes a user's events on one Redis channel, is         *)
(* subscribed to that channel, and writes what arrives to the streams of   *)
(* that user which are open on it.  Redis pub/sub forgets what a node that *)
(* is not subscribed at the moment would have got.                         *)
(***************************************************************************)
EXTENDS Naturals, SequencesExt

CONSTANTS
    Node,           \* backend containers
    User,           \* users
    Stream,         \* HTTP responses of GET /events/stream
    MaxEvents,      \* bound: events sent
    MaxFaults,      \* bound: lost Redis connections and restarted nodes
    Null            \* null

ASSUME SseAssumption == MaxEvents \in Nat /\ MaxFaults \in Nat /\ Null \notin Node \cup User

Event == [user : User, no : Nat]

VARIABLES
    sent,           \* events sent so far
    faults,         \* faults so far
    outbox,         \* events published by a node that Redis has not seen yet
    subscribed,     \* the nodes Redis forwards the channel to
    inbox,          \* messages on their way from Redis to a node
    timer,          \* heartbeatTimer is set
    owner,          \* the user of a stream, Null before it is first opened
    host,           \* the node of a stream, while its socket is open
    registered,     \* the streams in a node's clients map
    written,        \* what a stream's browser was sent
    due             \* the events sent to its node while it was open, and not lost

channel == <<outbox, subscribed, inbox>>
streams == <<owner, host, registered, written, due>>
sseVars == <<sent, faults, channel, timer, streams>>

SseTypeOK ==
    /\ sent \in Nat /\ faults \in Nat
    /\ outbox \in [Node -> Seq(Event)]
    /\ subscribed \subseteq Node
    /\ inbox \in [Node -> Seq(Event)]
    /\ timer \in [Node -> BOOLEAN]
    /\ owner \in [Stream -> User \cup {Null}]
    /\ host \in [Stream -> Node \cup {Null}]
    /\ registered \in [Node -> SUBSET Stream]
    /\ \A n \in Node : \A s \in registered[n] : owner[s] # Null
    /\ written \in [Stream -> Seq(Event)]
    /\ due \in [Stream -> SUBSET Event]

\* The nodes have just started: onModuleInit has set the timer, and the subscriber
\* connection is not ready yet.
SseInit ==
    /\ sent = 0 /\ faults = 0
    /\ outbox = [n \in Node |-> <<>>]
    /\ subscribed = {}
    /\ inbox = [n \in Node |-> <<>>]
    /\ timer = [n \in Node |-> TRUE]
    /\ owner = [s \in Stream |-> Null]
    /\ host = [s \in Stream |-> Null]
    /\ registered = [n \in Node |-> {}]
    /\ written = [s \in Stream |-> <<>>]
    /\ due = [s \in Stream |-> {}]

-----------------------------------------------------------------------------
(* Streams: streamEvents, addClient, removeClient *)

\* A new response, which takes the name of one that is gone for good.
\* streamEvents runs without an await from the guard to addClient.
Open(s, u, n) ==
    /\ host[s] = Null /\ \A m \in Node : s \notin registered[m]
    /\ owner' = [owner EXCEPT ![s] = u]
    /\ host' = [host EXCEPT ![s] = n]
    /\ registered' = [registered EXCEPT ![n] = @ \cup {s}]
    /\ written' = [written EXCEPT ![s] = <<>>]
    /\ due' = [due EXCEPT ![s] = {}]
    /\ UNCHANGED <<sent, faults, channel, timer>>

\* The browser goes away; the node hears of it later.
Leave(s) ==
    /\ host[s] # Null
    /\ host' = [host EXCEPT ![s] = Null]
    /\ UNCHANGED <<sent, faults, channel, timer, owner, registered, written, due>>

\* totalConnections, after the splice.
Remaining(s, n) == registered[n] \ {s}

\* The 'close' callback.  The last stream of a node takes the heartbeat with it.
Close(s, n) ==
    /\ s \in registered[n]
    /\ host[s] # n
    /\ registered' = [registered EXCEPT ![n] = @ \ {s}]
    /\ timer' = [timer EXCEPT ![n] = @ /\ Remaining(s, n) # {}]
    /\ UNCHANGED <<sent, faults, channel, owner, host, written, due>>

-----------------------------------------------------------------------------
(* Events: sendEvent, the channel, sendToLocalClients *)

\* Open streams of the event's user on a node.
Audience(n, e) == {s \in registered[n] : owner[s] = e.user /\ host[s] = n}

\* Mutant of SendEvent: the sender writes to its own streams, too.
SendAndWrite(n, u) ==
    LET e == [user |-> u, no |-> sent] IN
    /\ sent < MaxEvents
    /\ sent' = sent + 1
    /\ outbox' = [outbox EXCEPT ![n] = Append(@, e)]
    /\ written' = [s \in Stream |->
                      IF s \in Audience(n, e) THEN Append(written[s], e) ELSE written[s]]
    /\ UNCHANGED <<faults, subscribed, inbox, timer, owner, host, registered, due>>

\* redis.publish is not awaited; ioredis keeps commands in order.
SendEvent(n, u) ==
    /\ sent < MaxEvents
    /\ sent' = sent + 1
    /\ outbox' = [outbox EXCEPT ![n] = Append(@, [user |-> u, no |-> sent])]
    /\ UNCHANGED <<faults, subscribed, inbox, timer, streams>>

\* Redis takes the next message of a node and forwards it to all subscribers.
Forward(n) ==
    LET e == Head(outbox[n]) IN
    /\ outbox[n] # <<>>
    /\ outbox' = [outbox EXCEPT ![n] = Tail(@)]
    /\ inbox' = [m \in Node |-> IF m \in subscribed THEN Append(inbox[m], e) ELSE inbox[m]]
    /\ due' = [s \in Stream |->
                  IF \E m \in subscribed : s \in Audience(m, e) THEN due[s] \cup {e} ELSE due[s]]
    /\ UNCHANGED <<sent, faults, subscribed, timer, owner, host, registered, written>>

\* Mutant of Receive: only the newest message is written.
ReceiveNewest(n) ==
    LET e == Last(inbox[n]) IN
    /\ inbox[n] # <<>>
    /\ inbox' = [inbox EXCEPT ![n] = <<>>]
    /\ written' = [s \in Stream |->
                      IF s \in Audience(n, e) THEN Append(written[s], e) ELSE written[s]]
    /\ UNCHANGED <<sent, faults, outbox, subscribed, timer, owner, host, registered, due>>

\* The 'message' callback writes to the user's streams on this node.
Receive(n) ==
    LET e == Head(inbox[n]) IN
    /\ inbox[n] # <<>>
    /\ inbox' = [inbox EXCEPT ![n] = Tail(@)]
    /\ written' = [s \in Stream |->
                      IF s \in Audience(n, e) THEN Append(written[s], e) ELSE written[s]]
    /\ UNCHANGED <<sent, faults, outbox, subscribed, timer, owner, host, registered, due>>

-----------------------------------------------------------------------------
(* The Redis connection and the node *)

\* 'ready': the first SUBSCRIBE, or the one ioredis issues again.
Subscribe(n) ==
    /\ n \notin subscribed
    /\ subscribed' = subscribed \cup {n}
    /\ UNCHANGED <<sent, faults, outbox, inbox, timer, streams>>

\* The subscriber connection breaks, and what is on its way is lost.
LoseRedis(n) ==
    /\ n \in subscribed
    /\ faults < MaxFaults
    /\ faults' = faults + 1
    /\ subscribed' = subscribed \ {n}
    /\ inbox' = [inbox EXCEPT ![n] = <<>>]
    /\ due' = [s \in Stream |->
                  IF host[s] = n THEN due[s] \ ToSet(inbox[n]) ELSE due[s]]
    /\ UNCHANGED <<sent, outbox, timer, owner, host, registered, written>>

\* The container is replaced: sockets, map, timer and connection start afresh.
Restart(n) ==
    /\ faults < MaxFaults
    /\ faults' = faults + 1
    /\ outbox' = [outbox EXCEPT ![n] = <<>>]
    /\ subscribed' = subscribed \ {n}
    /\ inbox' = [inbox EXCEPT ![n] = <<>>]
    /\ timer' = [timer EXCEPT ![n] = TRUE]
    /\ host' = [s \in Stream |-> IF host[s] = n THEN Null ELSE host[s]]
    /\ registered' = [registered EXCEPT ![n] = {}]
    /\ UNCHANGED <<sent, owner, written, due>>

SseNext ==
    \/ \E s \in Stream, n \in Node : Close(s, n) \/ \E u \in User : Open(s, u, n)
    \/ \E s \in Stream : Leave(s)
    \/ \E n \in Node : \/ \E u \in User : SendEvent(n, u)
                       \/ Forward(n)
                       \/ Receive(n)
                       \/ Subscribe(n)
                       \/ LoseRedis(n)
                       \/ Restart(n)

SseSpec == SseInit /\ [][SseNext]_sseVars

-----------------------------------------------------------------------------
(* What the fan-out owes a browser *)

\* A stream shows each event at most once, only its own user's, and two events of
\* one stream never in another order than any other stream of the user shows them,
\* whichever nodes sent them and whatever reconnected in between (166-172).
OneOrder ==
    \A s, t \in Stream : \A i, j \in 1..Len(written[s]) :
        /\ written[s][i].user = owner[s]
        /\ i < j =>
              /\ written[s][i] # written[s][j]
              /\ ~ \E k, l \in 1..Len(written[t]) :
                      k < l /\ written[t][k] = written[s][j] /\ written[t][l] = written[s][i]

\* What docs/realtime/SSE_IMPLEMENTATION_GUIDE.md ("Heartbeats") promises: an open
\* stream gets its periodic heartbeat lines.  The last client of a node stops the timer
\* (90-93) and only onModuleInit starts one (37-40), so the next client gets none.
OpenStreamsAreKeptAlive == \A s \in Stream : host[s] # Null => timer[host[s]]

\* What is sent to a node while a stream is open there is written to it or still on
\* its way, unless the Redis connection breaks: no stream of a user is skipped,
\* whatever other streams come and go (128-139, 166-172).
NothingSkipped ==
    \A s \in Stream : host[s] # Null =>
        due[s] \subseteq ToSet(written[s]) \cup ToSet(inbox[host[s]])
=============================================================================
