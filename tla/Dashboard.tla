------------------------------- MODULE Dashboard -------------------------------
(***************************************************************************)
(* How events reach the dashboard's WebSocket clients: publish of          *)
(* core/event.py and core/event_bus_redis.py, and WebSocketManager and     *)
(* ws_events of api/dashboard.py.                                          *)
(*                                                                         *)
(* In memory mode on_event is a subscriber and broadcasts inside publish.  *)
(* In redis mode publish adds the event to a stream once its handlers are  *)
(* done, and one task reads the stream and broadcasts.  A broadcast goes   *)
(* over the live set of clients and suspends at every send; clients come   *)
(* and go meanwhile.                                                       *)
(***************************************************************************)
EXTENDS Integers, Sequences, FiniteSets

CONSTANTS
  Clients,     \* WebSocket connections
  Slots,       \* length of the hash table behind the set of clients
  MaxEvents,   \* bound on the events published
  MaxCalling,  \* bound on the publications under way at once
  MaxLen,      \* events the stream keeps (STREAM_MAXLEN)
  BatchSize,   \* events read at once (count=20)
  MaxOutages   \* bound on the times Redis goes away

ASSUME DashboardAssumption ==
  /\ MaxEvents \in Nat /\ MaxCalling \in Nat /\ MaxOutages \in Nat
  /\ MaxLen \in Nat \ {0} /\ BatchSize \in Nat \ {0}
  \* The table always has slots to spare.
  /\ IsFiniteSet(Clients) /\ Slots \in Nat /\ Cardinality(Clients) <= Slots

VARIABLES
  mode,       \* "memory" or "redis"
  cause,      \* history: the event whose handler published each event; 0: none
  calling,    \* the publications under way
  stream,     \* events:all, every event ever added
  up, outages, \* Redis answers; how often it went away
  clients,    \* _clients
  alive,      \* connections whose other end is there
  casts,      \* broadcasts under way
  reader,     \* where start_redis_reader is
  lastId,     \* its stream_id; Dollar at first
  from,       \* the place after which it asked for events
  batch       \* what it read and has not forwarded

busVars == <<mode, cause, calling, stream>>
redisVars == <<up, outages>>
clientVars == <<clients, alive>>
readerVars == <<reader, lastId, from, batch>>
vars == <<busVars, redisVars, clientVars, casts, readerVars>>

Dollar == -1
Events == 1 .. MaxEvents

\* A broadcast: the event, the clients its iterator has yet to meet, the slots it
\* has yet to look at, the size of the set when it began, the clients whose send
\* failed, and whether the set was changed since the iterator looked at it.
Casts == [event : Events, todo : SUBSET Clients, slots : 0 .. Slots,
          size : 1 .. Cardinality(Clients), dead : SUBSET Clients, stale : BOOLEAN]
NewCast(e) == [event |-> e, todo |-> clients, slots |-> Slots,
               size |-> Cardinality(clients), dead |-> {}, stale |-> FALSE]

\* Broadcasts B after a change of the set of clients.
Disturbed(B) == {[b EXCEPT !.stale = TRUE] : b \in B}

Init ==
  /\ mode \in {"memory", "redis"}
  /\ cause = <<>> /\ calling = {} /\ stream = <<>>
  /\ up = TRUE /\ outages = 0
  /\ clients = {} /\ alive = {}
  /\ casts = {}
  /\ reader = "top" /\ lastId = Dollar /\ from = 0 /\ batch = <<>>

-------------------------------------------------------------------------------
\* EventBus.publish.

\* An event is published, on its own or by a handler of another one.  on_event
\* returns at once when there is no client.
Publish ==
  /\ Len(cause) < MaxEvents /\ Cardinality(calling) < MaxCalling
  /\ \E parent \in calling \cup {0} : cause' = Append(cause, parent)
  /\ LET e == Len(cause) + 1 IN
     /\ calling' = calling \cup {e}
     /\ casts' = IF mode = "memory" /\ clients # {} THEN casts \cup {NewCast(e)} ELSE casts
  /\ UNCHANGED <<mode, stream, redisVars, clientVars, readerVars>>

\* Mutant: an event is added to the stream while its handlers are still busy.
HandledBy(e) == \A b \in casts : mode = "memory" => b.event # e

\* The handlers of e, and what they published, are done.
Handled(e) ==
  /\ \A f \in calling : cause[f] # e
  /\ \A b \in casts : mode = "memory" => b.event # e

\* The event is added to the stream, if Redis answers, and publish returns.
PublishReturns ==
  \E e \in calling :
    /\ Handled(e)
    /\ stream' = IF mode = "redis" /\ up THEN Append(stream, e) ELSE stream
    /\ calling' = calling \ {e}
    /\ UNCHANGED <<mode, cause, redisVars, clientVars, casts, readerVars>>

-------------------------------------------------------------------------------
\* WebSocketManager.broadcast.

\* Mutant: the broadcast starts again.
CastRaisesRetried(b) ==
  /\ casts' = (casts \ {b}) \cup (IF clients = {} THEN {} ELSE {NewCast(b.event)})
  /\ UNCHANGED <<batch, reader, clients>>

\* The set changed its size: the iterator raises.  on_event and the reader catch
\* it, and the reader drops its batch and reads again after stream_id.
CastRaises(b) ==
  /\ casts' = casts \ {b}
  /\ batch' = <<>> /\ reader' = IF mode = "redis" THEN "top" ELSE reader
  /\ UNCHANGED clients

\* What the iterator may still meet.  In a set that changed and has its old size
\* it goes on over any part of it.
Rest(b) ==
  IF b.stale THEN {rest \in SUBSET clients : Cardinality(rest) <= b.slots} ELSE {b.todo}

\* send_text to the next client, which fails when nobody is there.
CastSends(b, rest, c) ==
  /\ c \in rest
  /\ casts' = (casts \ {b}) \cup
       {[b EXCEPT !.todo = rest \ {c}, !.slots = @ - 1, !.stale = FALSE,
                  !.dead = IF c \in alive THEN @ ELSE @ \cup {c}]}
  /\ UNCHANGED clients

\* All clients were met; those whose send failed are forgotten.
CastEnds(b, rest) ==
  /\ rest = {}
  /\ clients' = clients \ b.dead
  /\ casts' = IF clients' = clients THEN casts \ {b} ELSE Disturbed(casts \ {b})

Cast ==
  /\ \E b \in casts :
       \/ /\ Cardinality(clients) # b.size
          /\ CastRaises(b)
       \/ /\ Cardinality(clients) = b.size
          /\ \E rest \in Rest(b) :
               (\E c \in Clients : CastSends(b, rest, c)) \/ CastEnds(b, rest)
          /\ UNCHANGED <<batch, reader>>
  /\ UNCHANGED <<busVars, redisVars, alive, lastId, from>>

-------------------------------------------------------------------------------
\* WebSocketManager.start_redis_reader.

\* xread is called: "$" means what is added from now on.
ReaderCalls ==
  /\ mode = "redis" /\ reader = "top" /\ clients # {} /\ up
  /\ reader' = "blocked"
  /\ from' = IF lastId = Dollar THEN Len(stream) ELSE lastId
  /\ UNCHANGED <<busVars, redisVars, clientVars, casts, lastId, batch>>

\* The first place after "from" that the stream still has.
Oldest == IF from < Len(stream) - MaxLen THEN Len(stream) - MaxLen + 1 ELSE from + 1

\* xread returns with events, with none, or raises.
ReaderGets ==
  /\ reader = "blocked" /\ up /\ Len(stream) > from
  /\ reader' = "forwarding"
  /\ batch' = [i \in 1 .. (IF Len(stream) - Oldest < BatchSize
                             THEN Len(stream) - Oldest + 1 ELSE BatchSize) |-> Oldest + i - 1]
  /\ from' = 0
  /\ UNCHANGED <<busVars, redisVars, clientVars, casts, lastId>>

ReaderGetsNothing ==
  /\ reader = "blocked" /\ (~up \/ Len(stream) = from)
  /\ reader' = "top" /\ from' = 0
  /\ UNCHANGED <<busVars, redisVars, clientVars, casts, lastId, batch>>

\* Mutant: the next event is forwarded while the last one is being sent.
ReaderForwardsAtOnce ==
  /\ reader = "forwarding" /\ batch # <<>>
  /\ batch' = Tail(batch)
  /\ lastId' = Head(batch)
  /\ casts' = IF clients = {} THEN casts ELSE casts \cup {NewCast(Head(batch))}
  /\ UNCHANGED <<busVars, redisVars, clientVars, reader, from>>

\* Mutant: stream_id is moved to the end of the batch at once.
ReaderForwardsAll ==
  /\ reader = "forwarding" /\ casts = {} /\ batch # <<>>
  /\ batch' = Tail(batch)
  /\ lastId' = batch[Len(batch)]
  /\ casts' = IF clients = {} THEN {} ELSE {NewCast(Head(batch))}
  /\ UNCHANGED <<busVars, redisVars, clientVars, reader, from>>

\* Mutant: stream_id is only moved once a whole batch is forwarded.
ReaderForwardsLate ==
  /\ reader = "forwarding" /\ casts = {} /\ batch # <<>>
  /\ batch' = Tail(batch)
  /\ lastId' = IF batch' = <<>> THEN Head(batch) ELSE lastId
  /\ casts' = IF clients = {} THEN {} ELSE {NewCast(Head(batch))}
  /\ UNCHANGED <<busVars, redisVars, clientVars, reader, from>>

\* The next event of the batch: stream_id moves before it is broadcast.
ReaderForwards ==
  /\ reader = "forwarding" /\ casts = {} /\ batch # <<>>
  /\ batch' = Tail(batch)
  /\ lastId' = Head(batch)
  /\ casts' = IF clients = {} THEN {} ELSE {NewCast(Head(batch))}
  /\ UNCHANGED <<busVars, redisVars, clientVars, reader, from>>

ReaderLoops ==
  /\ reader = "forwarding" /\ casts = {} /\ batch = <<>>
  /\ reader' = "top"
  /\ UNCHANGED <<busVars, redisVars, clientVars, casts, lastId, from, batch>>

ReaderStep ==
  ReaderCalls \/ ReaderGets \/ ReaderGetsNothing \/ ReaderForwards \/ ReaderLoops

-------------------------------------------------------------------------------
\* The clients, and Redis.

\* ws_events: the connection is accepted and added.
Connect(c) ==
  /\ c \notin clients \cup alive /\ \A b \in casts : c \notin b.dead
  /\ clients' = clients \cup {c} /\ alive' = alive \cup {c}
  /\ casts' = Disturbed(casts)
  /\ UNCHANGED <<busVars, redisVars, readerVars>>

\* The other end goes away.
Leaves(c) ==
  /\ c \in alive
  /\ alive' = alive \ {c}
  /\ UNCHANGED <<busVars, redisVars, clients, casts, readerVars>>

\* receive_text raises and ws_events ends: disconnect(c).
Disconnect(c) ==
  /\ c \in clients \ alive
  /\ clients' = clients \ {c}
  /\ casts' = Disturbed(casts)
  /\ UNCHANGED <<busVars, redisVars, alive, readerVars>>

RedisGoes ==
  /\ mode = "redis" /\ up /\ outages < MaxOutages
  /\ up' = FALSE /\ outages' = outages + 1
  /\ UNCHANGED <<busVars, clientVars, casts, readerVars>>

RedisReturns ==
  /\ ~up
  /\ up' = TRUE
  /\ UNCHANGED <<busVars, outages, clientVars, casts, readerVars>>

Next ==
  \/ Publish
  \/ PublishReturns
  \/ Cast
  \/ ReaderStep
  \/ \E c \in Clients : Connect(c) \/ Leaves(c) \/ Disconnect(c)
  \/ RedisGoes
  \/ RedisReturns

Spec == Init /\ [][Next]_vars

\* The event loop runs the broadcasts, the reader and the publications that can
\* go on; a send ends, since the server drops a peer that answers no ping.
FairSpec ==
  /\ Spec
  /\ WF_vars(PublishReturns) /\ WF_vars(Cast) /\ WF_vars(ReaderStep)

-------------------------------------------------------------------------------
\* Properties.

\* Every variable keeps its type; the reader broadcasts one event at a time.
TypeOK ==
  /\ mode \in {"memory", "redis"}
  /\ cause \in Seq(0 .. MaxEvents) /\ calling \subseteq Events /\ stream \in Seq(Events)
  /\ up \in BOOLEAN /\ outages \in 0 .. MaxOutages
  /\ clients \subseteq Clients /\ alive \subseteq Clients
  /\ casts \subseteq Casts
  /\ reader \in {"top", "blocked", "forwarding"} /\ lastId \in Events \cup {Dollar}
  /\ from \in 0 .. MaxEvents /\ batch \in Seq(Events)
  /\ mode = "redis" => Cardinality(casts) <= 1

\* The stream tells a story backwards: an event that a handler published comes
\* before the event that was being handled (event_bus_redis.py:97-106).
EffectsFirst ==
  \A i, j \in DOMAIN stream : cause[stream[i]] = stream[j] => i < j

\* Once it has read something the reader takes up every event that the stream
\* still has, one after the other: a broadcast that raises, and an outage, lose
\* the rest of the batch but not the place (dashboard.py:121-126).
ReaderSkipsNothing ==
  [][lastId' # lastId /\ lastId # Dollar =>
       /\ lastId' > lastId
       /\ Len(stream) - lastId <= MaxLen => lastId' = lastId + 1]_vars

\* Clients that come and go during broadcasts, failed reads and dropped batches
\* never stop the reader: while there is a client and Redis answers, it gets to
\* the end of the stream (dashboard.py:113-130).
CaughtUp == lastId \in {Dollar, Len(stream)}
ReaderKeepsUp ==
  mode = "redis" /\ clients # {} ~> CaughtUp \/ clients = {} \/ ~up

\* Publications end, broadcasts included: the feed, which waits for them, reads
\* the next tick whatever the clients do (event.py:55-62, dashboard.py:147-168).
PublicationsEnd == calling # {} ~> calling = {}
===============================================================================
