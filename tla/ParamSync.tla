------------------------------- MODULE ParamSync -------------------------------
(***************************************************************************)
(* A strategy's parameters while the system runs: StrategyStore            *)
(* (strategy/store.py), the two ways in which the dashboard changes them   *)
(* (api/dashboard.py) and the channel that RedisEventBus watches           *)
(* (core/event_bus_redis.py).                                              *)
(*                                                                         *)
(* The dashboard in the engine's process changes the parameters at once    *)
(* and publishes the change as well, so the process hears of its own       *)
(* change; a dashboard of its own only publishes.  Every change starts a   *)
(* task that copies the parameters to a hash in Redis, each over a         *)
(* connection of its own, so writes and publications may overtake each     *)
(* other.  Update n sets the parameter to n; 0 is main.py's value.         *)
(***************************************************************************)
EXTENDS Integers, Sequences, FiniteSets

CONSTANTS MaxUpdates   \* bound on the updates that are posted

ASSUME ParamSyncAssumption == MaxUpdates \in Nat

VARIABLES
  shared,     \* StrategyStore._redis is set
  params,     \* strategy.params of the engine's instance
  posted,     \* updates posted
  publishing, \* updates on their way to the channel
  channel,    \* messages on their way to the watcher
  watcher,    \* watch_param_updates: "off", "listening", "ended"
  due,        \* _sync_one_to_redis tasks that have not begun
  writing,    \* how many tasks are writing each value
  hash,       \* strategy:configs; None until it is written
  last,       \* history: the last message delivered, or 0
  lost,       \* history: a message was lost and none has come since
  stale       \* history: the newest copy failed, or an older one may come after it

paramVars == <<shared, params, posted, publishing, channel, watcher, due, writing, hash,
               last, lost, stale>>

Updates == 1 .. MaxUpdates
Values == 0 .. MaxUpdates
None == -1
Idle == [v \in Values |-> 0]

ParamInit ==
  /\ shared = FALSE /\ params = 0 /\ posted = 0
  /\ publishing = {} /\ channel = <<>> /\ watcher = "off"
  /\ due = 0 /\ writing = Idle /\ hash = None
  /\ last = 0 /\ lost = FALSE /\ stale = FALSE

\* update_params and register: the change is there at once, its copy is a task.
Put(n) ==
  /\ params' = n
  /\ due' = due + IF shared THEN 1 ELSE 0

\* PUT .../params on the dashboard that shares the engine's process.
PostHere ==
  /\ posted < MaxUpdates
  /\ posted' = posted + 1
  /\ Put(posted')
  /\ publishing' = IF shared THEN publishing \cup {posted'} ELSE publishing
  /\ UNCHANGED <<shared, channel, watcher, writing, hash, last, lost, stale>>

\* The same on a dashboard of its own, whose store has no strategy.
PostElsewhere ==
  /\ posted < MaxUpdates /\ shared
  /\ posted' = posted + 1
  /\ publishing' = publishing \cup {posted'}
  /\ UNCHANGED <<shared, params, channel, watcher, due, writing, hash, last, lost, stale>>

\* The message reaches the channel; one that nobody listens to is gone.
PublicationArrives(n) ==
  /\ n \in publishing
  /\ publishing' = publishing \ {n}
  /\ channel' = IF watcher = "listening" THEN Append(channel, n) ELSE channel
  /\ lost' = (lost \/ watcher # "listening")
  /\ UNCHANGED <<shared, params, posted, watcher, due, writing, hash, last, stale>>

\* redis.publish raises, which nobody is told.
PublicationFails(n) ==
  /\ n \in publishing
  /\ publishing' = publishing \ {n} /\ lost' = TRUE
  /\ UNCHANGED <<shared, params, posted, channel, watcher, due, writing, hash, last, stale>>

\* Mutant: a message that is not newer than what is there is skipped.
WatcherReceivesNewer ==
  /\ watcher = "listening" /\ channel # <<>>
  /\ IF Head(channel) > params THEN Put(Head(channel)) ELSE UNCHANGED <<params, due>>
  /\ last' = Head(channel) /\ channel' = Tail(channel) /\ lost' = FALSE
  /\ UNCHANGED <<shared, posted, publishing, watcher, writing, hash, stale>>

\* Mutant: the watcher changes the strategy itself and not through the store.
WatcherReceivesDirectly ==
  /\ watcher = "listening" /\ channel # <<>>
  /\ params' = Head(channel)
  /\ last' = Head(channel) /\ channel' = Tail(channel) /\ lost' = FALSE
  /\ UNCHANGED <<shared, posted, publishing, watcher, due, writing, hash, stale>>

\* _on_param_update, for every message, those of its own process included.
WatcherReceives ==
  /\ watcher = "listening" /\ channel # <<>>
  /\ Put(Head(channel))
  /\ last' = Head(channel) /\ channel' = Tail(channel) /\ lost' = FALSE
  /\ UNCHANGED <<shared, posted, publishing, watcher, writing, hash, stale>>

\* The connection fails: the watch is over for good.
WatcherFails ==
  /\ watcher = "listening"
  /\ watcher' = "ended" /\ channel' = <<>>
  /\ UNCHANGED <<shared, params, posted, publishing, due, writing, hash, last, lost, stale>>

\* A value other than v is being written.
OthersWritten(v) == \E w \in Values \ {v} : writing[w] > 0

\* A task begins: what it writes is what the parameters are now.
SyncBegins ==
  /\ due > 0
  /\ due' = due - 1
  /\ writing' = [writing EXCEPT ![params] = @ + 1]
  /\ stale' = OthersWritten(params)
  /\ UNCHANGED <<shared, params, posted, publishing, channel, watcher, hash, last, lost>>

\* hset is done, or raises, which nobody is told.
SyncEnds(v) ==
  /\ writing[v] > 0
  /\ writing' = [writing EXCEPT ![v] = @ - 1]
  /\ \/ hash' = v /\ stale' = (stale /\ (v # params \/ OthersWritten(v)))
     \/ hash' = hash /\ stale' = (stale \/ v = params)
  /\ UNCHANGED <<shared, params, posted, publishing, channel, watcher, due, last, lost>>

ParamStep ==
  \/ PostHere
  \/ PostElsewhere
  \/ \E n \in Updates : PublicationArrives(n) \/ PublicationFails(n)
  \/ WatcherReceives
  \/ WatcherFails
  \/ SyncBegins
  \/ \E v \in Values : SyncEnds(v)

-------------------------------------------------------------------------------
\* Properties.

ParamTypeOK ==
  /\ shared \in BOOLEAN /\ params \in Values /\ posted \in Values
  /\ publishing \subseteq Updates /\ channel \in Seq(Updates)
  /\ watcher \in {"off", "listening", "ended"}
  /\ due \in Nat /\ writing \in [Values -> Nat] /\ hash \in Values \cup {None}
  /\ last \in Values /\ lost \in BOOLEAN /\ stale \in BOOLEAN

\* When every message has arrived the parameters are those of the last one, in
\* whatever order local changes, publications and deliveries were made: every
\* process that watches the channel ends with the same parameters.  A message
\* that is lost is made good by the next one that comes
\* (dashboard.py:826-833, main.py:274-280).
LastMessageWins ==
  watcher = "listening" /\ publishing = {} /\ channel = <<>> /\ ~lost => params = last

\* When no copy is under way the hash holds the engine's parameters: every change
\* starts a copy, the watcher's included.  A copy that fails, or that an older
\* one may overwrite, is made good by the next change (store.py:54-70).
HashFollowsParams == shared /\ due = 0 /\ writing = Idle /\ ~stale => hash = params
===============================================================================
