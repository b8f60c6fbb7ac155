------------------------------- MODULE Lifecycle -------------------------------
(***************************************************************************)
(* A process of the trading system from build_app to its end: main.py,     *)
(* TradingEngine.start and stop, the Upbit WebSocket feed, the scheduler,  *)
(* and the tasks that main gathers, over ParamSync.                        *)
(*                                                                         *)
(* main waits for all its tasks.  The engine's never ends by itself.  A    *)
(* SIGTERM makes uvicorn end the dashboard and sets stop_event.  A         *)
(* dashboard that cannot start calls sys.exit, which asyncio answers by    *)
(* cancelling every task: only then does main clean up.                    *)
(***************************************************************************)
EXTENDS ParamSync

VARIABLES
  main,        \* "building", "syncing", "running", "closing", "failed", "stopped"
  built,       \* how many awaits of build_app are done
  bus,         \* "memory", "redis", or "fallback": Redis did not answer
  subscribed,  \* who hears of events
  jobs,        \* the scheduler runs
  running,     \* _running of the engine and of its feed
  feed,        \* the engine's task, which is in the feed's loop
  link,        \* the exchange's end of the connection is there
  server,      \* the dashboard: "off", "serving", "ended"
  stopSet,     \* stop_event
  cancelled,   \* asyncio.run is cancelling every task
  inUse        \* the HTTP clients and the database are open

buildVars == <<main, built, bus, subscribed, jobs, inUse>>
feedVars == <<running, feed, link>>
hostVars == <<server, stopSet, cancelled>>
vars == <<paramVars, buildVars, feedVars, hostVars>>

\* Whom build_app subscribes and TradingEngine.start does: all must be there before
\* the first tick.
Wired == {"stop_loss", "alert", "aggregator"}
EngineHandlers == {"engine", "order_manager", "position"}

Boot ==
  /\ main' = "building" /\ built' = 0 /\ bus' = "memory" /\ subscribed' = {}
  /\ jobs' = FALSE /\ running' = FALSE /\ feed' = "off" /\ link' = FALSE
  /\ server' = "off" /\ stopSet' = FALSE /\ cancelled' = FALSE /\ inUse' = TRUE

Init ==
  /\ ParamInit
  /\ main = "building" /\ built = 0 /\ bus = "memory" /\ subscribed = {}
  /\ jobs = FALSE /\ running = FALSE /\ feed = "off" /\ link = FALSE
  /\ server = "off" /\ stopSet = FALSE /\ cancelled = FALSE /\ inUse = TRUE

-------------------------------------------------------------------------------
\* build_app.

\* init_db, and the bus settings.redis_url asks for.
BuildBus ==
  /\ main = "building" /\ built = 0
  /\ built' = 1
  /\ bus' \in {"memory", "redis", "fallback"}
  /\ UNCHANGED <<paramVars, main, subscribed, jobs, inUse, feedVars, hostVars>>

\* account.sync: nothing catches what get_balances raises.
BuildAccount ==
  /\ main = "building" /\ built = 1
  /\ \/ built' = 2 /\ main' = main
     \/ built' = built /\ main' = "failed"
  /\ UNCHANGED <<paramVars, bus, subscribed, jobs, inUse, feedVars, hostVars>>

\* Mutant: the strategies start with what the hash says, which may be nothing.
BuildPartsFromHash ==
  /\ main = "building" /\ built = 2
  /\ built' = 3 /\ subscribed' = Wired \ {"aggregator"}
  /\ shared' = (bus = "redis")
  /\ due' = IF bus = "redis" THEN 2 ELSE 0
  /\ main' = IF bus = "redis" THEN "syncing" ELSE main
  /\ params' = IF bus = "redis" THEN hash ELSE 0
  /\ UNCHANGED <<posted, publishing, channel, watcher, writing, hash, last, lost, stale,
                 bus, jobs, inUse, feedVars, hostVars>>

\* The first subscribers, the strategies and the store, up to sync_all_to_redis,
\* which copies what register has just started to copy.
BuildParts ==
  /\ main = "building" /\ built = 2
  /\ built' = 3 /\ subscribed' = Wired \ {"aggregator"}
  /\ shared' = (bus = "redis")
  /\ due' = IF bus = "redis" THEN 2 ELSE 0
  /\ main' = IF bus = "redis" THEN "syncing" ELSE main
  /\ UNCHANGED <<params, posted, publishing, channel, watcher, writing, hash, last, lost, stale,
                 bus, jobs, inUse, feedVars, hostVars>>

\* sync_all_to_redis is over, whatever became of it.
BuildSynced ==
  /\ main = "syncing" /\ due = 0 /\ writing = Idle
  /\ main' = "building"
  /\ UNCHANGED <<paramVars, built, bus, subscribed, jobs, inUse, feedVars, hostVars>>

\* The aggregator subscribes, the scheduler and the tasks start; without Redis the
\* dashboard subscribes as well.
StartTasks ==
  /\ main = "building" /\ built = 3
  /\ main' = "running" /\ jobs' = TRUE
  /\ subscribed' = subscribed \cup {"aggregator"}
                      \cup (IF bus = "memory" THEN {"dashboard"} ELSE {})
  /\ UNCHANGED <<paramVars, built, bus, inUse, feedVars, hostVars>>

\* watch_param_updates starts, and returns at once without Redis.
WatcherStarts ==
  /\ main = "running" /\ watcher = "off" /\ bus # "memory"
  /\ watcher' = IF bus = "redis" THEN "listening" ELSE "ended"
  /\ UNCHANGED <<shared, params, posted, publishing, channel, due, writing, hash, last,
                 lost, stale, buildVars, feedVars, hostVars>>

-------------------------------------------------------------------------------
\* TradingEngine.start and the feed's loop.

\* Mutant: the handlers are subscribed once the feed has connected.
EngineStartsFeedFirst ==
  /\ main = "running" /\ feed = "off" /\ ~cancelled
  /\ running' = TRUE /\ feed' = "connecting"
  /\ UNCHANGED <<paramVars, buildVars, link, hostVars>>

EngineStarts ==
  /\ main = "running" /\ feed = "off" /\ ~cancelled
  /\ running' = TRUE /\ feed' = "connecting"
  /\ subscribed' = subscribed \cup EngineHandlers
  /\ UNCHANGED <<paramVars, main, built, bus, jobs, inUse, link, hostVars>>

\* The connection stands and the symbols are subscribed to.
FeedConnects ==
  /\ feed = "connecting"
  /\ feed' = "open" /\ link' = TRUE
  /\ UNCHANGED <<paramVars, buildVars, running, hostVars>>

\* Mutant: only a lost connection is caught, and not one that is refused.
FeedRefusedRaises ==
  /\ feed = "connecting"
  /\ feed' = "ended"
  /\ UNCHANGED <<paramVars, buildVars, running, link, hostVars>>

FeedRefused ==
  /\ feed = "connecting"
  /\ feed' = "waiting"
  /\ UNCHANGED <<paramVars, buildVars, running, link, hostVars>>

\* A message; its handlers run to their end before the next one is read.
FeedReads ==
  /\ feed = "open" /\ link
  /\ feed' = IF running THEN "handling" ELSE "ended"
  /\ UNCHANGED <<paramVars, buildVars, running, link, hostVars>>

FeedHandled ==
  /\ feed = "handling"
  /\ feed' = "open"
  /\ UNCHANGED <<paramVars, buildVars, running, link, hostVars>>

\* The exchange goes away, which the loop notices when it reads again.
LinkLost ==
  /\ link
  /\ link' = FALSE
  /\ UNCHANGED <<paramVars, buildVars, running, feed, hostVars>>

FeedNotices ==
  /\ feed = "open" /\ ~link
  /\ feed' = IF running THEN "waiting" ELSE "ended"
  /\ UNCHANGED <<paramVars, buildVars, running, link, hostVars>>

\* RECONNECT_DELAY is over.
FeedRetries ==
  /\ feed = "waiting"
  /\ feed' = IF running THEN "connecting" ELSE "ended"
  /\ UNCHANGED <<paramVars, buildVars, running, link, hostVars>>

FeedLoop == FeedReads \/ FeedHandled \/ FeedNotices \/ FeedRetries

\* CancelledError ends the loop wherever it is.
FeedCancelled ==
  /\ cancelled /\ feed # "ended"
  /\ feed' = "ended" /\ link' = FALSE
  /\ UNCHANGED <<paramVars, buildVars, running, hostVars>>

-------------------------------------------------------------------------------
\* The dashboard's server, signals, and the end of main.

ServerStarts ==
  /\ main = "running" /\ server = "off" /\ ~cancelled
  /\ server' = "serving"
  /\ UNCHANGED <<paramVars, buildVars, feedVars, stopSet, cancelled>>

\* Its port is taken: uvicorn calls sys.exit.
ServerExits ==
  /\ main = "running" /\ server = "off" /\ ~cancelled
  /\ server' = "ended" /\ cancelled' = TRUE
  /\ UNCHANGED <<paramVars, buildVars, feedVars, stopSet>>

\* SIGINT or SIGTERM.
Signal ==
  /\ main = "running" /\ ~stopSet
  /\ stopSet' = TRUE
  /\ UNCHANGED <<paramVars, buildVars, feedVars, server, cancelled>>

\* uvicorn heard it too.
ServerStops ==
  /\ stopSet /\ server = "serving"
  /\ server' = "ended"
  /\ UNCHANGED <<paramVars, buildVars, feedVars, stopSet, cancelled>>

\* Mutant: the tasks are over when each of them has ended by itself.
GatheredAll == feed = "ended" /\ server = "ended" /\ stopSet

\* Every task that main waits for is over; nothing but a cancellation ends the
\* engine's.
Gathered == cancelled /\ feed = "ended"

\* "finally": the tasks are cancelled, the engine stops and its feed is closed.
Closes ==
  /\ main = "running" /\ Gathered
  /\ main' = "closing" /\ running' = FALSE /\ link' = FALSE
  /\ watcher' = IF watcher = "listening" THEN "ended" ELSE watcher
  /\ channel' = <<>>
  /\ UNCHANGED <<shared, params, posted, publishing, due, writing, hash, last, lost, stale,
                 built, bus, subscribed, jobs, inUse, feed, hostVars>>

\* scheduler.stop, and then the clients, the bus and the database.
StopsJobs ==
  /\ main = "closing" /\ jobs
  /\ jobs' = FALSE
  /\ UNCHANGED <<paramVars, main, built, bus, subscribed, inUse, feedVars, hostVars>>

ClosesClients ==
  /\ main = "closing" /\ ~jobs /\ inUse
  /\ inUse' = FALSE
  /\ UNCHANGED <<paramVars, main, built, bus, subscribed, jobs, feedVars, hostVars>>

\* asyncio.run returns.
Stops ==
  /\ main = "closing" /\ ~inUse
  /\ main' = "stopped"
  /\ UNCHANGED <<paramVars, built, bus, subscribed, jobs, inUse, feedVars, hostVars>>

\* The process is started again (docker-compose: restart), after its end or a
\* crash.  Redis keeps the hash and nothing else; nothing reads it back.
Restart ==
  /\ main # "building"
  /\ Boot
  /\ shared' = FALSE /\ params' = 0 /\ watcher' = "off" /\ channel' = <<>>
  /\ publishing' = {} /\ due' = 0 /\ writing' = Idle
  /\ last' = 0 /\ lost' = FALSE /\ stale' = FALSE
  /\ UNCHANGED <<posted, hash>>

EngineStep == EngineStarts \/ FeedConnects \/ FeedRefused \/ FeedLoop \/ LinkLost
                \/ FeedCancelled
BuildStep == BuildBus \/ BuildAccount \/ BuildParts \/ BuildSynced \/ StartTasks
               \/ WatcherStarts
HostStep == ServerStarts \/ ServerExits \/ Signal \/ ServerStops \/ Closes \/ StopsJobs
              \/ ClosesClients \/ Stops \/ Restart

\* What ParamSync does, while the process runs; a dashboard that is up is needed
\* to post.
ParamsChange ==
  /\ main \in {"syncing", "running"} /\ ParamStep
  /\ posted' # posted /\ params' # params => server = "serving"
  /\ UNCHANGED <<buildVars, feedVars, hostVars>>

Next == BuildStep \/ EngineStep \/ HostStep \/ ParamsChange

Spec == Init /\ [][Next]_vars

\* The feed's loop and the end of main go on whenever they can; a connection that
\* is tried again and again is granted in the end.
FairSpec ==
  /\ Spec
  /\ WF_vars(EngineStarts) /\ WF_vars(FeedLoop) /\ SF_vars(FeedConnects)
  /\ WF_vars(FeedCancelled) /\ WF_vars(ServerStops) /\ WF_vars(Closes) /\ WF_vars(StopsJobs)
  /\ WF_vars(ClosesClients) /\ WF_vars(Stops)

-------------------------------------------------------------------------------
\* Properties.

\* Every variable keeps its type.
TypeOK ==
  /\ ParamTypeOK
  /\ main \in {"building", "syncing", "running", "closing", "failed", "stopped"}
  /\ built \in 0 .. 3 /\ bus \in {"memory", "redis", "fallback"}
  /\ subscribed \subseteq Wired \cup EngineHandlers \cup {"dashboard"}
  /\ jobs \in BOOLEAN /\ running \in BOOLEAN /\ link \in BOOLEAN
  /\ feed \in {"off", "connecting", "open", "handling", "waiting", "ended"}
  /\ server \in {"off", "serving", "ended"}
  /\ stopSet \in BOOLEAN /\ cancelled \in BOOLEAN /\ inUse \in BOOLEAN

\* The first tick finds everybody subscribed and the balance read, whichever task
\* starts first (main.py:85-135, engine.py:59-66).
TickFindsHandlers ==
  feed = "handling" => built = 3 /\ Wired \cup EngineHandlers \subseteq subscribed

\* The feed gets through again after every loss and every refusal
\* (upbit/websocket.py:51-61).
FeedReconnects ==
  main = "running" ~> feed = "open" \/ main # "running" \/ cancelled

\* When the tasks are cancelled main cleans up and the process ends
\* (main.py:285-298).
CleansUp == cancelled ~> main = "stopped" \/ ~cancelled

\* docs/userflow.md:429-447: SIGTERM ends the tasks and runs the clean-up.
ShutsDown == stopSet ~> main # "running"
===============================================================================
