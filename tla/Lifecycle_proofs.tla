--------------------------- MODULE Lifecycle_proofs ----------------------------
(***************************************************************************)
(* Proofs about Lifecycle: who hears the first tick, and where the         *)
(* parameters and their copy in Redis end up.                              *)
(***************************************************************************)
EXTENDS Lifecycle, TLAPS

\* What main has done before each of its tasks may run.
StartUpInv ==
  /\ main \in {"building", "syncing", "failed"} => feed = "off" /\ ~cancelled
  /\ built = 3 => Wired \ {"aggregator"} \subseteq subscribed
  /\ built = 3 => (shared <=> bus = "redis")
  /\ main \in {"syncing", "running"} => built = 3
  /\ main = "running" => Wired \subseteq subscribed
  /\ feed \notin {"off", "ended"} => built = 3 /\ Wired \cup EngineHandlers \subseteq subscribed

\* The hash has the parameters, or a copy of them is on its way and nothing else
\* will be written after it.
CopyInv ==
  shared /\ ~stale =>
    /\ hash = params \/ due > 0 \/ writing[params] > 0
    /\ due > 0 \/ \A v \in Values \ {params} : writing[v] = 0

\* A change that the last message did not make has a message under way.
MessageInv ==
  /\ built < 3 => params = last /\ watcher = "off"
  /\ IF watcher = "listening" THEN shared ELSE channel = <<>>
  /\ shared /\ ~lost /\ watcher # "ended" =>
       params = last \/ publishing # {} \/ channel # <<>>

LifecycleInv == TypeOK /\ StartUpInv /\ CopyInv /\ MessageInv

-------------------------------------------------------------------------------

LEMMA Constants ==
  /\ MaxUpdates \in Nat /\ 0 \in Values /\ Updates \subseteq Values
  /\ None \notin Values /\ Idle \in [Values -> Nat] /\ Values \subseteq Nat
BY ParamSyncAssumption DEF Values, Updates, None, Idle

LEMMA InitHolds == Init => LifecycleInv
<1> SUFFICES ASSUME Init PROVE LifecycleInv
  OBVIOUS
<1>1. ParamTypeOK
  <2>1. shared \in BOOLEAN /\ lost \in BOOLEAN /\ stale \in BOOLEAN
    BY DEF Init, ParamInit
  <2>2. params \in Values /\ posted \in Values /\ last \in Values
    BY Constants DEF Init, ParamInit
  <2>3. publishing \subseteq Updates /\ watcher \in {"off", "listening", "ended"}
    BY DEF Init, ParamInit
  <2>4. channel \in Seq(Updates)
    BY DEF Init, ParamInit
  <2>5. due \in Nat /\ writing \in [Values -> Nat] /\ hash \in Values \cup {None}
    BY Constants DEF Init, ParamInit
  <2> QED
    BY <2>1, <2>2, <2>3, <2>4, <2>5 DEF ParamTypeOK
<1>2. TypeOK
  <2>1. jobs \in BOOLEAN /\ running \in BOOLEAN /\ link \in BOOLEAN /\ stopSet \in BOOLEAN
        /\ cancelled \in BOOLEAN /\ inUse \in BOOLEAN
    BY DEF Init
  <2> QED
    BY <1>1, <2>1 DEF Init, TypeOK
<1>3. StartUpInv /\ CopyInv /\ MessageInv
  BY DEF Init, ParamInit, StartUpInv, CopyInv, MessageInv
<1> QED
  BY <1>2, <1>3 DEF LifecycleInv

-------------------------------------------------------------------------------
\* The steps of ParamSync.

LEMMA HeadOfChannel ==
  ASSUME ParamTypeOK, channel # <<>>
  PROVE  Head(channel) \in Updates /\ Tail(channel) \in Seq(Updates)
<1>1. channel \in Seq(Updates)
  BY DEF ParamTypeOK
<1> QED
  BY <1>1

LEMMA ParamTypes == ParamTypeOK /\ ParamStep => ParamTypeOK'
<1> SUFFICES ASSUME ParamTypeOK, ParamStep PROVE ParamTypeOK'
  OBVIOUS
<1> USE DEF ParamTypeOK
<1>1. CASE PostHere
  BY <1>1, ParamSyncAssumption DEF PostHere, Put, Values, Updates
<1>2. CASE PostElsewhere
  BY <1>2, ParamSyncAssumption DEF PostElsewhere, Values, Updates
<1>3. ASSUME NEW n \in Updates, PublicationArrives(n) PROVE ParamTypeOK'
  BY <1>3 DEF PublicationArrives
<1>4. ASSUME NEW n \in Updates, PublicationFails(n) PROVE ParamTypeOK'
  BY <1>4 DEF PublicationFails
<1>5. CASE WatcherReceives
  <2>1. Head(channel) \in Values /\ Tail(channel) \in Seq(Updates)
    BY <1>5, HeadOfChannel, Constants DEF WatcherReceives
  <2>2. params' \in Values /\ last' \in Values /\ channel' \in Seq(Updates) /\ lost' \in BOOLEAN
    BY <1>5, <2>1 DEF WatcherReceives, Put
  <2>3. due' \in Nat
    BY <1>5 DEF WatcherReceives, Put
  <2> QED
    BY <1>5, <2>2, <2>3 DEF WatcherReceives
<1>6. CASE WatcherFails
  BY <1>6 DEF WatcherFails
<1>7. CASE SyncBegins
  BY <1>7 DEF SyncBegins, OthersWritten
<1>8. ASSUME NEW v \in Values, SyncEnds(v) PROVE ParamTypeOK'
  <2>1. writing' \in [Values -> Nat]
    BY <1>8 DEF SyncEnds
  <2>2. hash' \in Values \cup {None} /\ stale' \in BOOLEAN
    BY <1>8 DEF SyncEnds, OthersWritten
  <2> QED
    BY <1>8, <2>1, <2>2 DEF SyncEnds
<1> QED
  BY <1>1, <1>2, <1>3, <1>4, <1>5, <1>6, <1>7, <1>8 DEF ParamStep

LEMMA ParamCopies == ParamTypeOK /\ CopyInv /\ ParamStep => CopyInv'
<1> SUFFICES ASSUME ParamTypeOK, CopyInv, ParamStep PROVE CopyInv'
  OBVIOUS
<1>0. due \in Nat /\ writing \in [Values -> Nat] /\ params \in Values
  BY DEF ParamTypeOK
<1>1. CASE PostHere
  BY <1>0, <1>1 DEF CopyInv, PostHere, Put
<1>2. CASE PostElsewhere
  BY <1>2 DEF CopyInv, PostElsewhere
<1>3. ASSUME NEW n \in Updates, PublicationArrives(n) PROVE CopyInv'
  BY <1>3 DEF CopyInv, PublicationArrives
<1>4. ASSUME NEW n \in Updates, PublicationFails(n) PROVE CopyInv'
  BY <1>4 DEF CopyInv, PublicationFails
<1>5. CASE WatcherReceives
  BY <1>0, <1>5 DEF CopyInv, WatcherReceives, Put
<1>6. CASE WatcherFails
  BY <1>6 DEF CopyInv, WatcherFails
<1>7. CASE SyncBegins
  <2> SUFFICES ASSUME shared', ~stale' PROVE CopyInv'
    BY DEF CopyInv
  <2>1. writing'[params'] > 0
    BY <1>0, <1>7 DEF SyncBegins
  <2>2. ASSUME NEW v \in Values \ {params} PROVE writing[v] = 0
    <3>1. ~(writing[v] > 0)
      BY <1>7 DEF SyncBegins, OthersWritten
    <3>2. writing[v] \in Nat
      BY <1>0
    <3> QED
      BY <3>1, <3>2
  <2>3. \A v \in Values \ {params'} : writing'[v] = 0
    BY <1>0, <1>7, <2>2 DEF SyncBegins
  <2> QED
    BY <2>1, <2>3 DEF CopyInv
<1>8. ASSUME NEW v \in Values, SyncEnds(v) PROVE CopyInv'
  <2>1. writing' = [writing EXCEPT ![v] = writing[v] - 1] /\ writing[v] > 0
        /\ UNCHANGED <<shared, params, due>>
    BY <1>8 DEF SyncEnds
  <2>2. CASE hash' = v /\ stale /\ ~stale'
    <3>1. v = params /\ ~OthersWritten(v)
      BY <1>8, <2>2 DEF SyncEnds
    <3>2. ASSUME NEW w \in Values \ {params} PROVE writing'[w] = 0
      BY <1>0, <2>1, <3>1 DEF OthersWritten
    <3> QED
      BY <2>1, <2>2, <3>1, <3>2 DEF CopyInv
  <2>3. CASE ~stale /\ hash' = v /\ v = params
    BY <1>0, <2>1, <2>3 DEF CopyInv
  <2>4. CASE ~stale /\ v # params /\ due = 0
    BY <1>0, <2>1, <2>4 DEF CopyInv
  <2>5. CASE stale' \/ due > 0
    BY <1>0, <2>1, <2>5 DEF CopyInv
  <2>6. CASE ~stale /\ ~stale' /\ hash' = hash /\ v # params
    BY <1>0, <2>1, <2>6 DEF CopyInv
  <2>7. (hash' = v /\ (stale' <=> stale /\ (v # params \/ OthersWritten(v))))
          \/ (hash' = hash /\ (stale' <=> stale \/ v = params))
    <3>1. stale \in BOOLEAN
      BY DEF ParamTypeOK
    <3> QED
      BY <1>8, <3>1 DEF SyncEnds
  <2>8. due = 0 \/ due > 0
    BY <1>0
  <2> QED
    BY <2>2, <2>3, <2>4, <2>5, <2>6, <2>7, <2>8
<1> QED
  BY <1>1, <1>2, <1>3, <1>4, <1>5, <1>6, <1>7, <1>8 DEF ParamStep

LEMMA ParamMessages ==
  ASSUME ParamTypeOK, MessageInv, built = 3, UNCHANGED built, ParamStep
  PROVE  MessageInv'
<1>1. CASE PostHere
  BY <1>1 DEF MessageInv, PostHere, Put
<1>2. CASE PostElsewhere
  BY <1>2 DEF MessageInv, PostElsewhere
<1>3. ASSUME NEW n \in Updates, PublicationArrives(n) PROVE MessageInv'
  <2>1. CASE watcher = "listening"
    <3>1. channel \in Seq(Updates)
      BY DEF ParamTypeOK
    <3>2. Append(channel, n) # <<>>
      <4>1. Len(Append(channel, n)) = Len(channel) + 1 /\ Len(channel) \in Nat
        BY <3>1
      <4> QED
        BY <4>1
    <3>3. channel' # <<>> /\ shared' = shared /\ watcher' = watcher
      BY <1>3, <2>1, <3>2 DEF PublicationArrives
    <3>4. built' = 3 /\ shared
      BY <2>1 DEF MessageInv
    <3> QED
      BY <2>1, <3>3, <3>4 DEF MessageInv
  <2>2. CASE watcher # "listening"
    BY <1>3, <2>2 DEF MessageInv, PublicationArrives
  <2> QED
    BY <2>1, <2>2
<1>4. ASSUME NEW n \in Updates, PublicationFails(n) PROVE MessageInv'
  BY <1>4 DEF MessageInv, PublicationFails
<1>5. CASE WatcherReceives
  BY <1>5 DEF MessageInv, WatcherReceives, Put
<1>6. CASE WatcherFails
  BY <1>6 DEF MessageInv, WatcherFails
<1>7. CASE SyncBegins
  BY <1>7 DEF MessageInv, SyncBegins
<1>8. ASSUME NEW v \in Values, SyncEnds(v) PROVE MessageInv'
  BY <1>8 DEF MessageInv, SyncEnds
<1> QED
  BY <1>1, <1>2, <1>3, <1>4, <1>5, <1>6, <1>7, <1>8 DEF ParamStep

LEMMA ParamsChangeHolds == LifecycleInv /\ ParamsChange => LifecycleInv'
<1> SUFFICES ASSUME LifecycleInv, ParamsChange PROVE LifecycleInv'
  OBVIOUS
<1>1. built = 3 /\ ParamStep /\ UNCHANGED <<buildVars, feedVars, hostVars>>
  BY DEF LifecycleInv, StartUpInv, ParamsChange
<1>2. shared' = shared
  BY <1>1 DEF ParamStep, PostHere, PostElsewhere, PublicationArrives, PublicationFails,
              WatcherReceives, WatcherFails, SyncBegins, SyncEnds
<1>3. ParamTypeOK' /\ CopyInv' /\ MessageInv'
  BY <1>1, ParamTypes, ParamCopies, ParamMessages
     DEF LifecycleInv, TypeOK, buildVars
<1>4. TypeOK'
  BY <1>1, <1>3 DEF LifecycleInv, TypeOK, buildVars, feedVars, hostVars
<1>5. StartUpInv'
  BY <1>1, <1>2 DEF LifecycleInv, StartUpInv, buildVars, feedVars, hostVars
<1> QED
  BY <1>3, <1>4, <1>5 DEF LifecycleInv

-------------------------------------------------------------------------------
\* The steps that leave the parameters alone.

LEMMA ParamsKept ==
  ASSUME LifecycleInv, UNCHANGED <<paramVars, built>>
  PROVE  ParamTypeOK' /\ CopyInv' /\ MessageInv'
BY DEF LifecycleInv, TypeOK, ParamTypeOK, CopyInv, MessageInv, paramVars

LEMMA BuildHolds == LifecycleInv /\ BuildStep => LifecycleInv'
<1> SUFFICES ASSUME LifecycleInv, BuildStep PROVE LifecycleInv'
  OBVIOUS
<1> USE DEF LifecycleInv
<1>1. CASE BuildBus
  <2>1. TypeOK' /\ StartUpInv'
    BY <1>1 DEF BuildBus, TypeOK, ParamTypeOK, StartUpInv, paramVars, feedVars, hostVars
  <2>2. CopyInv' /\ MessageInv'
    BY <1>1 DEF BuildBus, CopyInv, MessageInv, TypeOK, paramVars
  <2> QED
    BY <2>1, <2>2
<1>2. CASE BuildAccount
  <2>1. TypeOK' /\ StartUpInv'
    BY <1>2 DEF BuildAccount, TypeOK, ParamTypeOK, StartUpInv, paramVars, feedVars, hostVars
  <2>2. CopyInv' /\ MessageInv'
    BY <1>2 DEF BuildAccount, CopyInv, MessageInv, TypeOK, paramVars
  <2> QED
    BY <2>1, <2>2
<1>3. CASE BuildParts
  <2>1. TypeOK'
    BY <1>3 DEF BuildParts, TypeOK, ParamTypeOK, feedVars, hostVars
  <2>2. StartUpInv'
    BY <1>3 DEF BuildParts, StartUpInv, feedVars, hostVars
  <2>3. CopyInv' /\ MessageInv'
    <3>1. params' = params /\ last' = last /\ watcher' = watcher /\ built' = 3
          /\ channel' = channel
      BY <1>3 DEF BuildParts
    <3>2. params = last /\ watcher = "off" /\ channel = <<>>
      BY <1>3 DEF BuildParts, MessageInv
    <3>3. MessageInv'
      BY <3>1, <3>2 DEF MessageInv
    <3>4. shared' => due' = 2
      BY <1>3 DEF BuildParts
    <3>5. CopyInv'
      BY <3>4 DEF CopyInv
    <3> QED
      BY <3>3, <3>5
  <2> QED
    BY <2>1, <2>2, <2>3
<1>4. CASE BuildSynced
  <2>1. ParamTypeOK' /\ CopyInv' /\ MessageInv'
    BY <1>4, ParamsKept DEF BuildSynced
  <2>2. TypeOK' /\ StartUpInv'
    BY <1>4, <2>1 DEF BuildSynced, TypeOK, StartUpInv, paramVars, feedVars, hostVars
  <2> QED
    BY <2>1, <2>2
<1>5. CASE StartTasks
  <2>1. ParamTypeOK' /\ CopyInv' /\ MessageInv'
    BY <1>5, ParamsKept DEF StartTasks
  <2>2. TypeOK'
    BY <1>5, <2>1 DEF StartTasks, TypeOK, Wired, feedVars, hostVars
  <2>3. StartUpInv'
    BY <1>5 DEF StartTasks, StartUpInv, Wired, paramVars, feedVars, hostVars
  <2> QED
    BY <2>1, <2>2, <2>3
<1>6. CASE WatcherStarts
  <2>1. TypeOK' /\ StartUpInv'
    BY <1>6 DEF WatcherStarts, TypeOK, ParamTypeOK, StartUpInv, buildVars, feedVars, hostVars
  <2>2. CopyInv'
    BY <1>6 DEF WatcherStarts, CopyInv
  <2>3. built = 3 /\ built' = 3 /\ (shared <=> bus = "redis")
    BY <1>6 DEF WatcherStarts, StartUpInv, buildVars
  <2>4. MessageInv'
    BY <1>6, <2>3 DEF WatcherStarts, MessageInv
  <2> QED
    BY <2>1, <2>2, <2>4
<1> QED
  BY <1>1, <1>2, <1>3, <1>4, <1>5, <1>6 DEF BuildStep

LEMMA EngineHolds == LifecycleInv /\ EngineStep => LifecycleInv'
<1> SUFFICES ASSUME LifecycleInv, EngineStep PROVE LifecycleInv'
  OBVIOUS
<1>1. ParamTypeOK' /\ CopyInv' /\ MessageInv'
  BY ParamsKept
     DEF EngineStep, EngineStarts, FeedConnects, FeedRefused, FeedLoop, FeedReads, FeedHandled,
         FeedNotices, FeedRetries, LinkLost, FeedCancelled, buildVars
<1>2. TypeOK'
  <2> USE <1>1 DEF LifecycleInv, TypeOK
  <2>1. CASE EngineStarts
    BY <2>1 DEF EngineStarts, hostVars
  <2>2. CASE FeedConnects
    BY <2>2 DEF FeedConnects, buildVars, hostVars
  <2>3. CASE FeedRefused \/ FeedLoop
    BY <2>3 DEF FeedRefused, FeedLoop, FeedReads, FeedHandled, FeedNotices, FeedRetries,
                buildVars, hostVars
  <2>4. CASE LinkLost
    <3>1. link' \in BOOLEAN /\ running' \in BOOLEAN /\ feed' = feed
      BY <2>4 DEF LinkLost
    <3> QED
      BY <2>4, <3>1 DEF LinkLost, buildVars, hostVars
  <2>5. CASE FeedCancelled
    BY <2>5 DEF FeedCancelled, buildVars, hostVars
  <2> QED
    BY <2>1, <2>2, <2>3, <2>4, <2>5 DEF EngineStep
<1>3. StartUpInv'
  <2> USE DEF LifecycleInv, StartUpInv
  <2>1. CASE EngineStarts
    BY <2>1 DEF EngineStarts, paramVars, hostVars
  <2>2. CASE FeedConnects \/ FeedRefused
    BY <2>2 DEF FeedConnects, FeedRefused, paramVars, buildVars, hostVars
  <2>3. CASE FeedLoop
    BY <2>3 DEF FeedLoop, FeedReads, FeedHandled, FeedNotices, FeedRetries,
                paramVars, buildVars, hostVars
  <2>4. CASE LinkLost \/ FeedCancelled
    BY <2>4 DEF LinkLost, FeedCancelled, paramVars, buildVars, hostVars
  <2> QED
    BY <2>1, <2>2, <2>3, <2>4 DEF EngineStep
<1> QED
  BY <1>1, <1>2, <1>3 DEF LifecycleInv

LEMMA HostHolds == LifecycleInv /\ HostStep => LifecycleInv'
<1> SUFFICES ASSUME LifecycleInv, HostStep PROVE LifecycleInv'
  OBVIOUS
<1> USE DEF LifecycleInv
<1>1. CASE ServerStarts \/ ServerExits \/ Signal \/ ServerStops
  <2>1. ParamTypeOK' /\ CopyInv' /\ MessageInv'
    BY <1>1, ParamsKept DEF ServerStarts, ServerExits, Signal, ServerStops, buildVars
  <2>2. TypeOK'
    <3> USE <2>1 DEF TypeOK, buildVars, feedVars
    <3>1. CASE ServerStarts
      BY <3>1 DEF ServerStarts
    <3>2. CASE ServerExits
      BY <3>2 DEF ServerExits
    <3>3. CASE Signal
      BY <3>3 DEF Signal
    <3>4. CASE ServerStops
      BY <3>4 DEF ServerStops
    <3> QED
      BY <1>1, <3>1, <3>2, <3>3, <3>4
  <2>3. StartUpInv'
    BY <1>1 DEF StartUpInv, ServerStarts, ServerExits, Signal, ServerStops, paramVars, buildVars,
                feedVars
  <2> QED
    BY <2>1, <2>2, <2>3
<1>2. CASE StopsJobs \/ ClosesClients \/ Stops
  <2>1. ParamTypeOK' /\ CopyInv' /\ MessageInv'
    BY <1>2, ParamsKept DEF StopsJobs, ClosesClients, Stops
  <2>2. TypeOK'
    <3> USE <2>1 DEF TypeOK, feedVars, hostVars
    <3>1. CASE StopsJobs
      BY <3>1 DEF StopsJobs
    <3>2. CASE ClosesClients
      BY <3>2 DEF ClosesClients
    <3>3. CASE Stops
      BY <3>3 DEF Stops
    <3> QED
      BY <1>2, <3>1, <3>2, <3>3
  <2>3. StartUpInv'
    BY <1>2 DEF StartUpInv, StopsJobs, ClosesClients, Stops, paramVars, feedVars, hostVars
  <2> QED
    BY <2>1, <2>2, <2>3
<1>3. CASE Closes
  <2>1. ParamTypeOK'
    <3>1. channel' \in Seq(Updates)
      BY <1>3 DEF Closes
    <3>2. lost' \in BOOLEAN /\ stale' \in BOOLEAN /\ shared' \in BOOLEAN
      BY <1>3 DEF Closes, TypeOK, ParamTypeOK
    <3> QED
      BY <1>3, <3>1, <3>2 DEF Closes, TypeOK, ParamTypeOK
  <2>2. TypeOK'
    BY <1>3, <2>1 DEF Closes, TypeOK, hostVars
  <2>3. StartUpInv'
    BY <1>3 DEF Closes, StartUpInv, hostVars
  <2>4. CopyInv'
    BY <1>3 DEF Closes, CopyInv
  <2>5. MessageInv'
    <3>1. built' = built /\ built = 3 /\ shared' = shared /\ channel' = <<>>
      BY <1>3 DEF Closes, StartUpInv
    <3>2. watcher' # "listening" /\ (watcher' # "ended" => watcher' = "off")
      BY <1>3 DEF Closes, TypeOK, ParamTypeOK
    <3>3. publishing' = publishing /\ params' = params /\ last' = last /\ lost' = lost
      BY <1>3 DEF Closes
    <3>4. watcher' = "off" => watcher = "off"
      BY <1>3 DEF Closes
    <3> QED
      BY <3>1, <3>2, <3>3, <3>4 DEF MessageInv
  <2> QED
    BY <2>1, <2>2, <2>3, <2>4, <2>5
<1>4. CASE Restart
  <2>1. ParamTypeOK'
    <3>1. shared' \in BOOLEAN /\ lost' \in BOOLEAN /\ stale' \in BOOLEAN
      BY <1>4 DEF Restart, TypeOK, ParamTypeOK
    <3>2. params' \in Values /\ posted' \in Values /\ last' \in Values
      BY <1>4, Constants DEF Restart, TypeOK, ParamTypeOK
    <3>3. publishing' \subseteq Updates /\ watcher' \in {"off", "listening", "ended"}
      BY <1>4 DEF Restart
    <3>4. channel' \in Seq(Updates)
      BY <1>4 DEF Restart
    <3>5. due' \in Nat /\ writing' \in [Values -> Nat] /\ hash' \in Values \cup {None}
      BY <1>4, Constants DEF Restart, TypeOK, ParamTypeOK
    <3> QED
      BY <3>1, <3>2, <3>3, <3>4, <3>5 DEF ParamTypeOK
  <2>2. TypeOK'
    <3>1. jobs' \in BOOLEAN /\ running' \in BOOLEAN /\ link' \in BOOLEAN /\ stopSet' \in BOOLEAN
          /\ cancelled' \in BOOLEAN /\ inUse' \in BOOLEAN
      BY <1>4 DEF Restart, Boot
    <3> QED
      BY <1>4, <2>1, <3>1 DEF TypeOK, Restart, Boot
  <2>3. StartUpInv' /\ CopyInv' /\ MessageInv'
    BY <1>4 DEF StartUpInv, CopyInv, MessageInv, Restart, Boot
  <2> QED
    BY <2>1, <2>2, <2>3
<1> QED
  BY <1>1, <1>2, <1>3, <1>4 DEF HostStep

LEMMA LifecycleInvariant == Spec => []LifecycleInv
<1>1. LifecycleInv /\ [Next]_vars => LifecycleInv'
  <2> SUFFICES ASSUME LifecycleInv, [Next]_vars PROVE LifecycleInv'
    OBVIOUS
  <2>1. CASE UNCHANGED vars
    <3>1. ParamTypeOK' /\ CopyInv' /\ MessageInv'
      BY <2>1, ParamsKept DEF vars, buildVars
    <3>2. TypeOK' /\ StartUpInv'
      BY <2>1, <3>1
         DEF LifecycleInv, TypeOK, StartUpInv, vars, paramVars, buildVars, feedVars, hostVars
    <3> QED
      BY <3>1, <3>2 DEF LifecycleInv
  <2> QED
    BY <2>1, BuildHolds, EngineHolds, HostHolds, ParamsChangeHolds DEF Next
<1> QED
  BY <1>1, InitHolds, PTL DEF Spec

-------------------------------------------------------------------------------

\* Every variable keeps its type, for any number of updates.
THEOREM LifecycleTypes == Spec => []TypeOK
<1>1. LifecycleInv => TypeOK
  BY DEF LifecycleInv
<1> QED
  BY <1>1, LifecycleInvariant, PTL

\* No tick is handled before everybody has subscribed, whichever task starts
\* first and however often the feed reconnects (main.py:111-201, engine.py:59-66).
THEOREM FirstTickHeard == Spec => []TickFindsHandlers
<1>1. LifecycleInv => TickFindsHandlers
  BY DEF LifecycleInv, StartUpInv, TickFindsHandlers
<1> QED
  BY <1>1, LifecycleInvariant, PTL

\* For any number of updates and of processes that post them, the hash holds the
\* engine's parameters when no copy is under way, unless the newest copy failed
\* or was overlapped by an older one and no change has come since; and the engine
\* has the parameters of the last message when none is under way, unless one was
\* lost and none has come since (store.py:54-70, main.py:274-280).
THEOREM ParamsAgree == Spec => [](HashFollowsParams /\ LastMessageWins)
<1>1. LifecycleInv => HashFollowsParams
  <2> SUFFICES ASSUME LifecycleInv, shared, due = 0, writing = Idle, ~stale
               PROVE  hash = params
    BY DEF HashFollowsParams
  <2>1. params \in Values /\ writing[params] = 0
    BY DEF LifecycleInv, TypeOK, ParamTypeOK, Idle
  <2> QED
    BY <2>1 DEF LifecycleInv, CopyInv
<1>2. LifecycleInv => LastMessageWins
  BY DEF LifecycleInv, MessageInv, LastMessageWins
<1> QED
  BY <1>1, <1>2, LifecycleInvariant, PTL

\* The second half by itself: in every process that still watches, the parameters
\* are those of the last message once all have arrived, or the next one after a
\* loss has (dashboard.py:826-833, main.py:274-280).
THEOREM LastMessageStays == Spec => []LastMessageWins
<1>1. HashFollowsParams /\ LastMessageWins => LastMessageWins
  OBVIOUS
<1> QED
  BY <1>1, ParamsAgree, PTL

===============================================================================
