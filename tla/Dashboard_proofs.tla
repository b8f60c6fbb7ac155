--------------------------- MODULE Dashboard_proofs ----------------------------
(***************************************************************************)
(* Proofs about Dashboard: the order of the events in the stream, and the  *)
(* place of the reader, for any number of clients, events and outages.     *)
(*                                                                         *)
(* The invariant has a part for each of the actors: publications (BusInv), *)
(* broadcasts (CastInv) and the reader (ReaderInv).                        *)
(***************************************************************************)
EXTENDS Dashboard, FiniteSetTheorems, SequenceTheorems, TLAPS

\* An event is handled for as long as the events that its handlers published, so
\* whoever caused an event that is still handled is still handled as well; only
\* what has been handled is in the stream.
StoryInv ==
  /\ Len(cause) <= MaxEvents
  /\ \A f \in DOMAIN cause : cause[f] < f
  /\ \A f \in calling : f \in DOMAIN cause /\ (cause[f] = 0 \/ cause[f] \in calling)
  /\ \A i \in DOMAIN stream : stream[i] \in DOMAIN cause /\ stream[i] \notin calling
  /\ Len(stream) + Cardinality(calling) <= Len(cause)

BusInv ==
  /\ mode \in {"memory", "redis"}
  /\ cause \in Seq(0 .. MaxEvents) /\ calling \subseteq Events /\ stream \in Seq(Events)
  /\ StoryInv /\ EffectsFirst

LinkInv == up \in BOOLEAN /\ outages \in 0 .. MaxOutages

ClientInv == clients \subseteq Clients /\ alive \subseteq Clients

\* An iterator whose set did not change has a slot for every client it has yet to
\* meet; the reader awaits its broadcast.
CastInv ==
  /\ casts \subseteq Casts
  /\ \A b \in casts : b.stale \/ Cardinality(b.todo) <= b.slots
  /\ mode = "redis" => casts = {} \/ \E b \in Casts : casts = {b}

\* What the reader has not forwarded are consecutive places of the stream, the
\* first of them the one after stream_id if the stream still has it.
PlaceInv ==
  /\ mode = "memory" => reader = "top"
  /\ lastId <= Len(stream)
  /\ reader = "blocked" => from <= Len(stream) /\ lastId \in {Dollar, from}
  /\ batch # <<>> => reader = "forwarding"
  /\ \A i \in DOMAIN batch : batch[i] = batch[1] + i - 1 /\ batch[i] <= Len(stream)
  /\ batch # <<>> /\ lastId # Dollar =>
       /\ lastId < batch[1]
       /\ Len(stream) - lastId <= MaxLen => batch[1] = lastId + 1

ReaderInv ==
  /\ reader \in {"top", "blocked", "forwarding"} /\ lastId \in Events \cup {Dollar}
  /\ from \in 0 .. MaxEvents /\ batch \in Seq(Events)
  /\ PlaceInv

DashInv == BusInv /\ LinkInv /\ ClientInv /\ CastInv /\ ReaderInv

-------------------------------------------------------------------------------
\* What the parts depend on.

LEMMA Constants ==
  /\ MaxEvents \in Nat /\ MaxCalling \in Nat /\ MaxOutages \in Nat /\ Slots \in Nat
  /\ MaxLen \in Nat \ {0} /\ BatchSize \in Nat \ {0}
  /\ IsFiniteSet(Clients) /\ Cardinality(Clients) \in Nat /\ Cardinality(Clients) <= Slots
BY DashboardAssumption, FS_CardinalityType

LEMMA BusKept == BusInv /\ UNCHANGED busVars => BusInv'
BY DEF BusInv, StoryInv, EffectsFirst, busVars, Events

LEMMA LinkKept == LinkInv /\ UNCHANGED redisVars => LinkInv'
BY DEF LinkInv, redisVars

LEMMA ClientsKept == ClientInv /\ UNCHANGED clientVars => ClientInv'
BY DEF ClientInv, clientVars

LEMMA CastsKept == CastInv /\ UNCHANGED <<mode, casts>> => CastInv'
BY DEF CastInv, Casts, Events

LEMMA ReaderKept == ReaderInv /\ UNCHANGED <<mode, stream, readerVars>> => ReaderInv'
BY DEF ReaderInv, PlaceInv, readerVars, Events, Dollar

-------------------------------------------------------------------------------
\* Broadcasts.

LEMMA Sizes ==
  ASSUME NEW S \in SUBSET Clients
  PROVE  /\ IsFiniteSet(S) /\ Cardinality(S) \in Nat /\ Cardinality(S) <= Cardinality(Clients)
         /\ Cardinality(S) = 0 <=> S = {}
BY Constants, FS_Subset, FS_CardinalityType, FS_EmptySet

LEMMA NewCastSound ==
  ASSUME ClientInv, clients # {}, NEW e \in Events
  PROVE  NewCast(e) \in Casts /\ Cardinality(NewCast(e).todo) <= NewCast(e).slots
<1>1. clients \in SUBSET Clients
  BY DEF ClientInv
<1>2. Cardinality(clients) \in 1 .. Cardinality(Clients) /\ Cardinality(clients) <= Slots
  BY <1>1, Sizes, Constants
<1>3. Slots \in 0 .. Slots
  BY Constants
<1> QED
  BY <1>1, <1>2, <1>3 DEF NewCast, Casts

LEMMA DisturbedSound ==
  ASSUME NEW B \in SUBSET Casts
  PROVE  /\ Disturbed(B) \in SUBSET Casts
         /\ \A b \in Disturbed(B) : b.stale
         /\ B = {} => Disturbed(B) = {}
         /\ \A b \in Casts : B = {b} => Disturbed(B) = {[b EXCEPT !.stale = TRUE]}
<1>1. \A b \in B : [b EXCEPT !.stale = TRUE] \in Casts /\ [b EXCEPT !.stale = TRUE].stale
  BY DEF Casts
<1> QED
  BY <1>1 DEF Disturbed

\* A change of the set of clients disturbs what is left of the broadcasts.
LEMMA DisturbedHolds ==
  ASSUME CastInv, mode' = mode, NEW B \in SUBSET casts, casts' = Disturbed(B)
  PROVE  CastInv'
<1>1. B \in SUBSET Casts
  BY DEF CastInv
<1>2. Disturbed(B) \in SUBSET Casts /\ \A b \in Disturbed(B) : b.stale
  BY <1>1, DisturbedSound
<1>3. ASSUME mode = "redis" PROVE Disturbed(B) = {} \/ \E b \in Casts : Disturbed(B) = {b}
  <2>1. B = {} \/ \E b \in Casts : B = {b}
    BY <1>3 DEF CastInv
  <2>2. CASE B = {}
    BY <2>2, <1>1, DisturbedSound
  <2>3. ASSUME NEW b \in Casts, B = {b} PROVE \E d \in Casts : Disturbed(B) = {d}
    <3>1. Disturbed(B) = {[b EXCEPT !.stale = TRUE]}
      BY <2>3, <1>1, DisturbedSound
    <3> QED
      BY <3>1, <1>2
  <2> QED
    BY <2>1, <2>2, <2>3
<1> QED
  BY <1>2, <1>3 DEF CastInv

\* One broadcast fewer, as when it raises or ends.
LEMMA FewerHolds ==
  ASSUME CastInv, mode' = mode, NEW b \in casts, casts' = casts \ {b}
  PROVE  CastInv'
BY DEF CastInv

LEMMA SendHolds ==
  ASSUME CastInv, ClientInv, mode' = mode, NEW b \in casts, NEW rest \in Rest(b),
         NEW c \in Clients, CastSends(b, rest, c)
  PROVE  CastInv'
<1> DEFINE next == [b EXCEPT !.todo = rest \ {c}, !.slots = @ - 1, !.stale = FALSE,
                             !.dead = IF c \in alive THEN @ ELSE @ \cup {c}]
<1>1. b \in Casts /\ c \in rest /\ casts' = (casts \ {b}) \cup {next}
  BY DEF CastSends, CastInv
<1>2. rest \in SUBSET Clients /\ Cardinality(rest) <= b.slots
  <2>1. CASE b.stale
    BY <2>1 DEF Rest, ClientInv
  <2>2. CASE ~b.stale
    BY <2>2, <1>1 DEF Rest, CastInv, Casts
  <2> QED
    BY <2>1, <2>2
<1>3. Cardinality(rest \ {c}) = Cardinality(rest) - 1 /\ Cardinality(rest) \in Nat
  BY <1>1, <1>2, Sizes, FS_RemoveElement
<1>4. rest # {} /\ Cardinality(rest) # 0
  BY <1>1, <1>2, Sizes
<1>5. b.slots - 1 \in 0 .. Slots /\ Cardinality(rest \ {c}) <= b.slots - 1
  <2>1. b.slots \in 0 .. Slots
    BY <1>1 DEF Casts
  <2> QED
    BY <2>1, <1>2, <1>3, <1>4, Constants
<1>6. next \in Casts
  <2>1. rest \ {c} \in SUBSET Clients
    BY <1>2
  <2>2. (IF c \in alive THEN b.dead ELSE b.dead \cup {c}) \in SUBSET Clients
    BY <1>1 DEF Casts
  <2> QED
    BY <1>1, <1>5, <2>1, <2>2 DEF Casts
<1>7. next.todo = rest \ {c} /\ next.slots = b.slots - 1
  BY <1>1 DEF Casts
<1> HIDE DEF next
<1>8. casts' \subseteq Casts
  BY <1>1, <1>6 DEF CastInv
<1>9. \A d \in casts' : d.stale \/ Cardinality(d.todo) <= d.slots
  BY <1>1, <1>5, <1>7 DEF CastInv
<1>10. mode = "redis" => casts' = {next}
  BY <1>1 DEF CastInv
<1> QED
  BY <1>6, <1>8, <1>9, <1>10 DEF CastInv

LEMMA EndHolds ==
  ASSUME CastInv, ClientInv, mode' = mode, NEW b \in casts, NEW rest \in Rest(b),
         CastEnds(b, rest)
  PROVE  CastInv' /\ clients' \subseteq Clients
<1>1. clients' \subseteq Clients
  BY DEF CastEnds, ClientInv
<1>2. ASSUME casts' = casts \ {b} PROVE CastInv'
  BY <1>2, FewerHolds
<1>3. ASSUME casts' = Disturbed(casts \ {b}) PROVE CastInv'
  <2>1. casts \ {b} \in SUBSET casts
    OBVIOUS
  <2> QED
    BY <1>3, <2>1, DisturbedHolds
<1> QED
  BY <1>1, <1>2, <1>3 DEF CastEnds

\* The reader's batch is dropped when its broadcast raises.
LEMMA DropHolds ==
  ASSUME ReaderInv, BusInv, UNCHANGED <<mode, stream, lastId, from>>, batch' = <<>>,
         reader' = IF mode = "redis" THEN "top" ELSE reader
  PROVE  ReaderInv'
<1>1. batch' \in Seq(Events) /\ reader' = "top"
  BY DEF ReaderInv, PlaceInv, BusInv
<1> QED
  BY <1>1 DEF ReaderInv, PlaceInv

LEMMA CastHolds ==
  ASSUME DashInv, Cast
  PROVE  DashInv'
<1>1. BusInv' /\ LinkInv' /\ mode' = mode /\ stream' = stream
  BY BusKept, LinkKept DEF DashInv, Cast, busVars
<1>2. alive' = alive /\ lastId' = lastId /\ from' = from
  BY DEF Cast
<1>3. PICK b \in casts :
        \/ CastRaises(b)
        \/ /\ \E rest \in Rest(b) : (\E c \in Clients : CastSends(b, rest, c)) \/ CastEnds(b, rest)
           /\ UNCHANGED <<batch, reader>>
  BY DEF Cast
<1>4. CASE CastRaises(b)
  <2>1. CastInv'
    BY <1>1, <1>4, FewerHolds DEF CastRaises, DashInv
  <2>2. ClientInv'
    BY <1>2, <1>4, ClientsKept DEF CastRaises, DashInv, clientVars
  <2>3. ReaderInv'
    BY <1>1, <1>2, <1>4, DropHolds DEF CastRaises, DashInv
  <2> QED
    BY <1>1, <2>1, <2>2, <2>3 DEF DashInv
<1>5. ASSUME NEW rest \in Rest(b), UNCHANGED <<batch, reader>>,
             (\E c \in Clients : CastSends(b, rest, c)) \/ CastEnds(b, rest)
      PROVE  DashInv'
  <2>1. ReaderInv'
    BY <1>1, <1>2, <1>5, ReaderKept DEF DashInv, readerVars
  <2>2. CASE CastEnds(b, rest)
    <3>1. CastInv' /\ clients' \subseteq Clients
      BY <1>1, <2>2, EndHolds DEF DashInv
    <3> QED
      BY <1>1, <1>2, <2>1, <3>1 DEF DashInv, ClientInv
  <2>3. ASSUME NEW c \in Clients, CastSends(b, rest, c) PROVE DashInv'
    <3>1. CastInv'
      BY <1>1, <2>3, SendHolds DEF DashInv
    <3>2. ClientInv'
      BY <1>2, <2>3, ClientsKept DEF CastSends, DashInv, clientVars
    <3> QED
      BY <1>1, <2>1, <3>1, <3>2 DEF DashInv
  <2> QED
    BY <1>5, <2>2, <2>3
<1> QED
  BY <1>3, <1>4, <1>5

-------------------------------------------------------------------------------
\* Publications.

LEMMA CallingFinite == BusInv => IsFiniteSet(calling) /\ Cardinality(calling) \in Nat
<1> SUFFICES ASSUME BusInv PROVE IsFiniteSet(calling) /\ Cardinality(calling) \in Nat
  OBVIOUS
<1>1. 1 \in Int /\ MaxEvents \in Int
  BY Constants
<1>2. IsFiniteSet(1 .. MaxEvents)
  BY <1>1, FS_Interval
<1>3. calling \subseteq 1 .. MaxEvents
  BY DEF BusInv, Events
<1>4. IsFiniteSet(calling)
  BY <1>2, <1>3, FS_Subset
<1> QED
  BY <1>4, FS_CardinalityType

LEMMA PublishHolds ==
  ASSUME DashInv, Publish
  PROVE  DashInv'
<1> DEFINE e == Len(cause) + 1
<1>1. PICK parent \in calling \cup {0} : cause' = Append(cause, parent)
  BY DEF Publish
<1>2. /\ calling' = calling \cup {e} /\ mode' = mode /\ stream' = stream
      /\ Len(cause) < MaxEvents
  BY DEF Publish
<1>3. Len(cause) \in Nat /\ e \in Events /\ parent \in 0 .. Len(cause)
  <2>1. Len(cause) \in Nat /\ DOMAIN cause = 1 .. Len(cause)
    BY DEF DashInv, BusInv
  <2>2. parent = 0 \/ parent \in DOMAIN cause
    BY <1>1 DEF DashInv, BusInv, StoryInv
  <2> QED
    BY <1>2, <2>1, <2>2, Constants DEF Events
<1>4. BusInv'
  <2>1. cause \in Seq(0 .. MaxEvents) /\ parent \in 0 .. MaxEvents
    BY <1>2, <1>3, Constants DEF DashInv, BusInv
  <2>2. /\ cause' \in Seq(0 .. MaxEvents) /\ Len(cause') = e
        /\ DOMAIN cause' = 1 .. e /\ DOMAIN cause = 1 .. Len(cause)
        /\ cause'[e] = parent /\ \A f \in DOMAIN cause : cause'[f] = cause[f]
    BY <1>1, <2>1
  <2>3. e \notin calling /\ \A i \in DOMAIN stream : stream[i] # e
    BY <1>3, <2>2 DEF DashInv, BusInv, StoryInv
  <2>4. Len(cause') <= MaxEvents
    BY <1>2, <1>3, <2>2, Constants
  <2>5. \A f \in DOMAIN cause' : cause'[f] < f
    BY <1>3, <2>2 DEF DashInv, BusInv, StoryInv
  <2>6. \A f \in calling' : f \in DOMAIN cause' /\ (cause'[f] = 0 \/ cause'[f] \in calling')
    BY <1>1, <1>2, <1>3, <2>2 DEF DashInv, BusInv, StoryInv
  <2>7. \A i \in DOMAIN stream' : stream'[i] \in DOMAIN cause' /\ stream'[i] \notin calling'
    BY <1>2, <1>3, <2>2, <2>3 DEF DashInv, BusInv, StoryInv
  <2>8. Len(stream') + Cardinality(calling') <= Len(cause')
    <3>1. IsFiniteSet(calling) /\ Cardinality(calling) \in Nat
      BY CallingFinite DEF DashInv
    <3>2. Cardinality(calling') = Cardinality(calling) + 1
      BY <1>2, <2>3, <3>1, FS_AddElement
    <3>3. Len(stream) \in Nat
      BY DEF DashInv, BusInv
    <3> QED
      BY <1>2, <1>3, <2>2, <3>1, <3>2, <3>3 DEF DashInv, BusInv, StoryInv
  <2>9. EffectsFirst'
    BY <1>2, <2>2 DEF DashInv, BusInv, StoryInv, EffectsFirst
  <2>10. calling' \subseteq Events /\ mode' \in {"memory", "redis"} /\ stream' \in Seq(Events)
    BY <1>2, <1>3 DEF DashInv, BusInv, Events
  <2> QED
    BY <2>2, <2>4, <2>5, <2>6, <2>7, <2>8, <2>9, <2>10 DEF BusInv, StoryInv, Events
<1>5. CastInv'
  <2>1. CASE mode = "memory" /\ clients # {}
    <3>1. casts' = casts \cup {NewCast(e)}
      BY <2>1 DEF Publish
    <3>2. NewCast(e) \in Casts /\ Cardinality(NewCast(e).todo) <= NewCast(e).slots
      BY <1>3, <2>1, NewCastSound DEF DashInv
    <3> QED
      BY <1>2, <2>1, <3>1, <3>2 DEF DashInv, CastInv
  <2>2. CASE ~(mode = "memory" /\ clients # {})
    BY <1>2, <2>2, CastsKept DEF DashInv, Publish
  <2> QED
    BY <2>1, <2>2
<1>6. LinkInv' /\ ClientInv' /\ ReaderInv'
  BY LinkKept, ClientsKept, ReaderKept DEF DashInv, Publish
<1> QED
  BY <1>4, <1>5, <1>6 DEF DashInv

LEMMA ReturnHolds ==
  ASSUME DashInv, PublishReturns
  PROVE  DashInv'
<1>1. PICK e \in calling :
        /\ Handled(e)
        /\ stream' = IF mode = "redis" /\ up THEN Append(stream, e) ELSE stream
        /\ calling' = calling \ {e}
        /\ UNCHANGED <<mode, cause, redisVars, clientVars, casts, readerVars>>
  BY DEF PublishReturns
<1>2. /\ stream \in Seq(Events) /\ Len(stream) \in Nat /\ DOMAIN stream = 1 .. Len(stream)
      /\ e \in Events /\ e \in DOMAIN cause /\ Len(cause) \in Nat
      /\ cause \in Seq(0 .. MaxEvents) /\ calling \subseteq Events
  BY <1>1 DEF DashInv, BusInv, StoryInv
<1>3. IsFiniteSet(calling) /\ Cardinality(calling) \in Nat
  BY CallingFinite DEF DashInv
<1>4. Cardinality(calling') = Cardinality(calling) - 1
  BY <1>1, <1>3, FS_RemoveElement
<1>5. \A f \in calling' : f \in DOMAIN cause' /\ (cause'[f] = 0 \/ cause'[f] \in calling')
  BY <1>1 DEF DashInv, BusInv, StoryInv, Handled
<1>6. BusInv' /\ Len(stream') >= Len(stream)
  <2>1. CASE stream' = stream
    <3>1. StoryInv'
      <4>1. Len(stream') + Cardinality(calling') <= Len(cause')
        <5>1. Len(stream) + Cardinality(calling) <= Len(cause)
          BY DEF DashInv, BusInv, StoryInv
        <5>2. cause' = cause /\ stream' = stream
          BY <1>1, <2>1
        <5> QED
          BY <1>2, <1>3, <1>4, <5>1, <5>2
      <4> QED
        BY <1>1, <1>5, <2>1, <4>1 DEF DashInv, BusInv, StoryInv
    <3>2. EffectsFirst'
      BY <1>1, <2>1 DEF DashInv, BusInv, EffectsFirst
    <3>3. mode' \in {"memory", "redis"} /\ calling' \subseteq Events
      BY <1>1 DEF DashInv, BusInv
    <3>4. Len(stream') >= Len(stream)
      BY <1>2, <2>1
    <3> QED
      BY <1>1, <1>2, <2>1, <3>1, <3>2, <3>3, <3>4 DEF BusInv, Events
  <2>2. CASE stream' = Append(stream, e)
    <3> DEFINE n == Len(stream) + 1
    <3>1. /\ stream' \in Seq(Events) /\ Len(stream') = n
          /\ DOMAIN stream' = 1 .. n /\ stream'[n] = e
          /\ \A i \in DOMAIN stream : stream'[i] = stream[i]
      BY <1>2, <2>2
    <3>2. \A i \in DOMAIN stream' : stream'[i] \in DOMAIN cause' /\ stream'[i] \notin calling'
      BY <1>1, <1>2, <3>1 DEF DashInv, BusInv, StoryInv
    <3>3. Len(stream') + Cardinality(calling') <= Len(cause')
      BY <1>1, <1>2, <1>3, <1>4, <3>1 DEF DashInv, BusInv, StoryInv
    <3>4. StoryInv'
      BY <1>1, <1>5, <3>2, <3>3 DEF DashInv, BusInv, StoryInv
    <3>5. EffectsFirst'
      <4> SUFFICES ASSUME NEW i \in DOMAIN stream', NEW j \in DOMAIN stream',
                          cause[stream'[i]] = stream'[j]
                   PROVE  i < j
        BY <1>1 DEF EffectsFirst
      <4>1. CASE i < n /\ j < n
        BY <1>2, <3>1, <4>1 DEF DashInv, BusInv, EffectsFirst
      <4>2. CASE i = n /\ j = n
        BY <1>2, <3>1, <4>2 DEF DashInv, BusInv, StoryInv
      <4>3. CASE i = n /\ j < n
        <5>1. stream[j] \in Events /\ stream[j] \notin calling /\ cause[e] = stream[j]
          BY <1>2, <3>1, <4>3 DEF DashInv, BusInv, StoryInv
        <5>2. cause[e] # 0
          BY <5>1, Constants DEF Events
        <5> QED
          BY <1>1, <5>1, <5>2 DEF DashInv, BusInv, StoryInv
      <4> QED
        BY <1>2, <3>1, <4>1, <4>2, <4>3
    <3> QED
      BY <1>1, <1>2, <3>1, <3>4, <3>5 DEF DashInv, BusInv, Events
  <2> QED
    BY <1>1, <2>1, <2>2
<1>7. CastInv' /\ LinkInv' /\ ClientInv'
  BY <1>1, CastsKept, LinkKept, ClientsKept DEF DashInv
<1>8. ReaderInv'
  <2>1. Len(stream') \in Nat
    BY <1>6 DEF BusInv
  <2>2. lastId \in Int /\ from \in Nat /\ MaxLen \in Nat
    BY Constants DEF DashInv, ReaderInv, Events, Dollar
  <2>3. \A i \in DOMAIN batch : batch[i] \in Nat
    <3>1. batch \in Seq(Events) /\ Events \subseteq Nat
      BY Constants DEF DashInv, ReaderInv, Events
    <3> QED
      <4>1. DOMAIN batch = 1 .. Len(batch) /\ \A i \in 1 .. Len(batch) : batch[i] \in Events
        BY <3>1, ElementOfSeq, LenProperties
      <4> QED
        BY <3>1, <4>1
  <2>4. UNCHANGED <<mode, reader, lastId, from, batch>>
    BY <1>1 DEF readerVars
  <2>5. PlaceInv'
    BY <1>2, <1>6, <2>1, <2>2, <2>3, <2>4 DEF DashInv, ReaderInv, PlaceInv
  <2> QED
    BY <2>4, <2>5 DEF DashInv, ReaderInv, Events, Dollar
<1> QED
  BY <1>6, <1>7, <1>8 DEF DashInv

-------------------------------------------------------------------------------
\* The reader.

\* The stream as the reader finds it.
LEMMA ReaderTypes ==
  ASSUME DashInv
  PROVE  /\ stream \in Seq(Events) /\ Len(stream) \in 0 .. MaxEvents
         /\ lastId \in Int /\ from \in Nat /\ Dollar \notin Nat
         /\ batch \in Seq(Events) /\ Events \subseteq Nat \ {0}
         /\ MaxLen \in Nat \ {0} /\ BatchSize \in Nat \ {0} /\ MaxEvents \in Nat
<1>1. /\ stream \in Seq(Events) /\ cause \in Seq(0 .. MaxEvents)
      /\ Len(cause) <= MaxEvents /\ Len(stream) + Cardinality(calling) <= Len(cause)
  BY DEF DashInv, BusInv, StoryInv
<1>2. Cardinality(calling) \in Nat
  BY CallingFinite DEF DashInv
<1>3. Len(stream) \in 0 .. MaxEvents
  BY <1>1, <1>2, Constants
<1> QED
  BY <1>1, <1>3, Constants DEF DashInv, ReaderInv, Events, Dollar

LEMMA CallsHolds ==
  ASSUME DashInv, ReaderCalls
  PROVE  ReaderInv'
<1>1. /\ mode' = mode /\ stream' = stream /\ lastId' = lastId /\ batch' = batch
      /\ mode = "redis" /\ reader = "top" /\ reader' = "blocked"
      /\ from' = IF lastId = Dollar THEN Len(stream) ELSE lastId
  BY DEF ReaderCalls, busVars
<1>2. from' \in 0 .. MaxEvents /\ from' <= Len(stream)
  BY <1>1, ReaderTypes DEF DashInv, ReaderInv, PlaceInv, Events, Dollar
<1>3. batch = <<>>
  BY <1>1 DEF DashInv, ReaderInv, PlaceInv
<1> QED
  BY <1>1, <1>2, <1>3 DEF DashInv, ReaderInv, PlaceInv, Events, Dollar

LEMMA GetsHolds ==
  ASSUME DashInv, ReaderGets
  PROVE  ReaderInv'
<1> DEFINE n == IF Len(stream) - Oldest < BatchSize THEN Len(stream) - Oldest + 1 ELSE BatchSize
<1>1. /\ mode' = mode /\ stream' = stream /\ lastId' = lastId
      /\ reader = "blocked" /\ reader' = "forwarding" /\ Len(stream) > from /\ from' = 0
      /\ batch' = [i \in 1 .. n |-> Oldest + i - 1]
  BY DEF ReaderGets, busVars
<1>2. from <= Len(stream) /\ lastId \in {Dollar, from} /\ mode # "memory"
  BY <1>1 DEF DashInv, ReaderInv, PlaceInv
<1>3. /\ Oldest \in Nat \ {0} /\ Oldest <= Len(stream) /\ Oldest > from
      /\ Len(stream) - from <= MaxLen => Oldest = from + 1
  <2>1. Len(stream) \in Nat /\ from \in Nat /\ MaxLen \in Nat \ {0} /\ Len(stream) > from
    BY <1>1, ReaderTypes
  <2> QED
    BY <2>1 DEF Oldest
<1>4. n \in Nat \ {0} /\ Oldest + n - 1 <= Len(stream)
  <2>1. Len(stream) \in Nat /\ BatchSize \in Nat \ {0}
    BY ReaderTypes
  <2> QED
    BY <1>3, <2>1
<1> HIDE DEF n
<1>5. \A i \in 1 .. n : Oldest + i - 1 \in Events /\ Oldest + i - 1 <= Len(stream)
  <2>1. Len(stream) \in 0 .. MaxEvents /\ MaxEvents \in Nat
    BY ReaderTypes
  <2> QED
    BY <1>3, <1>4, <2>1 DEF Events
<1>6. /\ batch' \in Seq(Events) /\ DOMAIN batch' = 1 .. n /\ batch' # <<>>
      /\ batch'[1] = Oldest /\ \A i \in 1 .. n : batch'[i] = Oldest + i - 1
  <2>1. batch' = [i \in 1 .. n |-> Oldest + i - 1] /\ n \in Nat /\ Oldest \in Nat
    BY <1>1, <1>3, <1>4
  <2>2. batch' \in [1 .. n -> Events] /\ DOMAIN batch' = 1 .. n
    BY <1>5, <2>1
  <2>3. batch' \in Seq(Events)
    BY <2>1, <2>2, SeqDef
  <2>4. 1 \in 1 .. n
    BY <1>4
  <2>5. batch'[1] = Oldest + 1 - 1 /\ batch' # <<>>
    BY <2>1, <2>4
  <2> QED
    BY <2>1, <2>2, <2>3, <2>5
<1>7. PlaceInv'
  <2>1. \A i \in DOMAIN batch' : batch'[i] = batch'[1] + i - 1 /\ batch'[i] <= Len(stream')
    BY <1>1, <1>5, <1>6
  <2>2. lastId' # Dollar =>
          /\ lastId' < batch'[1]
          /\ Len(stream') - lastId' <= MaxLen => batch'[1] = lastId' + 1
    BY <1>1, <1>2, <1>3, <1>6
  <2>3. lastId' <= Len(stream')
    BY <1>1 DEF DashInv, ReaderInv, PlaceInv
  <2> QED
    BY <1>1, <1>2, <2>1, <2>2, <2>3 DEF PlaceInv
<1>8. from' \in 0 .. MaxEvents
  BY <1>1, Constants
<1> QED
  BY <1>1, <1>6, <1>7, <1>8 DEF DashInv, ReaderInv, Events

LEMMA GetsNothingHolds ==
  ASSUME DashInv, ReaderGetsNothing
  PROVE  ReaderInv'
<1>1. /\ mode' = mode /\ stream' = stream /\ lastId' = lastId /\ batch' = batch
      /\ reader = "blocked" /\ reader' = "top" /\ from' = 0
  BY DEF ReaderGetsNothing, busVars
<1>2. batch = <<>> /\ from' \in 0 .. MaxEvents
  BY <1>1, Constants DEF DashInv, ReaderInv, PlaceInv
<1> QED
  BY <1>1, <1>2 DEF DashInv, ReaderInv, PlaceInv, Events, Dollar

\* What forwarding an event does to the place of the reader.
LEMMA ForwardedPlace ==
  ASSUME DashInv, ReaderForwards
  PROVE  /\ Head(batch) \in Events /\ Head(batch) <= Len(stream)
         /\ lastId # Dollar => /\ lastId < Head(batch)
                               /\ Len(stream) - lastId <= MaxLen => Head(batch) = lastId + 1
         /\ Tail(batch) \in Seq(Events)
         /\ \A i \in DOMAIN Tail(batch) :
              /\ Tail(batch)[i] = Head(batch) + i /\ Tail(batch)[i] <= Len(stream)
         /\ Tail(batch) # <<>> => Tail(batch)[1] = Head(batch) + 1
<1>1. batch # <<>> /\ batch \in Seq(Events) /\ Events \subseteq Nat \ {0}
  BY ReaderTypes DEF ReaderForwards
<1>2. /\ Head(batch) = batch[1] /\ 1 \in DOMAIN batch /\ Head(batch) \in Events
      /\ Tail(batch) \in Seq(Events) /\ Len(Tail(batch)) = Len(batch) - 1
      /\ \A i \in DOMAIN Tail(batch) : i + 1 \in DOMAIN batch /\ Tail(batch)[i] = batch[i + 1]
  BY <1>1
<1>3. \A i \in DOMAIN batch : batch[i] = batch[1] + i - 1 /\ batch[i] <= Len(stream)
  BY DEF DashInv, ReaderInv, PlaceInv
<1>4. \A i \in DOMAIN Tail(batch) : Tail(batch)[i] = Head(batch) + i /\ Tail(batch)[i] <= Len(stream)
  <2> SUFFICES ASSUME NEW i \in DOMAIN Tail(batch)
               PROVE  Tail(batch)[i] = Head(batch) + i /\ Tail(batch)[i] <= Len(stream)
    OBVIOUS
  <2>1. i \in Nat /\ Head(batch) \in Nat
    <3>1. DOMAIN Tail(batch) = 1 .. Len(Tail(batch)) /\ Len(Tail(batch)) \in Nat
      BY <1>2
    <3>2. i \in 1 .. Len(Tail(batch))
      BY <3>1
    <3>3. i \in Nat
      BY <3>1, <3>2
    <3>4. Head(batch) \in Nat
      <4>1. Head(batch) \in Events /\ Events \subseteq Nat \ {0}
        BY <1>1, <1>2
      <4> QED
        BY <4>1
    <3> QED
      BY <3>3, <3>4
  <2>2. Tail(batch)[i] = batch[1] + (i + 1) - 1 /\ Tail(batch)[i] <= Len(stream)
    BY <1>2, <1>3
  <2> QED
    BY <1>2, <2>1, <2>2
<1>5. ASSUME Tail(batch) # <<>> PROVE Tail(batch)[1] = Head(batch) + 1
  <2>1. 1 \in DOMAIN Tail(batch)
    BY <1>2, <1>5
  <2> QED
    BY <1>4, <2>1
<1>6. lastId # Dollar => /\ lastId < Head(batch)
                         /\ Len(stream) - lastId <= MaxLen => Head(batch) = lastId + 1
  BY <1>1, <1>2 DEF DashInv, ReaderInv, PlaceInv
<1> QED
  BY <1>2, <1>3, <1>4, <1>5, <1>6

LEMMA ForwardsHolds ==
  ASSUME DashInv, ReaderForwards
  PROVE  ReaderInv' /\ CastInv'
<1>1. /\ mode' = mode /\ stream' = stream /\ from' = from
      /\ reader = "forwarding" /\ reader' = reader
      /\ batch' = Tail(batch) /\ lastId' = Head(batch) /\ casts = {}
      /\ casts' = IF clients = {} THEN {} ELSE {NewCast(Head(batch))}
  BY DEF ReaderForwards, busVars
<1>2. Head(batch) \in Events /\ Head(batch) \in Nat /\ Head(batch) # Dollar
  BY ForwardedPlace, ReaderTypes
<1>3. CastInv'
  <2>1. CASE clients = {}
    BY <1>1, <2>1 DEF CastInv
  <2>2. CASE clients # {}
    <3>1. /\ NewCast(Head(batch)) \in Casts
          /\ Cardinality(NewCast(Head(batch)).todo) <= NewCast(Head(batch)).slots
      BY <1>2, <2>2, NewCastSound DEF DashInv
    <3> QED
      BY <1>1, <2>2, <3>1 DEF CastInv
  <2> QED
    BY <2>1, <2>2
<1>4. PlaceInv'
  <2>1. mode = "memory" => reader = "top"
    BY DEF DashInv, ReaderInv, PlaceInv
  <2>2. lastId' <= Len(stream')
    BY <1>1, ForwardedPlace
  <2>3. \A i \in DOMAIN batch' : batch'[i] = batch'[1] + i - 1 /\ batch'[i] <= Len(stream')
    <3> SUFFICES ASSUME NEW i \in DOMAIN batch'
                 PROVE  batch'[i] = batch'[1] + i - 1 /\ batch'[i] <= Len(stream')
      OBVIOUS
    <3>1. batch' # <<>> /\ i \in Nat
      BY <1>1, ForwardedPlace
    <3>2. batch'[1] = Head(batch) + 1 /\ batch'[i] = Head(batch) + i
      BY <1>1, <3>1, ForwardedPlace
    <3>3. batch'[i] <= Len(stream')
      BY <1>1, ForwardedPlace
    <3> QED
      BY <1>2, <3>1, <3>2, <3>3
  <2>4. batch' # <<>> => batch'[1] = lastId' + 1 /\ lastId' < batch'[1]
    BY <1>1, <1>2, ForwardedPlace
  <2> QED
    BY <1>1, <2>1, <2>2, <2>3, <2>4 DEF PlaceInv
<1> QED
  BY <1>1, <1>2, <1>3, <1>4, ForwardedPlace DEF DashInv, ReaderInv, Events

LEMMA LoopsHolds ==
  ASSUME DashInv, ReaderLoops
  PROVE  ReaderInv'
<1>1. /\ mode' = mode /\ stream' = stream /\ lastId' = lastId /\ batch' = batch /\ from' = from
      /\ batch = <<>> /\ reader = "forwarding" /\ reader' = "top"
  BY DEF ReaderLoops, busVars
<1> QED
  BY <1>1 DEF DashInv, ReaderInv, PlaceInv, Events, Dollar

LEMMA ReaderHolds ==
  ASSUME DashInv, ReaderStep
  PROVE  DashInv'
<1>1. BusInv' /\ LinkInv' /\ ClientInv'
  BY BusKept, LinkKept, ClientsKept
     DEF DashInv, ReaderStep, ReaderCalls, ReaderGets, ReaderGetsNothing, ReaderForwards, ReaderLoops
<1>2. CASE ReaderForwards
  BY <1>1, <1>2, ForwardsHolds DEF DashInv
<1>3. CASE ReaderCalls \/ ReaderGets \/ ReaderGetsNothing \/ ReaderLoops
  <2>1. ReaderInv'
    BY <1>3, CallsHolds, GetsHolds, GetsNothingHolds, LoopsHolds
  <2>2. CastInv'
    BY <1>3, CastsKept DEF DashInv, ReaderCalls, ReaderGets, ReaderGetsNothing, ReaderLoops, busVars
  <2> QED
    BY <1>1, <2>1, <2>2 DEF DashInv
<1> QED
  BY <1>2, <1>3 DEF ReaderStep

-------------------------------------------------------------------------------
\* The clients and Redis, and the whole.

LEMMA ClientHolds ==
  ASSUME DashInv, NEW c \in Clients, Connect(c) \/ Leaves(c) \/ Disconnect(c)
  PROVE  DashInv'
<1>1. BusInv' /\ LinkInv' /\ ReaderInv' /\ mode' = mode
  BY BusKept, LinkKept, ReaderKept DEF DashInv, Connect, Leaves, Disconnect, busVars
<1>2. ClientInv'
  BY DEF DashInv, ClientInv, Connect, Leaves, Disconnect
<1>3. CastInv'
  <2>1. CASE Leaves(c)
    BY <1>1, <2>1, CastsKept DEF DashInv, Leaves
  <2>2. CASE Connect(c) \/ Disconnect(c)
    <3>1. casts' = Disturbed(casts) /\ casts \in SUBSET casts
      BY <2>2 DEF Connect, Disconnect
    <3> QED
      BY <1>1, <3>1, DisturbedHolds DEF DashInv
  <2> QED
    BY <2>1, <2>2
<1> QED
  BY <1>1, <1>2, <1>3 DEF DashInv

LEMMA RedisHolds ==
  ASSUME DashInv, RedisGoes \/ RedisReturns
  PROVE  DashInv'
<1>1. BusInv' /\ ClientInv' /\ CastInv' /\ ReaderInv'
  BY BusKept, ClientsKept, CastsKept, ReaderKept DEF DashInv, RedisGoes, RedisReturns, busVars
<1>2. LinkInv'
  <2>1. outages \in 0 .. MaxOutages /\ MaxOutages \in Nat
    BY Constants DEF DashInv, LinkInv
  <2>2. CASE RedisGoes
    <3>1. up' = FALSE /\ outages' = outages + 1 /\ outages < MaxOutages
      BY <2>2 DEF RedisGoes
    <3>2. outages' \in 0 .. MaxOutages
      BY <2>1, <3>1
    <3>3. up' \in BOOLEAN
      BY <3>1, Zenon
    <3> QED
      BY <3>2, <3>3 DEF LinkInv
  <2>3. CASE RedisReturns
    BY <2>1, <2>3 DEF LinkInv, RedisReturns
  <2> QED
    BY <2>2, <2>3
<1> QED
  BY <1>1, <1>2 DEF DashInv

LEMMA InitHolds == Init => DashInv
<1> SUFFICES ASSUME Init PROVE DashInv
  OBVIOUS
<1>1. BusInv
  <2>1. cause = <<>> /\ calling = {} /\ stream = <<>> /\ Cardinality(calling) = 0
    BY FS_EmptySet DEF Init
  <2>2. mode \in {"memory", "redis"}
    BY DEF Init
  <2> QED
    BY <2>1, <2>2, Constants DEF BusInv, StoryInv, EffectsFirst
<1>2. LinkInv /\ ClientInv
  BY Constants DEF Init, LinkInv, ClientInv
<1>3. CastInv
  BY DEF Init, CastInv
<1>4. ReaderInv
  BY Constants DEF Init, ReaderInv, PlaceInv, Dollar
<1> QED
  BY <1>1, <1>2, <1>3, <1>4 DEF DashInv

LEMMA StutterHolds == DashInv /\ UNCHANGED vars => DashInv'
BY BusKept, LinkKept, ClientsKept, CastsKept, ReaderKept DEF DashInv, vars, busVars

LEMMA DashInvariant == Spec => []DashInv
<1>1. DashInv /\ [Next]_vars => DashInv'
  BY PublishHolds, ReturnHolds, CastHolds, ReaderHolds, ClientHolds, RedisHolds, StutterHolds
     DEF Next
<1> QED
  BY <1>1, InitHolds, PTL DEF Spec

-------------------------------------------------------------------------------

\* Every variable keeps its type, for any number of clients, events and outages;
\* the reader has one broadcast under way at most (dashboard.py:121-126).
THEOREM DashboardTypes == Spec => []TypeOK
<1>1. DashInv => TypeOK
  <2> SUFFICES ASSUME DashInv PROVE TypeOK
    OBVIOUS
  <2>1. mode = "redis" => Cardinality(casts) <= 1
    <3>1. mode = "redis" => casts = {} \/ \E b \in Casts : casts = {b}
      BY DEF DashInv, CastInv
    <3>2. Cardinality({}) = 0 /\ \A b \in Casts : Cardinality({b}) = 1
      BY FS_EmptySet, FS_Singleton
    <3> QED
      BY <3>1, <3>2
  <2> QED
    BY <2>1 DEF DashInv, BusInv, LinkInv, ClientInv, CastInv, ReaderInv, TypeOK
<1> QED
  BY <1>1, DashInvariant, PTL

\* However publications nest and end, whatever a handler published is in the
\* stream before the event that it handled (event_bus_redis.py:97-106).
THEOREM StreamRunsBackwards == Spec => []EffectsFirst
<1>1. DashInv => EffectsFirst
  BY DEF DashInv, BusInv
<1> QED
  BY <1>1, DashInvariant, PTL

\* Batches of any size that are dropped at any event, outages and clients that
\* come and go: the reader goes back over nothing and leaves out nothing that the
\* stream has not dropped itself (dashboard.py:113-130).
THEOREM ReaderSkipsNothingHolds == Spec => ReaderSkipsNothing
<1> DEFINE Forward == lastId' # lastId /\ lastId # Dollar =>
                        /\ lastId' > lastId
                        /\ Len(stream) - lastId <= MaxLen => lastId' = lastId + 1
<1>1. DashInv /\ [Next]_vars => [Forward]_vars
  <2> SUFFICES ASSUME DashInv, Next, lastId' # lastId, lastId # Dollar
               PROVE  /\ lastId' > lastId
                      /\ Len(stream) - lastId <= MaxLen => lastId' = lastId + 1
    OBVIOUS
  <2>1. ReaderForwards
    BY DEF Next, Publish, PublishReturns, Cast, ReaderStep, ReaderCalls, ReaderGets,
           ReaderGetsNothing, ReaderLoops, Connect, Leaves, Disconnect, RedisGoes, RedisReturns,
           readerVars
  <2>2. lastId' = Head(batch)
    BY <2>1 DEF ReaderForwards
  <2>3. lastId \in Int /\ Head(batch) \in Int
    BY <2>1, ForwardedPlace, ReaderTypes
  <2> QED
    BY <2>1, <2>2, <2>3, ForwardedPlace
<1>2. Spec => [][Forward]_vars
  BY <1>1, DashInvariant, PTL DEF Spec
<1> QED
  BY <1>2 DEF ReaderSkipsNothing
===============================================================================
