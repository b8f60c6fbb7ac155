------------------------- MODULE SignalPipeline_proofs -------------------------
(***************************************************************************)
(* Proofs about MarketData, that the window a strategy reads is the        *)
(* exchange's newest candles; and about SignalPipeline, that a cross of    *)
(* the moving averages is heard once, with what windows the trained model  *)
(* is used, and that a signal says what the exchange's own candles say.    *)
(* The indicators fold the list in memory in one order and the property    *)
(* sums minutes in another: the lemmas about sums show that no order       *)
(* matters.                                                                *)
(***************************************************************************)
EXTENDS SignalPipeline, SequenceTheorems, FiniteSetTheorems, TLAPS

-------------------------------------------------------------------------------
\* MarketData.

\* The end of the list in memory is the batch fetched last.
Recent ==
  candles # <<>> =>
    /\ Len(candles) >= Count
    /\ \A i \in 1 .. Count :
         candles[Len(candles) - Count + i] =
           [at |-> Len(market) - Count + i, close |-> market[Len(market) - Count + i]]

MarketInv == MarketTypeOK /\ Recent

LEMMA BatchIs ==
  ASSUME NEW closes \in Seq(Closes), Len(closes) \in Count .. MaxCandles
  PROVE  /\ Batch(closes) \in Seq(Candles) /\ Len(Batch(closes)) = Count
         /\ \A i \in 1 .. Count : Batch(closes)[i] =
              [at |-> Len(closes) - Count + i, close |-> closes[Len(closes) - Count + i]]
<1>1. Count \in Nat \ {0} /\ MaxCandles \in Nat
  BY MarketDataAssumption
<1> DEFINE row(i) == [at |-> Len(closes) - Count + i,
                      close |-> closes[Len(closes) - Count + i]]
<1>2. ASSUME NEW i \in 1 .. Count
      PROVE  row(i) \in Candles
  <2>1. Len(closes) - Count + i \in 1 .. Len(closes)
    BY <1>1
  <2>2. closes[Len(closes) - Count + i] \in Closes
    BY <2>1, ElementOfSeq
  <2>3. Len(closes) - Count + i \in 1 .. MaxCandles
    BY <2>1, <1>1
  <2> QED
    BY <2>2, <2>3 DEF Candles
<1>3. Batch(closes) = [i \in 1 .. Count |-> row(i)]
  BY DEF Batch
<1> HIDE DEF row
<1>4. [i \in 1 .. Count |-> row(i)] \in Seq(Candles)
  BY <1>1, <1>2, IsASeq
<1>5. Len([i \in 1 .. Count |-> row(i)]) = Count
  BY <1>1, <1>4, LenProperties
<1> QED
  BY <1>3, <1>4, <1>5 DEF row

LEMMA InitMarket == MarketInit => MarketInv
<1> SUFFICES ASSUME MarketInit PROVE MarketInv
  OBVIOUS
<1>1. Count \in Nat \ {0} /\ MaxCandles \in Nat /\ Count <= MaxCandles /\ MaxBatches \in Nat
  BY MarketDataAssumption
<1>2. market \in Seq(Closes) /\ Len(market) = Count
  BY <1>1, SeqDef DEF MarketInit
<1>3. candles \in Seq(Candles) /\ saved \subseteq Candles /\ batches \in 0 .. MaxBatches
  BY <1>1, EmptySeq DEF MarketInit
<1> QED
  BY <1>1, <1>2, <1>3 DEF MarketInit, MarketInv, MarketTypeOK, Recent


\* Whatever the exchange did since, its candles stay a sequence of closes.
LEMMA MovedIs ==
  ASSUME MarketTypeOK, NEW closes \in Moved
  PROVE  closes \in Seq(Closes) /\ Len(closes) \in Count .. MaxCandles
<1>1. /\ Count \in Nat \ {0} /\ MaxCandles \in Nat
      /\ market \in Seq(Closes) /\ Len(market) \in Count .. MaxCandles
  BY MarketDataAssumption DEF MarketTypeOK
<1> DEFINE n == Len(market)
           old == SubSeq(market, 1, n - 1)
<1>2. PICK k \in 0 .. MaxCandles - n : \E new \in [1 .. k + 1 -> Closes] : closes = old \o new
  BY DEF Moved
<1>3. PICK new \in [1 .. k + 1 -> Closes] : closes = old \o new
  BY <1>2
<1>4. n \in Nat /\ k \in Nat /\ k + 1 \in Nat
  BY <1>1
<1>5. new \in Seq(Closes)
  BY <1>4, SeqDef
<1>6. Len(new) = k + 1
  BY <1>4, <1>5, LenProperties
<1>7. \A i \in 1 .. n - 1 : market[i] \in Closes
  BY <1>1, ElementOfSeq
<1>8. old \in Seq(Closes) /\ Len(old) = (IF 1 <= n - 1 THEN n - 1 - 1 + 1 ELSE 0)
  BY <1>4, <1>7, SubSeqProperties
<1> HIDE DEF old
<1>9. closes \in Seq(Closes) /\ Len(closes) = Len(old) + Len(new)
  BY <1>3, <1>5, <1>8, ConcatProperties
<1>10. n \in Count .. MaxCandles
  BY <1>1
<1> HIDE DEF n
<1>11. Len(old) = n - 1
  BY <1>1, <1>4, <1>8, <1>10
<1>12. Len(closes) = n + k
  BY <1>4, <1>6, <1>9, <1>11
<1>13. n + k \in Count .. MaxCandles
  BY <1>1, <1>4, <1>10
<1> QED
  BY <1>9, <1>12, <1>13

LEMMA BatchAppended ==
  ASSUME MarketInv, NEW closes \in Seq(Closes), Len(closes) \in Count .. MaxCandles
  PROVE  LET list == candles \o Batch(closes) IN
         /\ list \in Seq(Candles) /\ Len(list) >= Count
         /\ \A i \in 1 .. Count : list[Len(list) - Count + i] =
              [at |-> Len(closes) - Count + i, close |-> closes[Len(closes) - Count + i]]
<1>1. Count \in Nat \ {0} /\ candles \in Seq(Candles)
  BY MarketDataAssumption DEF MarketInv, MarketTypeOK
<1>2. Len(candles) \in Nat
  BY <1>1, LenProperties
<1> DEFINE list == candles \o Batch(closes)
           row(i) == [at |-> Len(closes) - Count + i,
                      close |-> closes[Len(closes) - Count + i]]
<1>3. /\ Batch(closes) \in Seq(Candles) /\ Len(Batch(closes)) = Count
      /\ \A i \in 1 .. Count : Batch(closes)[i] = row(i)
  BY BatchIs
<1> HIDE DEF row
<1>4. /\ list \in Seq(Candles) /\ Len(list) = Len(candles) + Count
      /\ \A i \in 1 .. Len(candles) + Count : list[i] =
           IF i <= Len(candles) THEN candles[i] ELSE Batch(closes)[i - Len(candles)]
  BY <1>1, <1>3, ConcatProperties
<1> HIDE DEF list
<1>5. ASSUME NEW i \in 1 .. Count
      PROVE  list[Len(list) - Count + i] = row(i)
  <2>1. Len(list) - Count + i = Len(candles) + i
    BY <1>1, <1>2, <1>4
  <2>2. /\ Len(candles) + i \in 1 .. Len(candles) + Count
        /\ ~(Len(candles) + i <= Len(candles)) /\ Len(candles) + i - Len(candles) = i
    BY <1>1, <1>2
  <2>3. list[Len(candles) + i] = Batch(closes)[i]
    BY <1>4, <2>2
  <2> QED
    BY <1>3, <2>1, <2>3
<1>6. Len(list) >= Count
  BY <1>1, <1>2, <1>4
<1> QED
  BY <1>4, <1>5, <1>6 DEF list, row

\* What is saved are candles.
LEMMA InsertedIs ==
  ASSUME MarketTypeOK, NEW closes \in Seq(Closes), Len(closes) \in Count .. MaxCandles,
         saved' \in Inserted(Batch(closes))
  PROVE  saved' \subseteq Candles
<1> DEFINE b == Batch(closes)
           rows == {b[i] : i \in DOMAIN b}
<1>1. b \in Seq(Candles)
  BY BatchIs
<1>2. rows \subseteq Candles
  <2> HIDE DEF b
  <2> QED
    BY <1>1, LenProperties, ElementOfSeq
<1>3. saved' = saved \/ saved' = saved \cup rows
  BY DEF Inserted
<1> HIDE DEF rows
<1> QED
  BY <1>2, <1>3 DEF MarketTypeOK

LEMMA CollectMarket == MarketInv /\ CollectSymbol => MarketInv'
<1> SUFFICES ASSUME MarketInv, CollectSymbol PROVE MarketInv'
  OBVIOUS
<1>1. market' \in Seq(Closes) /\ Len(market') \in Count .. MaxCandles
  BY MovedIs DEF CollectSymbol, MarketInv
<1>2. candles' \in Seq(Candles) /\ Recent'
  BY <1>1, BatchAppended DEF CollectSymbol, Recent
<1>3. saved' \subseteq Candles
  BY <1>1, InsertedIs DEF CollectSymbol, MarketInv
<1>4. batches' \in 0 .. MaxBatches
  BY MarketDataAssumption DEF CollectSymbol, MarketInv, MarketTypeOK
<1> QED
  BY <1>1, <1>2, <1>3, <1>4 DEF MarketInv, MarketTypeOK

LEMMA OtherMarket == MarketInv /\ (SnapshotLost \/ UNCHANGED marketVars) => MarketInv'
<1> SUFFICES ASSUME MarketInv, SnapshotLost \/ UNCHANGED marketVars PROVE MarketInv'
  OBVIOUS
<1>1. CASE SnapshotLost
  BY <1>1, EmptySeq DEF SnapshotLost, MarketInv, MarketTypeOK, Recent
<1>2. CASE UNCHANGED marketVars
  BY <1>2 DEF marketVars, MarketInv, MarketTypeOK, Recent
<1> QED
  BY <1>1, <1>2

LEMMA WindowIsNewest == MarketInv => WindowConsecutive
<1> SUFFICES ASSUME MarketInv, NEW limit \in 1 .. Count
             PROVE  LET n == Len(Collected) IN
                    /\ Len(GetCandles(limit)) = (IF n < limit THEN n ELSE limit)
                    /\ \A i \in DOMAIN GetCandles(limit) :
                         LET at == n - Len(GetCandles(limit)) + i IN
                         GetCandles(limit)[i] = [at |-> at, close |-> Collected[at]]
  BY DEF WindowConsecutive
<1>1. /\ Count \in Nat \ {0} /\ candles \in Seq(Candles) /\ market \in Seq(Closes)
      /\ Len(market) \in Nat /\ Len(market) >= Count /\ limit \in Nat
  BY MarketDataAssumption, LenProperties DEF MarketInv, MarketTypeOK
<1>2. CASE candles = <<>>
  <2>1. Len(candles) = 0 /\ GetCandles(limit) = <<>> /\ Collected = <<>>
    BY <1>1, <1>2, EmptySeq DEF GetCandles, Collected
  <2> QED
    BY <1>1, <2>1
<1>3. CASE candles # <<>>
  <2> DEFINE m == Len(candles)
             w == GetCandles(limit)
  <2>1. /\ m \in Nat /\ m >= Count
        /\ \A i \in 1 .. Count : candles[m - Count + i] =
             [at |-> Len(market) - Count + i, close |-> market[Len(market) - Count + i]]
    BY <1>1, <1>3, LenProperties DEF MarketInv, Recent
  <2>2. /\ w \in Seq(Candles) /\ Len(w) = limit
        /\ \A i \in 1 .. limit : w[i] = candles[m - limit + i]
    <3>1. CASE m <= limit
      <4>1. w = candles /\ m = limit
        BY <1>1, <2>1, <3>1 DEF GetCandles
      <4> QED
        BY <1>1, <4>1
    <3>2. CASE ~(m <= limit)
      <4>1. w = SubSeq(candles, m - limit + 1, m)
        BY <3>2 DEF GetCandles
      <4>2. \A i \in m - limit + 1 .. m : candles[i] \in Candles
        BY <1>1, <2>1, <3>2, ElementOfSeq
      <4>3. m - limit + 1 \in Int /\ m \in Int /\ m - limit + 1 <= m
            /\ m - (m - limit + 1) + 1 = limit
        BY <1>1, <2>1, <3>2
      <4> HIDE DEF m, w
      <4>4. /\ w \in Seq(Candles) /\ Len(w) = limit
            /\ \A i \in 1 .. limit : w[i] = candles[(m - limit + 1) + i - 1]
        BY <4>1, <4>2, <4>3, SubSeqProperties
      <4>5. \A i \in 1 .. limit : (m - limit + 1) + i - 1 = m - limit + i
        BY <1>1, <2>1
      <4> QED
        BY <4>4, <4>5
    <3> QED
      BY <3>1, <3>2
  <2>3. Collected = market
    BY <1>3 DEF Collected
  <2> HIDE DEF m, w
  <2>4. ASSUME NEW i \in 1 .. limit
        PROVE  w[i] = [at |-> Len(market) - limit + i, close |-> market[Len(market) - limit + i]]
    <3> DEFINE j == Count - limit + i
    <3>1. /\ j \in 1 .. Count /\ m - Count + j = m - limit + i
          /\ Len(market) - Count + j = Len(market) - limit + i
      BY <1>1, <2>1
    <3> HIDE DEF j
    <3> QED
      BY <2>1, <2>2, <3>1
  <2>5. DOMAIN w = 1 .. limit
    BY <2>2, LenProperties
  <2>6. Len(w) = (IF Len(market) < limit THEN Len(market) ELSE limit)
    BY <1>1, <2>2
  <2> QED
    BY <2>2, <2>3, <2>4, <2>5, <2>6 DEF w
<1> QED
  BY <1>2, <1>3

-------------------------------------------------------------------------------
\* SignalPipeline.

\* The zones a strategy finds itself in; "ml" has the labels of its model.
Zones(name) ==
  CASE name = "ma" -> {"none", "golden", "dead"}
    [] name = "rsi" -> {"neutral", "oversold", "overbought"}
    [] name = "bollinger" -> {"neutral", "below_lower", "above_upper"}
    [] name = "macd" -> {"unknown", "above", "below"}
    [] name = "ml" -> MlLabels

Answers == Sides \cup {"hold"}

\* Each strategy remembers a zone of its own, and "ml" nothing.
Remembers ==
  /\ prev = [s \in Strategies |-> prev[s]]
  /\ \A s \in Strategies : prev[s] \in Zones(s)
  /\ prev["ml"] = "hold"

\* The engine suspends after a strategy has run, the last one included.
TurnSound ==
  /\ turn \in {0, 1} => ~suspended
  /\ turn > Len(Engine) => suspended

\* The model is used with the windows it was trained with, or not at all.
ModelFits == model # 0 => model = window["ml"]

\* Between the aggregator's vote and the engine's first strategy: the vote has
\* used up the cross, and is all that is heard.
Called == IF due = "hold" THEN {} ELSE {[strategy |-> "aggregator", side |-> due]}
Voted ==
  turn = 1 =>
    /\ "ma" \in members /\ HasFeatures("ma") => prev["ma"] = MaZone
    /\ members = {"ma"} => heard = Called

Typed ==
  /\ members \in Ensembles
  /\ window \in [{"ma", "ml"} -> MaWindows]
  /\ model \in MaWindows \cup {0}
  /\ turn \in 0 .. Len(Engine) + 1 /\ suspended \in BOOLEAN
  /\ heard \subseteq Heard /\ due \in Answers

PipeInv ==
  /\ MarketInv /\ Typed /\ Remembers /\ TurnSound /\ ModelFits /\ Voted
  /\ CrossHeardOnce

LEMMA EngineIs ==
  /\ Len(Engine) \in Nat \ {0}
  /\ \A i \in 1 .. Len(Engine) : Engine[i] \in Strategies /\ (Engine[i] = "ma" <=> i = 1)
<1>1. Engine \in Seq(Strategies) /\ Engine # <<>>
  BY SignalPipelineAssumption
<1>2. Len(Engine) \in Nat \ {0}
  BY <1>1, EmptySeq
<1>3. \A i \in 1 .. Len(Engine) : Engine[i] \in Strategies
  BY <1>1, ElementOfSeq
<1> QED
  BY <1>2, <1>3, SignalPipelineAssumption

LEMMA SideIs ==
  ASSUME NEW name \in Strategies, NEW zone \in Zones(name)
  PROVE  SideOf(name, zone) \in Answers
  BY DEF SideOf, Answers, Strategies, Sides, Zones, MlLabels,
         MaCalls, RsiCalls, BandCalls, MacdCalls

LEMMA MaZoneIs == MaZone \in Zones("ma")
  BY DEF MaZone, SmaCross, Zones

\* A strategy that finds itself where it was has nothing to tell.
LEMMA MaQuiet ==
  ASSUME NEW zone, prev["ma"] = zone
  PROVE  SideOf("ma", zone) = "hold"
  BY DEF SideOf, MaCalls

LEMMA SeenIs ==
  ASSUME Remembers, NEW name \in Strategies, NEW zone \in Zones(name), prev' = Seen(name, zone)
  PROVE  Remembers'
<1>1. CASE name = "ml"
  BY <1>1 DEF Seen, Remembers
<1>2. CASE name # "ml"
  <2>1. prev' = [s \in Strategies |-> IF s = name THEN zone ELSE prev[s]]
    BY <1>2 DEF Seen, Remembers
  <2>2. \A s \in Strategies : prev'[s] = IF s = name THEN zone ELSE prev[s]
    BY <2>1
  <2>3. prev' = [s \in Strategies |-> prev'[s]]
    BY <2>1
  <2>4. \A s \in Strategies : prev'[s] \in Zones(s)
    BY <2>2 DEF Remembers
  <2>5. prev'["ml"] = "hold"
    BY <1>2, <2>2 DEF Remembers, Strategies
  <2> QED
    BY <2>3, <2>4, <2>5 DEF Remembers
<1> QED
  BY <1>1, <1>2

LEMMA FreshIs ==
  /\ Fresh = [s \in Strategies |-> Fresh[s]]
  /\ \A s \in Strategies : Fresh[s] \in Zones(s)
  /\ Fresh["ml"] = "hold"
  BY DEF Fresh, Strategies, Zones, MlLabels

\* As TypeOK puts it.
LEMMA PipeTypes == PipeInv => TypeOK
  BY DEF PipeInv, MarketInv, Typed, Remembers, TypeOK, Zones, Strategies, Answers

LEMMA InitPipe == Init => PipeInv
<1> SUFFICES ASSUME Init PROVE PipeInv
  OBVIOUS
<1>1. MarketInv
  BY InitMarket DEF Init
<1>2. Remembers
  BY FreshIs DEF Init, Remembers
<1>3. Typed /\ TurnSound
  <2>1. 0 \in 0 .. Len(Engine) + 1 /\ ~(0 > Len(Engine))
    BY EngineIs
  <2> QED
    BY <2>1 DEF Init, Typed, TurnSound, Answers
<1>4. ModelFits /\ Voted /\ CrossHeardOnce
  BY DEF Init, ModelFits, Voted, CrossHeardOnce
<1> QED
  BY <1>1, <1>2, <1>3, <1>4 DEF PipeInv

LEMMA MembersFinite ==
  ASSUME Typed
  PROVE  IsFiniteSet(members) /\ Cardinality(members) \in Nat /\ members \subseteq Strategies
<1>1. members \subseteq Strategies
  BY SignalPipelineAssumption DEF Typed
<1>2. IsFiniteSet({"ma", "rsi", "bollinger", "macd", "ml"})
  <2>1. IsFiniteSet({}) 
    BY FS_EmptySet
  <2>2. IsFiniteSet({} \cup {"ma"} \cup {"rsi"} \cup {"bollinger"} \cup {"macd"} \cup {"ml"})
    BY <2>1, FS_AddElement
  <2>3. {} \cup {"ma"} \cup {"rsi"} \cup {"bollinger"} \cup {"macd"} \cup {"ml"}
          = {"ma", "rsi", "bollinger", "macd", "ml"}
    OBVIOUS
  <2> QED
    BY <2>2, <2>3
<1> QED
  BY <1>1, <1>2, FS_Subset, FS_CardinalityType DEF Strategies

LEMMA VotesCross ==
  ASSUME PipeInv, NEW zones, DOMAIN zones \subseteq Voters,
         "ma" \in DOMAIN zones => zones["ma"] = MaZone
  PROVE  /\ Ensemble(zones) \subseteq Heard
         /\ members = {"ma"} /\ "ma" \in DOMAIN zones =>
              Ensemble(zones) = IF SideOf("ma", MaZone) = "hold" THEN {}
                ELSE {[strategy |-> "aggregator", side |-> SideOf("ma", MaZone)]}
         /\ "ma" \notin DOMAIN zones /\ members = {"ma"} => Ensemble(zones) = {}
<1> DEFINE votes(s) == {v \in DOMAIN zones : SideOf(v, zones[v]) = s}
           carried == {s \in Sides : votes(s) # {} /\
                         Cardinality(votes(s)) * 100 >= ThresholdPct * Cardinality(members)}
<1>1. Ensemble(zones) = {[strategy |-> "aggregator", side |-> side] : side \in carried}
  BY DEF Ensemble
<1>2. Ensemble(zones) \subseteq Heard
  <2>1. carried \subseteq Sides
    OBVIOUS
  <2> HIDE DEF carried
  <2> QED
    BY <1>1, <2>1 DEF Heard
<1>3. ThresholdPct \in 51 .. 100 /\ Cardinality({"ma"}) = 1
  BY SignalPipelineAssumption, FS_Singleton
<1>5. ASSUME members = {"ma"}, "ma" \in DOMAIN zones
      PROVE  carried = IF SideOf("ma", MaZone) = "hold" THEN {} ELSE {SideOf("ma", MaZone)}
  <2>1. DOMAIN zones = {"ma"}
    BY <1>5 DEF Voters
  <2>2. \A s : votes(s) = IF SideOf("ma", MaZone) = s THEN {"ma"} ELSE {}
    BY <2>1
  <2>3. Cardinality({"ma"}) * 100 >= ThresholdPct * Cardinality(members)
    BY <1>3, <1>5
  <2>4. SideOf("ma", MaZone) \in Answers
    BY SideIs, MaZoneIs DEF Strategies
  <2> QED
    BY <2>2, <2>3, <2>4 DEF Answers, Sides
<1>6. ASSUME members = {"ma"}, "ma" \notin DOMAIN zones
      PROVE  Ensemble(zones) = {}
  <2>1. DOMAIN zones = {}
    BY <1>6 DEF Voters
  <2> QED
    BY <1>1, <2>1
<1> HIDE DEF carried
<1> QED
  BY <1>1, <1>2, <1>5, <1>6

LEMMA TickHolds == PipeInv /\ TickArrives => PipeInv'
<1> SUFFICES ASSUME PipeInv, TickArrives PROVE PipeInv'
  OBVIOUS
<1> DEFINE ready == {v \in Voters : HasFeatures(v) /\ (v = "ml" => model # 0)}
<1>1. PICK label \in MlLabels :
        AggregatorVotes([v \in ready |-> IF v = "ma" THEN MaZone ELSE label])
  BY DEF TickArrives
<1> DEFINE zones == [v \in ready |-> IF v = "ma" THEN MaZone ELSE label]
<1>2. /\ DOMAIN zones = ready /\ ready \subseteq {"ma", "ml"}
      /\ "ma" \in ready <=> "ma" \in members /\ HasFeatures("ma")
      /\ \A v \in ready : zones[v] \in Zones(v)
  BY MaZoneIs DEF Voters, Zones
<1>3. /\ heard' = Ensemble(zones)
      /\ prev' = [s \in Strategies |-> IF s \in DOMAIN zones THEN Seen(s, zones[s])[s]
                                       ELSE prev[s]]
  BY <1>1 DEF AggregatorVotes
<1>4. /\ turn = 0 /\ turn' = 1
      /\ due' = IF HasFeatures("ma") THEN SideOf("ma", MaZone) ELSE "hold"
      /\ UNCHANGED <<marketVars, members, window, model, suspended>>
  BY DEF TickArrives
<1>5. DOMAIN zones \subseteq Voters /\ ("ma" \in DOMAIN zones => zones["ma"] = MaZone)
  OBVIOUS
<1> HIDE DEF zones, ready
<1>6. /\ heard' \subseteq Heard
      /\ members = {"ma"} => heard' = Called'
  <2>1. CASE "ma" \in ready
    BY <1>2, <1>3, <1>4, <1>5, <2>1, VotesCross DEF Called
  <2>2. CASE "ma" \notin ready
    <3>1. members = {"ma"} => due' = "hold"
      BY <1>2, <1>4, <2>2
    <3> QED
      BY <1>2, <1>3, <1>5, <2>2, <3>1, VotesCross DEF Called
  <2> QED
    BY <2>1, <2>2
<1>7. \A s \in Strategies : prev'[s] =
        IF s \in ready /\ s # "ml" THEN zones[s] ELSE prev[s]
  <2>1. prev = [s \in Strategies |-> prev[s]]
    BY DEF PipeInv, Remembers
  <2>2. ASSUME NEW s \in Strategies
        PROVE  Seen(s, zones[s])[s] = IF s = "ml" THEN prev[s] ELSE zones[s]
    BY <2>1 DEF Seen
  <2> QED
    BY <1>2, <1>3, <2>2
<1>8. Remembers'
  BY <1>2, <1>3, <1>7 DEF PipeInv, Remembers, Strategies
<1>9. MaZone' = MaZone /\ HasFeatures("ma")' = HasFeatures("ma")
  BY <1>4 DEF marketVars, MaZone, HasFeatures, Features, Required, ClosesOf, GetCandles
<1>10. "ma" \in members' /\ HasFeatures("ma")' => prev'["ma"] = MaZone'
  BY <1>2, <1>4, <1>5, <1>7, <1>9 DEF Strategies
<1>11. due' \in Answers
  BY <1>4, SideIs, MaZoneIs DEF Strategies, Answers
<1>12. MarketInv'
  BY <1>4, OtherMarket DEF PipeInv
<1>13. Typed' /\ TurnSound'
  <2>1. 1 \in 0 .. Len(Engine) + 1 /\ ~(1 > Len(Engine))
    BY EngineIs
  <2>2. ~suspended /\ ~suspended'
    BY <1>4 DEF PipeInv, TurnSound
  <2> QED
    BY <1>4, <1>6, <1>11, <2>1, <2>2 DEF PipeInv, Typed, TurnSound
<1>14. ModelFits' /\ Voted' /\ CrossHeardOnce'
  BY <1>4, <1>6, <1>10 DEF PipeInv, ModelFits, Voted, CrossHeardOnce
<1> QED
  BY <1>8, <1>12, <1>13, <1>14 DEF PipeInv

\* One of the engine's strategies runs.  What it says is anything but, for an MA
\* crossover that has voted, a cross.
LEMMA OnTickIs ==
  ASSUME PipeInv, NEW name \in Strategies, NEW ready \in BOOLEAN, NEW zones,
         zones \subseteq Zones(name),
         name = "ma" => zones = {MaZone} /\ ready = HasFeatures("ma"),
         OnTick(name, ready, zones)
  PROVE  /\ Remembers'
         /\ \E side \in Answers :
              /\ suspended' = (side # "hold")
              /\ heard' = (IF turn = 1 THEN heard ELSE {}) \cup
                   (IF side = "hold" THEN {} ELSE {[strategy |-> name, side |-> side]})
              /\ name = "ma" /\ turn = 1 /\ "ma" \in members => side = "hold"
<1>1. ~suspended /\ suspended \in BOOLEAN
  BY DEF OnTick, PipeInv, Typed
<1>2. CASE ~ready
  <2>1. /\ heard' = (IF turn = 1 THEN heard ELSE {})
        /\ UNCHANGED <<prev, suspended>>
    BY <1>2 DEF OnTick
  <2>2. Remembers'
    BY <2>1 DEF PipeInv, Remembers
  <2>3. "hold" \in Answers
    BY DEF Answers
  <2>4. suspended' = ("hold" # "hold")
    BY <1>1, <2>1
  <2> QED
    BY <2>1, <2>2, <2>3, <2>4
<1>3. CASE ready
  <2>1. PICK zone \in zones :
          LET side == SideOf(name, zone) IN
          /\ prev' = Seen(name, zone)
          /\ suspended' = (side # "hold")
          /\ heard' = (IF turn = 1 THEN heard ELSE {}) \cup
               (IF side = "hold" THEN {} ELSE {[strategy |-> name, side |-> side]})
    BY <1>3 DEF OnTick
  <2>2. zone \in Zones(name)
    OBVIOUS
  <2>3. Remembers'
    BY <2>1, <2>2, SeenIs DEF PipeInv
  <2>4. SideOf(name, zone) \in Answers
    BY <2>2, SideIs
  <2>5. name = "ma" /\ turn = 1 /\ "ma" \in members => SideOf(name, zone) = "hold"
    BY <1>3, <2>1, MaQuiet DEF PipeInv, Voted
  <2> QED
    BY <2>1, <2>3, <2>4, <2>5
<1> QED
  BY <1>2, <1>3

LEMMA OnTickHolds ==
  ASSUME PipeInv, NEW name \in Strategies, NEW ready \in BOOLEAN, NEW zones,
         zones \subseteq Zones(name),
         name = "ma" => zones = {MaZone} /\ ready = HasFeatures("ma"),
         OnTick(name, ready, zones)
  PROVE  PipeInv'
<1>1. PICK side \in Answers :
        /\ suspended' = (side # "hold")
        /\ heard' = (IF turn = 1 THEN heard ELSE {}) \cup
             (IF side = "hold" THEN {} ELSE {[strategy |-> name, side |-> side]})
        /\ name = "ma" /\ turn = 1 /\ "ma" \in members => side = "hold"
  BY OnTickIs
<1>2. /\ turn > 0 /\ ~suspended /\ Engine[turn] = name
      /\ turn' = IF turn = Len(Engine) /\ ~suspended' THEN 0 ELSE turn + 1
      /\ due' = IF turn = 1 THEN due ELSE "hold"
      /\ UNCHANGED <<marketVars, members, window, model>>
  BY DEF OnTick
<1>3. turn \in 1 .. Len(Engine) /\ Len(Engine) \in Nat \ {0}
  BY <1>2, EngineIs DEF PipeInv, Typed, TurnSound
<1>4. name = "ma" <=> turn = 1
  BY <1>2, <1>3, EngineIs
<1>5. turn' \in 0 .. Len(Engine) + 1 /\ turn' # 1 /\ (turn' = 2 => turn = 1)
  BY <1>2, <1>3
<1>6. TurnSound'
  <2>1. turn' = 0 => ~suspended'
    BY <1>2, <1>3
  <2>2. turn' > Len(Engine) => suspended'
    BY <1>2, <1>3
  <2> QED
    BY <1>5, <2>1, <2>2 DEF TurnSound
<1>7. Typed'
  <2>1. heard' \subseteq Heard
    BY <1>1 DEF PipeInv, Typed, Heard, Answers
  <2>2. suspended' \in BOOLEAN /\ due' \in Answers
    BY <1>1, <1>2 DEF PipeInv, Typed, Answers
  <2> QED
    BY <1>2, <1>5, <2>1, <2>2 DEF PipeInv, Typed
<1>8. MarketInv'
  BY <1>2, OtherMarket DEF PipeInv
<1>9. ModelFits' /\ Voted'
  BY <1>2, <1>5 DEF PipeInv, ModelFits, Voted
<1>10. CASE turn = 1
  <2>1. "ma" \in members => heard' = heard /\ due' = due
    BY <1>1, <1>2, <1>4, <1>10
  <2>2. members = {"ma"} => heard' = Called'
    BY <1>10, <2>1 DEF PipeInv, Voted, Called
  <2>3. CrossHeardOnce'
    <3>1. SUFFICES ASSUME members' = {"ma"}
                   PROVE  /\ {h.side : h \in CrossHeardFrom'} = {due'} \ {"hold"}
                          /\ Cardinality(CrossHeardFrom') <= 1
      BY DEF CrossHeardOnce
    <3>2. heard' = IF due' = "hold" THEN {}
                   ELSE {[strategy |-> "aggregator", side |-> due']}
      BY <1>2, <2>2, <3>1 DEF Called
    <3>3. CrossHeardFrom' = heard'
      BY <3>2 DEF CrossHeardFrom
    <3>4. Cardinality({}) = 0 /\ Cardinality({[strategy |-> "aggregator", side |-> due']}) = 1
      BY FS_EmptySet, FS_Singleton
    <3> QED
      BY <3>2, <3>3, <3>4
  <2> QED
    BY <1>6, <1>7, <1>8, <1>9, <2>3, OnTickIs DEF PipeInv
<1>11. CASE turn # 1
  <2>1. CrossHeardFrom' = {}
    BY <1>1, <1>4, <1>11 DEF CrossHeardFrom, Strategies
  <2>2. CrossHeardOnce'
    BY <1>5, <1>11, <2>1 DEF CrossHeardOnce
  <2> QED
    BY <1>6, <1>7, <1>8, <1>9, <2>2, OnTickIs DEF PipeInv
<1> QED
  BY <1>10, <1>11

LEMMA StrategyHolds == PipeInv /\ StrategyRuns => PipeInv'
<1> SUFFICES ASSUME PipeInv, StrategyRuns PROVE PipeInv'
  OBVIOUS
<1>1. CASE MaOnTick
  <2>1. {MaZone} \subseteq Zones("ma") /\ HasFeatures("ma") \in BOOLEAN
    BY MaZoneIs DEF HasFeatures
  <2> QED
    BY <1>1, <2>1, OnTickHolds DEF MaOnTick, Strategies
<1>2. CASE RsiOnTick
  <2> DEFINE closes == ClosesOf(RsiPeriod + Margin)
             ready == Len(closes) > RsiPeriod
             zones == {RsiZone(closes, RsiPeriod, RsiLow, RsiHigh)}
  <2>1. zones \subseteq Zones("rsi") /\ ready \in BOOLEAN
    BY DEF RsiZone, Zones
  <2>2. OnTick("rsi", ready, zones)
    BY <1>2 DEF RsiOnTick
  <2> HIDE DEF ready, zones
  <2> QED
    BY <2>1, <2>2, OnTickHolds DEF Strategies
<1>3. CASE BollingerOnTick
  <2> DEFINE closes == ClosesOf(BandWindow + Margin)
             ready == Len(closes) >= BandWindow
             zones == {BandZone(closes, BandWindow, NumStd)}
  <2>1. zones \subseteq Zones("bollinger") /\ ready \in BOOLEAN
    BY DEF BandZone, Zones
  <2>2. OnTick("bollinger", ready, zones)
    BY <1>3 DEF BollingerOnTick
  <2> HIDE DEF ready, zones
  <2> QED
    BY <2>1, <2>2, OnTickHolds DEF Strategies
<1>4. CASE MacdOnTick
  <2> DEFINE ready == MacdDefined(ClosesOf(MacdSlow + MacdSignal + 2 * Margin),
                                  MacdSlow, MacdSignal)
  <2>1. {"above", "below"} \subseteq Zones("macd") /\ ready \in BOOLEAN
    BY DEF MacdDefined, Zones
  <2>2. OnTick("macd", ready, {"above", "below"})
    BY <1>4 DEF MacdOnTick
  <2> HIDE DEF ready
  <2> QED
    BY <2>1, <2>2, OnTickHolds DEF Strategies
<1>5. CASE MlOnTick
  <2>1. MlLabels \subseteq Zones("ml") /\ (model # 0 /\ HasFeatures("ml")) \in BOOLEAN
    BY DEF Zones
  <2> QED
    BY <1>5, <2>1, OnTickHolds DEF MlOnTick, Strategies
<1> QED
  BY <1>1, <1>2, <1>3, <1>4, <1>5 DEF StrategyRuns

\* Outside of a tick's first two steps nobody waits for the cross.
LEMMA BetweenIs == PipeInv /\ Between => turn # 1
  BY DEF PipeInv, Between, TurnSound

\* A step that leaves what is heard alone.
LEMMA HeardStays ==
  ASSUME PipeInv, UNCHANGED <<members, turn, heard, due>>
  PROVE  CrossHeardOnce'
  BY DEF PipeInv, CrossHeardOnce, CrossHeardFrom

\* A step after which nothing is heard.
LEMMA NothingHeard ==
  ASSUME heard' = {}, due' = "hold"
  PROVE  CrossHeardOnce'
<1>1. CrossHeardFrom' = {} /\ Cardinality({}) = 0
  BY FS_EmptySet DEF CrossHeardFrom
<1> QED
  BY <1>1 DEF CrossHeardOnce

LEMMA ResumeHolds == PipeInv /\ Resume => PipeInv'
<1> SUFFICES ASSUME PipeInv, Resume PROVE PipeInv'
  OBVIOUS
<1>1. /\ suspended /\ suspended' = FALSE
      /\ turn' = IF turn > Len(Engine) THEN 0 ELSE turn
      /\ heard' = {} /\ due' = "hold"
      /\ UNCHANGED <<marketVars, members, window, prev, model>>
  BY DEF Resume, strategyVars
<1>2. /\ turn \in 0 .. Len(Engine) + 1 /\ turn \notin {0, 1} /\ Len(Engine) \in Nat
  BY <1>1, EngineIs DEF PipeInv, Typed, TurnSound
<1>3. turn' \in 0 .. Len(Engine) + 1 /\ turn' # 1 /\ ~(turn' > Len(Engine))
  BY <1>1, <1>2
<1>4. MarketInv'
  BY <1>1, OtherMarket DEF PipeInv
<1>5. Typed' /\ Remembers' /\ TurnSound' /\ ModelFits' /\ Voted'
  BY <1>1, <1>3 DEF PipeInv, Typed, Remembers, TurnSound, ModelFits, Voted, Answers
<1> QED
  BY <1>1, <1>4, <1>5, NothingHeard DEF PipeInv

LEMMA CollectHolds == PipeInv /\ Collect => PipeInv'
<1> SUFFICES ASSUME PipeInv, Collect PROVE PipeInv'
  OBVIOUS
<1>1. CollectSymbol /\ UNCHANGED <<members, window, prev, model, turn, suspended, heard, due>>
  BY DEF Collect, strategyVars
<1>2. MarketInv' /\ turn # 1
  BY <1>1, CollectMarket, BetweenIs DEF Collect, PipeInv
<1>3. Typed' /\ Remembers' /\ TurnSound' /\ ModelFits' /\ Voted'
  BY <1>1, <1>2 DEF PipeInv, Typed, Remembers, TurnSound, ModelFits, Voted
<1> QED
  BY <1>1, <1>2, <1>3, HeardStays DEF PipeInv

LEMMA UpdateHolds ==
  ASSUME PipeInv, NEW name \in Strategies, NEW w \in MaWindows, UpdateParams(name, w)
  PROVE  PipeInv'
<1>1. /\ IF name \in DOMAIN window THEN window' = [window EXCEPT ![name] = w]
                                   ELSE UNCHANGED window
      /\ prev' = [prev EXCEPT ![name] = Fresh[name]]
      /\ model' = IF name = "ml" THEN 0 ELSE model
      /\ UNCHANGED <<marketVars, members, turn, suspended, heard, due>>
  BY DEF UpdateParams
<1>2. MarketInv' /\ turn # 1
  BY <1>1, OtherMarket, BetweenIs DEF UpdateParams, PipeInv
<1>3. window \in [{"ma", "ml"} -> MaWindows]
  BY DEF PipeInv, Typed
<1>4. window' \in [{"ma", "ml"} -> MaWindows] /\ (name # "ml" => window'["ml"] = window["ml"])
  BY <1>1, <1>3
<1>5. Remembers'
  <2>1. \A s \in Strategies : prev'[s] = IF s = name THEN Fresh[s] ELSE prev[s]
    BY <1>1 DEF PipeInv, Remembers
  <2>2. prev' = [s \in Strategies |-> prev'[s]]
    BY <1>1 DEF PipeInv, Remembers
  <2>3. \A s \in Strategies : prev'[s] \in Zones(s)
    BY <2>1, FreshIs DEF PipeInv, Remembers
  <2>4. prev'["ml"] = "hold"
    BY <2>1, FreshIs DEF PipeInv, Remembers, Strategies
  <2> QED
    BY <2>2, <2>3, <2>4 DEF Remembers
<1>6. Typed' /\ TurnSound' /\ Voted'
  BY <1>1, <1>2, <1>4 DEF PipeInv, Typed, TurnSound, Voted
<1>7. ModelFits'
  BY <1>1, <1>4 DEF PipeInv, ModelFits
<1> QED
  BY <1>1, <1>2, <1>5, <1>6, <1>7, HeardStays DEF PipeInv

LEMMA TrainHolds ==
  ASSUME PipeInv, NEW n \in TrainingSizes, Train(n)
  PROVE  PipeInv'
<1>1. /\ model' = window["ml"]
      /\ UNCHANGED <<marketVars, members, window, prev, turn, suspended, heard, due>>
  BY DEF Train
<1>2. MarketInv' /\ turn # 1
  BY <1>1, OtherMarket, BetweenIs DEF Train, PipeInv
<1>3. Typed' /\ Remembers' /\ TurnSound' /\ ModelFits' /\ Voted'
  BY <1>1, <1>2 DEF PipeInv, Typed, Remembers, TurnSound, ModelFits, Voted
<1> QED
  BY <1>1, <1>2, <1>3, HeardStays DEF PipeInv

LEMMA RestartHolds == PipeInv /\ Restart => PipeInv'
<1> SUFFICES ASSUME PipeInv, Restart PROVE PipeInv'
  OBVIOUS
<1>1. /\ prev' = Fresh /\ model' = 0
      /\ turn' = 0 /\ suspended' = FALSE /\ heard' = {} /\ due' = "hold"
      /\ UNCHANGED <<members, window>>
  BY DEF Restart
<1>2. MarketInv'
  BY OtherMarket DEF Restart, PipeInv
<1>3. Remembers'
  BY <1>1, FreshIs DEF Remembers
<1>4. 0 \in 0 .. Len(Engine) + 1 /\ ~(0 > Len(Engine))
  BY EngineIs
<1>5. Typed'
  BY <1>1, <1>4 DEF PipeInv, Typed, Answers
<1>6. TurnSound' /\ ModelFits' /\ Voted'
  BY <1>1, <1>4 DEF TurnSound, ModelFits, Voted
<1> QED
  BY <1>1, <1>2, <1>3, <1>5, <1>6, NothingHeard DEF PipeInv

LEMMA StutterHolds == PipeInv /\ UNCHANGED vars => PipeInv'
<1> SUFFICES ASSUME PipeInv, UNCHANGED vars PROVE PipeInv'
  OBVIOUS
<1>1. UNCHANGED <<marketVars, members, window, prev, model, turn, suspended, heard, due>>
  BY DEF vars, strategyVars
<1>2. MarketInv'
  BY <1>1, OtherMarket DEF PipeInv
<1>3. Typed' /\ Remembers' /\ TurnSound' /\ ModelFits'
  BY <1>1 DEF PipeInv, Typed, Remembers, TurnSound, ModelFits
<1>4. MaZone' = MaZone /\ HasFeatures("ma")' = HasFeatures("ma")
  BY <1>1 DEF marketVars, MaZone, HasFeatures, Features, Required, ClosesOf, GetCandles
<1>5. Voted'
  BY <1>1, <1>4 DEF PipeInv, Voted, Called
<1> QED
  BY <1>1, <1>2, <1>3, <1>5, HeardStays DEF PipeInv

LEMMA NextPipe == PipeInv /\ [Next]_vars => PipeInv'
<1> SUFFICES ASSUME PipeInv, [Next]_vars PROVE PipeInv'
  OBVIOUS
<1>1. CASE TickArrives
  BY <1>1, TickHolds
<1>2. CASE StrategyRuns
  BY <1>2, StrategyHolds
<1>3. CASE Resume
  BY <1>3, ResumeHolds
<1>4. CASE Collect
  BY <1>4, CollectHolds
<1>5. ASSUME NEW name \in Strategies, NEW w \in MaWindows, UpdateParams(name, w)
      PROVE  PipeInv'
  BY <1>5, UpdateHolds
<1>6. ASSUME NEW n \in TrainingSizes, Train(n)
      PROVE  PipeInv'
  BY <1>6, TrainHolds
<1>7. CASE Restart
  BY <1>7, RestartHolds
<1>8. CASE UNCHANGED vars
  BY <1>8, StutterHolds
<1> QED
  BY <1>1, <1>2, <1>3, <1>4, <1>5, <1>6, <1>7, <1>8 DEF Next

\* Every variable keeps its type, a strategy's memory is a zone of its own, and a
\* trained model is used with the windows it was trained with, through every
\* change of parameters and restart (ml_strategy.py:315-321).
THEOREM PipelineTypes == Spec => [](TypeOK /\ ModelFits)
<1>1. PipeInv => TypeOK /\ ModelFits
  BY PipeTypes DEF PipeInv
<1> QED
  BY <1>1, InitPipe, NextPipe, PTL DEF Spec

\* Whatever batches overlap and whenever the process restarts, a window read from
\* the snapshot is the exchange's newest candles, in order and once each
\* (snapshot.py:46-53, market_collector.py:54-56).
THEOREM WindowIsConsecutive == Spec => []WindowConsecutive
<1>1. PipeInv => WindowConsecutive
  BY WindowIsNewest DEF PipeInv
<1> QED
  BY <1>1, InitPipe, NextPipe, PTL DEF Spec

\* An aggregator of the MA crossover alone publishes every cross in the tick that
\* finds it, and the engine, which evaluates the same instance, does not repeat it
\* (aggregator.py:94-106, engine.py:81-83).
THEOREM CrossIsHeardOnce == Spec => []CrossHeardOnce
<1>1. PipeInv => CrossHeardOnce
  BY DEF PipeInv
<1> QED
  BY <1>1, InitPipe, NextPipe, PTL DEF Spec

-------------------------------------------------------------------------------
\* Sums of the values of a function, by leaving out one element after another.

\* The sum of v over S, as Total and OverNewest take it.
SumOf(v, S) == MapThenSumSet(LAMBDA i : v[i], S)

LEMMA LeastSubset ==
  ASSUME NEW S, IsFiniteSet(S), NEW B, B \subseteq SUBSET S, B # {}
  PROVE  \E T \in B : \A U \in B : ~(U \subseteq T /\ U # T)
<1>1. IsWellFoundedOn(StrictSubsetOrdering(S), FiniteSubsetsOf(S))
  BY FS_StrictSubsetOrderingWellFounded
<1>2. FiniteSubsetsOf(S) = SUBSET S
  BY FS_FiniteSubsetsOfFinite
<1>3. PICK T \in B : \A U \in B : ~(<<U, T>> \in StrictSubsetOrdering(S))
  BY <1>1, <1>2, WFMin
<1> QED
  BY <1>3 DEF StrictSubsetOrdering

\* A function that gives the sum of v over every subset of S: taking out any
\* element takes out its value.
SumsOver(g, v, S) ==
  /\ g \in [SUBSET S -> Int] /\ g[{}] = 0
  /\ \A T \in SUBSET S : \A x \in T : g[T] = v[x] + g[T \ {x}]

LEMMA SumsExist ==
  ASSUME NEW S, IsFiniteSet(S), NEW v, \A x \in S : v[x] \in Int
  PROVE  \E g : SumsOver(g, v, S)
<1> DEFINE Bad == {T \in SUBSET S : ~\E g : SumsOver(g, v, T)}
<1>1. SUFFICES ASSUME Bad # {} PROVE FALSE
  OBVIOUS
<1>2. PICK T \in Bad : \A U \in Bad : ~(U \subseteq T /\ U # T)
  <2>1. Bad \subseteq SUBSET S
    OBVIOUS
  <2> HIDE DEF Bad
  <2> QED
    BY <1>1, <2>1, LeastSubset
<1>3. T # {}
  <2> DEFINE g == [U \in SUBSET {} |-> 0]
  <2>1. SumsOver(g, v, {})
    BY DEF SumsOver
  <2> QED
    BY <1>2, <2>1
<1>4. PICK x \in T : TRUE
  BY <1>3
<1>5. PICK g : SumsOver(g, v, T \ {x})
  BY <1>2, <1>4
<1> DEFINE h == [U \in SUBSET T |-> (IF x \in U THEN v[x] ELSE 0) + g[U \ {x}]]
<1>6. v[x] \in Int /\ \A y \in T : v[y] \in Int
  BY <1>2, <1>4
<1>7. /\ g \in [SUBSET (T \ {x}) -> Int] /\ g[{}] = 0
      /\ \A U \in SUBSET T : U \ {x} \in SUBSET (T \ {x})
  BY <1>5 DEF SumsOver
<1>8. h \in [SUBSET T -> Int] /\ h[{}] = 0
  <2>1. \A U \in SUBSET T : g[U \ {x}] \in Int
    BY <1>7
  <2>2. {} \ {x} = {}
    OBVIOUS
  <2> QED
    BY <1>6, <1>7, <2>1, <2>2
<1>9. ASSUME NEW U \in SUBSET T, NEW y \in U
      PROVE  h[U] = v[y] + h[U \ {y}]
  <2>1. /\ U \ {y} \in SUBSET T
        /\ h[U] = (IF x \in U THEN v[x] ELSE 0) + g[U \ {x}]
        /\ h[U \ {y}] = (IF x \in U \ {y} THEN v[x] ELSE 0) + g[(U \ {y}) \ {x}]
        /\ g[U \ {x}] \in Int /\ g[(U \ {y}) \ {x}] \in Int
        /\ v[x] \in Int /\ v[y] \in Int
    BY <1>6, <1>7
  <2> HIDE DEF h
  <2> DEFINE a == h[U]
             b == h[U \ {y}]
             c == g[U \ {x}]
             d == g[(U \ {y}) \ {x}]
             q == v[x]
             r == v[y]
  <2> USE <2>1
  <2>2. CASE y = x
    <3>1. (U \ {y}) \ {x} = U \ {x} /\ x \notin U \ {y} /\ x \in U
      BY <2>2
    <3>2. a = q + c /\ b = 0 + d /\ d = c /\ q = r
      BY <2>2, <3>1
    <3>3. q \in Int /\ c \in Int
      OBVIOUS
    <3> HIDE DEF a, b, c, d, q, r
    <3>4. a = r + b
      BY <3>2, <3>3
    <3> QED
      BY <3>4 DEF a, b, r
  <2>3. CASE y # x
    <3> DEFINE e == IF x \in U THEN q ELSE 0
    <3>1. (U \ {y}) \ {x} = (U \ {x}) \ {y} /\ (x \in U \ {y} <=> x \in U)
      BY <2>3
    <3>2. U \ {x} \in SUBSET (T \ {x}) /\ y \in U \ {x}
      BY <2>3
    <3>3. g[U \ {x}] = v[y] + g[(U \ {x}) \ {y}]
      <4>1. \A W \in SUBSET (T \ {x}) : \A z \in W : g[W] = v[z] + g[W \ {z}]
        BY <1>5 DEF SumsOver
      <4> QED
        BY <4>1, <3>2
    <3>4. a = e + c /\ b = e + d
      BY <3>1
    <3>5. e \in Int /\ r \in Int /\ d \in Int
      OBVIOUS
    <3>7. c = r + d
      BY <3>1, <3>3
    <3> HIDE DEF a, b, c, d, e, q, r
    <3>6. a = r + b
      BY <3>4, <3>5, <3>7
    <3> QED
      BY <3>6 DEF a, b, r
  <2> QED
    BY <2>2, <2>3
<1>10. SumsOver(h, v, T)
  BY <1>8, <1>9 DEF SumsOver
<1> QED
  BY <1>2, <1>10

\* The fold chooses an order, but the sum does not depend on it.
LEMMA SumIs ==
  ASSUME NEW S, IsFiniteSet(S), NEW v, NEW g, SumsOver(g, v, S)
  PROVE  SumOf(v, S) = g[S]
<1> DEFINE First(s) == CHOOSE x \in s : TRUE
           Sums(f) == f = [s \in SUBSET S |->
                             IF s = {} THEN 0 ELSE v[First(s)] + f[s \ {First(s)}]]
           f0 == CHOOSE f : Sums(f)
           Bad == {s \in SUBSET S : f0[s] # g[s]}
<1>1. SumOf(v, S) = f0[S]
  BY DEF SumOf, MapThenSumSet, MapThenFoldSet
<1>2. \A s \in SUBSET S : s # {} => First(s) \in s
  OBVIOUS
<1> HIDE DEF First
<1>3. \A s \in SUBSET S :
        g[s] = IF s = {} THEN 0 ELSE v[First(s)] + g[s \ {First(s)}]
  BY <1>2 DEF SumsOver
<1>4. Sums(g)
  BY <1>3 DEF SumsOver
<1>5. Sums(f0)
  <2> HIDE DEF Sums
  <2> QED
    BY <1>4
<1> HIDE DEF f0
<1>6. \A s \in SUBSET S :
        f0[s] = IF s = {} THEN 0 ELSE v[First(s)] + f0[s \ {First(s)}]
  BY <1>5
<1> HIDE DEF Sums
<1>7. Bad = {}
  <2>1. SUFFICES ASSUME Bad # {} PROVE FALSE
    OBVIOUS
  <2>2. PICK s \in Bad : \A u \in Bad : ~(u \subseteq s /\ u # s)
    <3>1. Bad \subseteq SUBSET S
      OBVIOUS
    <3> HIDE DEF Bad
    <3> QED
      BY <2>1, <3>1, LeastSubset
  <2>3. s # {}
    BY <1>3, <1>6, <2>2
  <2>4. First(s) \in s /\ s \ {First(s)} \in SUBSET S
    BY <1>2, <2>2, <2>3
  <2>5. f0[s \ {First(s)}] = g[s \ {First(s)}]
    BY <2>2, <2>4
  <2> QED
    BY <1>3, <1>6, <2>2, <2>3, <2>5
<1> QED
  BY <1>1, <1>7

LEMMA SumParts ==
  ASSUME NEW S, IsFiniteSet(S), NEW v, \A x \in S : v[x] \in Int
  PROVE  /\ SumOf(v, {}) = 0
         /\ SumOf(v, S) \in Int
         /\ \A x \in S : SumOf(v, S) = v[x] + SumOf(v, S \ {x})
<1>1. PICK g : SumsOver(g, v, S)
  BY SumsExist
<1>2. ASSUME NEW T \in SUBSET S
      PROVE  SumOf(v, T) = g[T]
  <2> DEFINE h == [U \in SUBSET T |-> g[U]]
  <2>1. h \in [SUBSET T -> Int] /\ h[{}] = 0
    BY <1>1 DEF SumsOver
  <2>2. ASSUME NEW U \in SUBSET T, NEW x \in U
        PROVE  h[U] = v[x] + h[U \ {x}]
    BY <1>1 DEF SumsOver
  <2>3. SumsOver(h, v, T)
    <3> HIDE DEF h
    <3> QED
      BY <2>1, <2>2 DEF SumsOver
  <2>4. IsFiniteSet(T)
    BY FS_Subset
  <2>5. SumOf(v, T) = h[T]
    <3> HIDE DEF h
    <3> QED
      BY <2>3, <2>4, SumIs
  <2> QED
    BY <2>5
<1>3. g \in [SUBSET S -> Int] /\ g[{}] = 0
  BY <1>1 DEF SumsOver
<1>4. SumOf(v, {}) = 0 /\ SumOf(v, S) \in Int
  BY <1>2, <1>3
<1>5. ASSUME NEW x \in S
      PROVE  SumOf(v, S) = v[x] + SumOf(v, S \ {x})
  <2>1. g[S] = v[x] + g[S \ {x}]
    BY <1>1 DEF SumsOver
  <2> QED
    BY <1>2, <2>1
<1> QED
  BY <1>4, <1>5

\* The terms of u over S are those of v, k further on; so are the sums.
Follows(v, u, S, k) ==
  /\ S \subseteq Int /\ k \in Int
  /\ \A i \in S : u[i] \in Int /\ v[i + k] = u[i]

LEMMA SumShifted ==
  ASSUME NEW S, IsFiniteSet(S), NEW k, NEW u, NEW v, Follows(v, u, S, k)
  PROVE  SumOf(v, {i + k : i \in S}) = SumOf(u, S)
<1> DEFINE To(T) == {i + k : i \in T}
           Bad == {T \in SUBSET S : ~(SumOf(v, To(T)) = SumOf(u, T))}
<1>1. SUFFICES ASSUME Bad # {} PROVE FALSE
  OBVIOUS
<1>2. PICK T \in Bad : \A U \in Bad : ~(U \subseteq T /\ U # T)
  <2>1. Bad \subseteq SUBSET S
    OBVIOUS
  <2> HIDE DEF Bad
  <2> QED
    BY <1>1, <2>1, LeastSubset
<1>3. IsFiniteSet(T) /\ T \subseteq S
  BY <1>2, FS_Subset
<1>0. /\ S \subseteq Int /\ k \in Int
      /\ \A i \in S : u[i] \in Int /\ v[i + k] = u[i]
  BY DEF Follows
<1>4. IsFiniteSet(To(T))
  <2> DEFINE f == [i \in T |-> i + k]
  <2>1. f \in Surjection(T, To(T))
    BY DEF Surjection
  <2> HIDE DEF f, To, Bad
  <2> QED
    BY <1>0, <1>3, <2>1, FS_Surjection
<1>5. \A j \in To(T) : v[j] \in Int
  BY <1>0, <1>3
<1>6. T # {}
  <2>1. To({}) = {}
    OBVIOUS
  <2>2. SumOf(v, {}) = 0 /\ SumOf(u, {}) = 0
    BY <1>0, <1>3, <1>4, <1>5, SumParts
  <2> QED
    BY <1>2, <2>1, <2>2
<1>7. PICK x \in T : TRUE
  BY <1>6
<1>8. SumOf(u, T) = u[x] + SumOf(u, T \ {x})
  BY <1>0, <1>3, SumParts
<1>9. x + k \in To(T) /\ To(T) \ {x + k} = To(T \ {x})
  BY <1>0, <1>3, <1>7
<1>10. SumOf(v, To(T)) = v[x + k] + SumOf(v, To(T \ {x}))
  <2> HIDE DEF To, Bad
  <2>1. \A j \in To(T) : SumOf(v, To(T)) = v[j] + SumOf(v, To(T) \ {j})
    BY <1>4, <1>5, SumParts
  <2> QED
    BY <1>9, <2>1
<1>11. SumOf(v, To(T \ {x})) = SumOf(u, T \ {x})
  BY <1>2, <1>3, <1>7
<1>12. SumOf(v, To(T)) = SumOf(u, T)
  BY <1>0, <1>3, <1>8, <1>10, <1>11
<1> QED
  BY <1>2, <1>12

\* Each term of v is a, plus b times the one of u, plus c times the one of w; the
\* sums are, but for the number of times that a is counted.
Combines(v, S, a, b, u, c, w) ==
  /\ a \in Int /\ b \in Int /\ c \in Int
  /\ \A i \in S : u[i] \in Int /\ w[i] \in Int /\ v[i] = a + b * u[i] + c * w[i]

LEMMA SumLinear ==
  ASSUME NEW S, IsFiniteSet(S), NEW v, NEW a, NEW b, NEW u, NEW c, NEW w,
         Combines(v, S, a, b, u, c, w)
  PROVE  SumOf(v, S) = Cardinality(S) * a + b * SumOf(u, S) + c * SumOf(w, S)
<1> DEFINE P(T) == SumOf(v, T) = Cardinality(T) * a + b * SumOf(u, T) + c * SumOf(w, T)
           Bad == {T \in SUBSET S : ~P(T)}
<1>1. SUFFICES ASSUME Bad # {} PROVE FALSE
  OBVIOUS
<1>2. PICK T \in Bad : \A U \in Bad : ~(U \subseteq T /\ U # T)
  <2>1. Bad \subseteq SUBSET S
    OBVIOUS
  <2> HIDE DEF Bad
  <2> QED
    BY <1>1, <2>1, LeastSubset
<1>3. IsFiniteSet(T) /\ T \subseteq S
  BY <1>2, FS_Subset
<1>0. /\ a \in Int /\ b \in Int /\ c \in Int
      /\ \A i \in S : u[i] \in Int /\ w[i] \in Int /\ v[i] = a + b * u[i] + c * w[i]
  BY DEF Combines
<1>4. \A i \in T : v[i] \in Int
  BY <1>0, <1>3
<1>5. T # {}
  <2>1. SumOf(v, {}) = 0 /\ SumOf(u, {}) = 0 /\ SumOf(w, {}) = 0 /\ Cardinality({}) = 0
    BY <1>3, <1>4, SumParts, FS_EmptySet
  <2>2. P({})
    BY <1>0, <2>1
  <2> HIDE DEF P
  <2> QED
    BY <1>2, <2>2
<1>6. PICK x \in T : TRUE
  BY <1>5
<1> DEFINE R == T \ {x}
<1>7. /\ IsFiniteSet(R) /\ R \subseteq S
      /\ \A i \in R : u[i] \in Int /\ w[i] \in Int
  BY <1>0, <1>3, FS_Subset
<1>8. /\ SumOf(v, T) = v[x] + SumOf(v, R)
      /\ SumOf(u, T) = u[x] + SumOf(u, R)
      /\ SumOf(w, T) = w[x] + SumOf(w, R)
      /\ SumOf(u, R) \in Int /\ SumOf(w, R) \in Int
  <2>1. \A i \in T : u[i] \in Int /\ w[i] \in Int
    BY <1>0, <1>3
  <2>2. SumOf(v, T) = v[x] + SumOf(v, R)
    BY <1>3, <1>4, SumParts
  <2>3. SumOf(u, T) = u[x] + SumOf(u, R)
    BY <1>3, <2>1, SumParts
  <2>4. SumOf(w, T) = w[x] + SumOf(w, R)
    BY <1>3, <2>1, SumParts
  <2> HIDE DEF R
  <2>5. SumOf(u, R) \in Int /\ SumOf(w, R) \in Int
    BY <1>7, SumParts
  <2> QED
    BY <2>2, <2>3, <2>4, <2>5
<1>9. Cardinality(T) = Cardinality(R) + 1 /\ Cardinality(R) \in Nat
  <2>1. Cardinality(R) = Cardinality(T) - 1 /\ Cardinality(T) \in Nat
    BY <1>3, FS_RemoveElement, FS_CardinalityType
  <2>2. Cardinality(R) \in Nat
    BY <1>7, FS_CardinalityType
  <2> QED
    BY <2>1, <2>2
<1>10. P(R)
  <2>1. R # T /\ R \subseteq T /\ R \in SUBSET S
    BY <1>6, <1>7
  <2> HIDE DEF P, R
  <2> QED
    BY <1>2, <2>1
<1>11. u[x] \in Int /\ w[x] \in Int /\ v[x] = a + b * u[x] + c * w[x]
  BY <1>0, <1>3
<1>12. P(T)
  <2> DEFINE n == Cardinality(R)
             ux == u[x]
             wx == w[x]
             su == SumOf(u, R)
             sw == SumOf(w, R)
  <2>1. /\ SumOf(v, T) = (a + b * ux + c * wx) + (n * a + b * su + c * sw)
        /\ SumOf(u, T) = ux + su /\ SumOf(w, T) = wx + sw /\ Cardinality(T) = n + 1
    BY <1>8, <1>9, <1>10, <1>11
  <2>2. ux \in Int /\ wx \in Int /\ su \in Int /\ sw \in Int /\ n \in Int
    BY <1>8, <1>9, <1>11
  <2> HIDE DEF n, ux, wx, su, sw
  <2>3. /\ (n + 1) * a = n * a + a /\ b * (ux + su) = b * ux + b * su
        /\ c * (wx + sw) = c * wx + c * sw
    BY <1>0, <2>2
  <2>4. /\ n * a \in Int /\ b * ux \in Int /\ b * su \in Int
        /\ c * wx \in Int /\ c * sw \in Int
    BY <1>0, <2>2
  <2>5. SumOf(v, T) = (n + 1) * a + b * (ux + su) + c * (wx + sw)
    BY <1>0, <2>1, <2>3, <2>4
  <2> QED
    BY <2>1, <2>5
<1> HIDE DEF P
<1> QED
  BY <1>2, <1>12

-------------------------------------------------------------------------------
\* What a strategy computes from the list in memory, and what the exchange's
\* candles say.

LEMMA TotalIs ==
  ASSUME NEW u
  PROVE  Total(u) = SumOf(u, DOMAIN u)
  BY DEF Total, FoldSeq, FoldFunction, FoldFunctionOnSet, MapThenFoldSet, SumOf, MapThenSumSet

LEMMA OverNewestIs ==
  ASSUME NEW n, NEW v
  PROVE  OverNewest(n, v) = SumOf(v, NewestMinutes(n))
  BY DEF OverNewest, SumOf

\* The closes in memory are the newest of those collected.
LEMMA ClosesAre ==
  ASSUME MarketInv, NEW limit \in 1 .. Count
  PROVE  /\ Len(Collected) \in Nat
         /\ ClosesOf(limit) \in Seq(Int)
         /\ Len(ClosesOf(limit)) \in 0 .. limit /\ Len(ClosesOf(limit)) <= Len(Collected)
         /\ \A i \in 1 .. Len(Collected) : Collected[i] \in Int
         /\ \A i \in 1 .. Len(ClosesOf(limit)) :
              ClosesOf(limit)[i] = Collected[Len(Collected) - Len(ClosesOf(limit)) + i]
<1> DEFINE w == GetCandles(limit)
           c == ClosesOf(limit)
           n == Len(Collected)
           m == Len(w)
<1>1. n \in Nat /\ \A i \in 1 .. n : Collected[i] \in Int
  <2>1. Collected \in Seq(Closes)
    BY EmptySeq DEF MarketInv, MarketTypeOK, Collected
  <2>2. Closes \subseteq Int
    BY MarketDataAssumption
  <2>3. \A i \in 1 .. Len(Collected) : Collected[i] \in Int
    BY <2>1, <2>2, ElementOfSeq
  <2> QED
    BY <2>1, <2>3, LenProperties
<1>2. w \in Seq(Candles)
  <2>1. /\ candles \in Seq(Candles) /\ limit \in Nat
    BY MarketDataAssumption DEF MarketInv, MarketTypeOK
  <2>2. CASE Len(candles) <= limit
    BY <2>1, <2>2 DEF GetCandles
  <2>3. CASE ~(Len(candles) <= limit)
    <3>1. w = SubSeq(candles, Len(candles) - limit + 1, Len(candles))
      BY <2>3 DEF GetCandles
    <3>2. Len(candles) \in Nat
      BY <2>1, LenProperties
    <3>3. \A i \in Len(candles) - limit + 1 .. Len(candles) : candles[i] \in Candles
      BY <2>1, <2>3, <3>2, ElementOfSeq
    <3> QED
      BY <2>1, <3>1, <3>2, <3>3, SubSeqProperties
  <2> QED
    BY <2>2, <2>3
<1>3. /\ m = (IF n < limit THEN n ELSE limit)
      /\ \A i \in DOMAIN w : w[i] = [at |-> n - m + i, close |-> Collected[n - m + i]]
  BY WindowIsNewest DEF WindowConsecutive
<1>4. m \in Nat /\ DOMAIN w = 1 .. m
  <2> HIDE DEF w
  <2> QED
    BY <1>2, LenProperties
<1>5. limit \in Nat
  BY MarketDataAssumption
<1>6. m \in 0 .. limit /\ m <= n
  BY <1>1, <1>3, <1>4, <1>5
<1>7. c = [i \in 1 .. m |-> w[i].close]
  BY <1>4 DEF ClosesOf
<1> HIDE DEF w, c, n, m
<1>8. \A i \in 1 .. m : w[i].close = Collected[n - m + i] /\ n - m + i \in 1 .. n
  <2> TAKE i \in 1 .. m
  <2> DEFINE k == n - m + i
  <2>1. w[i] = [at |-> k, close |-> Collected[k]]
    BY <1>3, <1>4
  <2>2. k \in 1 .. n
    BY <1>1, <1>4, <1>6
  <2> HIDE DEF k
  <2>3. w[i].close = Collected[k]
    BY <2>1
  <2> QED
    BY <2>2, <2>3 DEF k
<1>9. \A i \in 1 .. m : w[i].close \in Int
  BY <1>1, <1>8
<1>10. c \in Seq(Int) /\ Len(c) = m
  <2>1. c \in [1 .. m -> Int]
    BY <1>7, <1>9
  <2>2. c \in Seq(Int)
    BY <1>4, <2>1, SeqDef
  <2>3. DOMAIN c = 1 .. m
    BY <1>7
  <2> QED
    BY <1>4, <2>2, <2>3, LenProperties
<1> QED
  BY <1>1, <1>6, <1>7, <1>8, <1>10 DEF c, n

\* prices[-n:]
LEMMA NewestIs ==
  ASSUME NEW prices \in Seq(Int), NEW n \in 1 .. Len(prices)
  PROVE  /\ Newest(prices, n) \in Seq(Int) /\ Len(Newest(prices, n)) = n
         /\ DOMAIN Newest(prices, n) = 1 .. n
         /\ \A i \in 1 .. n :
              /\ Newest(prices, n)[i] = prices[Len(prices) - n + i]
              /\ Newest(prices, n)[i] \in Int
<1> DEFINE w == Newest(prices, n)
           m == Len(prices)
<1>1. m \in Nat /\ n \in Nat /\ n <= m
  BY LenProperties
<1>2. /\ w \in Seq(Int) /\ Len(w) = n
      /\ \A i \in 1 .. n : w[i] = prices[m - n + i]
  <2>1. CASE m <= n
    <3>1. w = prices /\ m = n
      BY <1>1, <2>1 DEF Newest
    <3>2. \A i \in 1 .. n : m - n + i = i
      BY <1>1, <3>1
    <3> QED
      BY <3>1, <3>2
  <2>2. CASE ~(m <= n)
    <3>1. w = SubSeq(prices, m - n + 1, m)
      BY <2>2 DEF Newest
    <3>2. \A i \in m - n + 1 .. m : prices[i] \in Int
      BY <1>1, ElementOfSeq
    <3>3. /\ m - n + 1 \in Int /\ m \in Int /\ m - n + 1 <= m
          /\ m - (m - n + 1) + 1 = n
      BY <1>1
    <3> HIDE DEF w, m
    <3>4. /\ w \in Seq(Int) /\ Len(w) = n
          /\ \A i \in 1 .. n : w[i] = prices[(m - n + 1) + i - 1]
      BY <3>1, <3>2, <3>3, SubSeqProperties
    <3>5. \A i \in 1 .. n : (m - n + 1) + i - 1 = m - n + i
      BY <1>1
    <3> QED
      BY <3>4, <3>5
  <2> QED
    BY <2>1, <2>2
<1> HIDE DEF w
<1>3. DOMAIN w = 1 .. n
  BY <1>2, LenProperties
<1>4. \A i \in 1 .. n : w[i] \in Int
  BY <1>2, ElementOfSeq
<1> QED
  BY <1>2, <1>3, <1>4 DEF w

\* The minutes of the newest n candles, counted from the first of them.
LEMMA MinutesAre ==
  ASSUME Len(Collected) \in Nat, NEW n \in 1 .. Len(Collected)
  PROVE  /\ NewestMinutes(n) = {i + (Len(Collected) - n) : i \in 1 .. n}
         /\ IsFiniteSet(NewestMinutes(n)) /\ Cardinality(NewestMinutes(n)) = n
         /\ NewestMinutes(n) \subseteq 1 .. Len(Collected)
<1> DEFINE m == Len(Collected)
<1>1. NewestMinutes(n) = m - n + 1 .. m
  BY DEF NewestMinutes
<1> HIDE DEF m
<1>2. m \in Nat /\ n \in 1 .. m
  BY DEF m
<1>3. m - n + 1 .. m = {i + (m - n) : i \in 1 .. n}
  <2>1. ASSUME NEW j \in m - n + 1 .. m
        PROVE  j \in {i + (m - n) : i \in 1 .. n}
    <3>1. j - (m - n) \in 1 .. n /\ j = (j - (m - n)) + (m - n)
      BY <1>2
    <3> QED
      BY <3>1
  <2>2. ASSUME NEW i \in 1 .. n
        PROVE  i + (m - n) \in m - n + 1 .. m
    BY <1>2
  <2> QED
    BY <2>1, <2>2
<1>4. /\ IsFiniteSet(m - n + 1 .. m)
      /\ Cardinality(m - n + 1 .. m) = IF m - n + 1 > m THEN 0 ELSE m - (m - n + 1) + 1
  <2>1. m - n + 1 \in Int /\ m \in Int
    BY <1>2
  <2> QED
    BY <2>1, FS_Interval
<1>5. Cardinality(m - n + 1 .. m) = n
  BY <1>2, <1>4
<1>6. m - n + 1 .. m \subseteq 1 .. m
  BY <1>2
<1> QED
  BY <1>1, <1>3, <1>4, <1>5, <1>6 DEF m

\* The total of n numbers that are those of the newest n minutes.
LEMMA TotalOverNewest ==
  ASSUME Len(Collected) \in Nat, NEW n \in 1 .. Len(Collected), NEW u, NEW v,
         DOMAIN u = 1 .. n,
         \A i \in 1 .. n : u[i] \in Int /\ v[i + (Len(Collected) - n)] = u[i]
  PROVE  Total(u) = OverNewest(n, v)
<1>1. Follows(v, u, 1 .. n, Len(Collected) - n)
  BY DEF Follows
<1>2. IsFiniteSet(1 .. n)
  BY FS_Interval
<1>3. SumOf(v, {i + (Len(Collected) - n) : i \in 1 .. n}) = SumOf(u, 1 .. n)
  BY <1>1, <1>2, SumShifted
<1> QED
  BY <1>3, MinutesAre, TotalIs, OverNewestIs

\* sma(prices, n) is of the newest n minutes.
LEMMA SmaIsOverNewest ==
  ASSUME MarketInv, NEW limit \in 1 .. Count, NEW n \in 1 .. Len(ClosesOf(limit))
  PROVE  Total(Newest(ClosesOf(limit), n)) = OverNewest(n, Collected)
<1> DEFINE c == ClosesOf(limit)
           k == Len(c)
           m == Len(Collected)
           u == Newest(c, n)
<1>1. /\ m \in Nat /\ c \in Seq(Int) /\ k \in Nat /\ k <= m
      /\ \A i \in 1 .. m : Collected[i] \in Int
      /\ \A i \in 1 .. k : c[i] = Collected[m - k + i]
  BY ClosesAre
<1>2. n \in 1 .. k
  OBVIOUS
<1> HIDE DEF c
<1>3. /\ DOMAIN u = 1 .. n
      /\ \A i \in 1 .. n : u[i] = c[k - n + i] /\ u[i] \in Int
  BY <1>1, <1>2, NewestIs
<1> HIDE DEF u, k, m
<1>4. \A i \in 1 .. n : Collected[i + (m - n)] = u[i]
  <2> TAKE i \in 1 .. n
  <2>1. k - n + i \in 1 .. k /\ m - k + (k - n + i) = i + (m - n)
    BY <1>1, <1>2
  <2> QED
    BY <1>1, <1>3, <2>1
<1>5. n \in 1 .. m
  BY <1>1, <1>2
<1>6. Total(u) = OverNewest(n, Collected)
  BY <1>1, <1>3, <1>4, <1>5, TotalOverNewest DEF m
<1> QED
  BY <1>6 DEF u, c

\* The limits with which the strategies read their candles.
LEMMA LimitsAre ==
  ASSUME Typed
  PROVE  /\ \A name \in {"ma", "ml"} :
              /\ Required(name) + Margin \in 1 .. Count
              /\ window[name] \in Nat \ {0} /\ window[name] <= Required(name)
              /\ ShortWindow <= window[name] /\ Required(name) \in Nat
         /\ RsiPeriod + Margin \in 1 .. Count /\ BandWindow + Margin \in 1 .. Count
<1>1. Count \in Nat
  BY MarketDataAssumption
<1>2. /\ RsiPeriod \in Nat \ {0} /\ BandWindow \in Nat \ {0} /\ Margin \in Nat
      /\ RsiPeriod + 1 + Margin <= Count /\ BandWindow + Margin <= Count
      /\ ShortWindow \in Nat \ {0}
  BY SignalPipelineAssumption
<1>3. ASSUME NEW name \in {"ma", "ml"}
      PROVE  /\ Required(name) + Margin \in 1 .. Count
             /\ window[name] \in Nat \ {0} /\ window[name] <= Required(name)
             /\ ShortWindow <= window[name] /\ Required(name) \in Nat
  <2>1. window[name] \in MaWindows
    BY DEF Typed
  <2>2. /\ window[name] \in Nat \ {0} /\ ShortWindow <= window[name]
        /\ window[name] + Margin <= Count
    BY <2>1, SignalPipelineAssumption
  <2> QED
    BY <1>1, <1>2, <2>2 DEF Required
<1> QED
  BY <1>1, <1>2, <1>3

\* The cross that the MA crossover sees is there.
LEMMA CrossIsThere ==
  ASSUME PipeInv, HasFeatures("ma"), NEW side \in Sides, SideOf("ma", MaZone) = side
  PROVE  LET short == OverNewest(ShortWindow, Collected) * window.ma
             long == OverNewest(window.ma, Collected) * ShortWindow
         IN  IF side = "buy" THEN short > long ELSE short < long
<1> DEFINE limit == Required("ma") + Margin
           c == ClosesOf(limit)
           short == OverNewest(ShortWindow, Collected) * window.ma
           long == OverNewest(window.ma, Collected) * ShortWindow
<1>1. /\ limit \in 1 .. Count /\ window["ma"] \in Nat \ {0} /\ Required("ma") \in Nat
      /\ window["ma"] <= Required("ma") /\ ShortWindow <= window["ma"]
      /\ ShortWindow \in Nat \ {0}
  BY LimitsAre, SignalPipelineAssumption DEF PipeInv
<1>2. c = Features("ma") /\ Len(c) >= Required("ma")
  BY DEF HasFeatures, Features
<1>3. Len(c) \in Nat
  BY <1>1, ClosesAre DEF PipeInv
<1>4. window["ma"] \in 1 .. Len(c) /\ ShortWindow \in 1 .. Len(c)
  BY <1>1, <1>2, <1>3
<1>5. /\ Total(Newest(c, ShortWindow)) = OverNewest(ShortWindow, Collected)
      /\ Total(Newest(c, window["ma"])) = OverNewest(window["ma"], Collected)
  BY <1>1, <1>4, SmaIsOverNewest DEF PipeInv
<1>6. MaZone = CASE short > long -> "golden"
                 [] short < long -> "dead"
                 [] OTHER -> "none"
  <2> HIDE DEF c
  <2> QED
    BY <1>2, <1>5 DEF MaZone, SmaCross
<1> HIDE DEF short, long, c, limit
<1>7. CASE side = "buy"
  <2>1. MaZone = "golden"
    BY <1>7 DEF SideOf, MaCalls
  <2> QED
    BY <1>6, <1>7, <2>1 DEF short, long
<1>8. CASE side = "sell"
  <2>1. MaZone = "dead"
    BY <1>8 DEF SideOf, MaCalls
  <2>2. short < long
    BY <1>6, <2>1
  <2> QED
    BY <1>8, <2>2 DEF short, long
<1> QED
  BY <1>7, <1>8 DEF Sides

\* Sums of natural numbers are natural numbers.
LEMMA SumIsNat ==
  ASSUME NEW S, IsFiniteSet(S), NEW v, \A x \in S : v[x] \in Nat
  PROVE  SumOf(v, S) \in Nat
<1> DEFINE Bad == {T \in SUBSET S : ~(SumOf(v, T) \in Nat)}
<1>1. SUFFICES ASSUME Bad # {} PROVE FALSE
  OBVIOUS
<1>2. PICK T \in Bad : \A U \in Bad : ~(U \subseteq T /\ U # T)
  <2>1. Bad \subseteq SUBSET S
    OBVIOUS
  <2> HIDE DEF Bad
  <2> QED
    BY <1>1, <2>1, LeastSubset
<1>3. IsFiniteSet(T) /\ \A x \in T : v[x] \in Nat /\ v[x] \in Int
  BY <1>2, FS_Subset
<1>4. T # {}
  <2>1. SumOf(v, {}) = 0
    <3> HIDE DEF Bad
    <3> QED
      BY <1>3, SumParts
  <2>2. {} \notin Bad
    BY <2>1
  <2> HIDE DEF Bad
  <2> QED
    BY <1>2, <2>2
<1>5. PICK x \in T : TRUE
  BY <1>4
<1>6. SumOf(v, T) = v[x] + SumOf(v, T \ {x})
  BY <1>3, SumParts
<1>7. SumOf(v, T \ {x}) \in Nat
  BY <1>2, <1>5
<1>8. SumOf(v, T) \in Nat
  BY <1>3, <1>6, <1>7
<1> QED
  BY <1>2, <1>8

\* The changes of the newest minutes are those of the exchange's closes.
LEMMA DeltasAre ==
  ASSUME MarketInv, NEW limit \in 1 .. Count, NEW n \in Nat \ {0},
         n < Len(ClosesOf(limit))
  PROVE  LET recent == Newest(Deltas(ClosesOf(limit)), n)
             m == Len(Collected)
         IN  /\ n \in 1 .. m /\ DOMAIN recent = 1 .. n
             /\ \A i \in 1 .. n :
                  /\ recent[i] = Collected[i + (m - n)] - Collected[(i + (m - n)) - 1]
                  /\ Collected[i + (m - n)] \in Int /\ Collected[(i + (m - n)) - 1] \in Int
                  /\ i + (m - n) \in NewestMinutes(n)
<1> DEFINE c == ClosesOf(limit)
           k == Len(c)
           m == Len(Collected)
           d == Deltas(c)
           u == Newest(d, n)
<1>1. /\ m \in Nat /\ c \in Seq(Int) /\ k \in Nat /\ k <= m
      /\ \A i \in 1 .. m : Collected[i] \in Int
      /\ \A i \in 1 .. k : c[i] = Collected[m - k + i]
  BY ClosesAre
<1>2. n < k
  OBVIOUS
<1> HIDE DEF c
<1>3. /\ d \in Seq(Int) /\ Len(d) = k - 1
      /\ \A i \in 1 .. k - 1 : d[i] = c[i + 1] - c[i]
  <2>1. d = [i \in 1 .. k - 1 |-> c[i + 1] - c[i]]
    BY DEF Deltas
  <2> HIDE DEF d, k
  <2>2. \A i \in 1 .. k - 1 : c[i + 1] - c[i] \in Int
    <3> TAKE i \in 1 .. k - 1
    <3>1. i \in 1 .. k /\ i + 1 \in 1 .. k
      BY <1>1
    <3>2. c[i] \in Int /\ c[i + 1] \in Int
      BY <1>1, <3>1, ElementOfSeq DEF k
    <3> QED
      BY <3>2
  <2>3. k - 1 \in Nat
    BY <1>1, <1>2
  <2>4. d \in [1 .. k - 1 -> Int] /\ DOMAIN d = 1 .. k - 1
    BY <2>1, <2>2
  <2>5. d \in Seq(Int)
    BY <2>3, <2>4, SeqDef
  <2> QED
    BY <2>1, <2>3, <2>4, <2>5, LenProperties
<1> HIDE DEF d, k
<1>4. n \in 1 .. Len(d)
  BY <1>1, <1>2, <1>3
<1>5. DOMAIN u = 1 .. n /\ \A i \in 1 .. n : u[i] = d[k - 1 - n + i]
  <2>1. d \in Seq(Int) /\ Len(d) = k - 1
    BY <1>3
  <2>2. DOMAIN u = 1 .. n /\ \A i \in 1 .. n : u[i] = d[Len(d) - n + i]
    BY <1>4, <2>1, NewestIs
  <2> HIDE DEF u
  <2> QED
    BY <2>1, <2>2
<1> HIDE DEF u, m
<1>6. n \in 1 .. m
  BY <1>1, <1>2
<1>7. ASSUME NEW i \in 1 .. n
      PROVE  /\ u[i] = Collected[i + (m - n)] - Collected[(i + (m - n)) - 1]
             /\ Collected[i + (m - n)] \in Int /\ Collected[(i + (m - n)) - 1] \in Int
             /\ i + (m - n) \in NewestMinutes(n)
  <2> DEFINE j == k - 1 - n + i
  <2>1. /\ j \in 1 .. k - 1 /\ j \in 1 .. k /\ j + 1 \in 1 .. k
        /\ m - k + (j + 1) = i + (m - n) /\ m - k + j = (i + (m - n)) - 1
        /\ i + (m - n) \in 1 .. m /\ (i + (m - n)) - 1 \in 1 .. m
    BY <1>1, <1>2
  <2> HIDE DEF j
  <2>2. u[i] = c[j + 1] - c[j]
    BY <1>3, <1>5, <2>1 DEF j
  <2>3. c[j + 1] = Collected[i + (m - n)] /\ c[j] = Collected[(i + (m - n)) - 1]
    BY <1>1, <2>1
  <2>4. i + (m - n) \in NewestMinutes(n)
    BY <1>1, <1>6, MinutesAre DEF m
  <2> QED
    BY <1>1, <2>1, <2>2, <2>3, <2>4
<1> QED
  BY <1>5, <1>6, <1>7 DEF u, d, c, m

\* The RSI that is back is back between its levels.
LEMMA RsiIsBack ==
  ASSUME PipeInv, Len(ClosesOf(RsiPeriod + Margin)) > RsiPeriod,
         NEW side \in Sides,
         SideOf("rsi", RsiZone(ClosesOf(RsiPeriod + Margin), RsiPeriod, RsiLow, RsiHigh)) = side
  PROVE  LET ups == OverNewest(RsiPeriod, [i \in NewestMinutes(RsiPeriod) |->
                      IF Collected[i] > Collected[i - 1]
                      THEN Collected[i] - Collected[i - 1] ELSE 0])
             downs == OverNewest(RsiPeriod, [i \in NewestMinutes(RsiPeriod) |->
                        IF Collected[i] < Collected[i - 1]
                        THEN Collected[i - 1] - Collected[i] ELSE 0])
         IN  /\ ups + downs > 0
             /\ 100 * ups >= RsiLow * (ups + downs)
             /\ 100 * ups <= RsiHigh * (ups + downs)
<1> DEFINE limit == RsiPeriod + Margin
           n == RsiPeriod
           c == ClosesOf(limit)
           m == Len(Collected)
           u == Newest(Deltas(c), n)
           gains == [i \in DOMAIN u |-> IF u[i] > 0 THEN u[i] ELSE 0]
           losses == [i \in DOMAIN u |-> IF u[i] < 0 THEN -u[i] ELSE 0]
           up == [i \in NewestMinutes(n) |-> IF Collected[i] > Collected[i - 1]
                                             THEN Collected[i] - Collected[i - 1] ELSE 0]
           down == [i \in NewestMinutes(n) |-> IF Collected[i] < Collected[i - 1]
                                               THEN Collected[i - 1] - Collected[i] ELSE 0]
           g == Total(gains)
           l == Total(losses)
<1>1. /\ limit \in 1 .. Count /\ n \in Nat \ {0}
      /\ RsiLow \in Int /\ RsiHigh \in Int /\ RsiHigh < 100
  BY LimitsAre, SignalPipelineAssumption DEF PipeInv
<1>2. /\ n \in 1 .. m /\ DOMAIN u = 1 .. n
      /\ \A i \in 1 .. n :
           /\ u[i] = Collected[i + (m - n)] - Collected[(i + (m - n)) - 1]
           /\ Collected[i + (m - n)] \in Int /\ Collected[(i + (m - n)) - 1] \in Int
           /\ i + (m - n) \in NewestMinutes(n)
  BY <1>1, DeltasAre DEF PipeInv
<1>3. m \in Nat
  BY <1>1, ClosesAre DEF PipeInv
<1> HIDE DEF u
<1>4. /\ DOMAIN gains = 1 .. n /\ DOMAIN losses = 1 .. n
      /\ \A i \in 1 .. n : gains[i] \in Nat /\ losses[i] \in Nat
  <2> HIDE DEF m
  <2>1. \A i \in 1 .. n : u[i] \in Int
    BY <1>2
  <2> QED
    BY <1>2, <2>1
<1>5. \A i \in 1 .. n : up[i + (m - n)] = gains[i] /\ down[i + (m - n)] = losses[i]
  <2> TAKE i \in 1 .. n
  <2> DEFINE j == i + (m - n)
             a == Collected[j]
             b == Collected[j - 1]
  <2> HIDE DEF m
  <2>1. u[i] = a - b /\ a \in Int /\ b \in Int /\ j \in NewestMinutes(n)
    BY <1>2
  <2> HIDE DEF j
  <2>2. /\ up[j] = IF a > b THEN a - b ELSE 0
        /\ down[j] = IF a < b THEN b - a ELSE 0
    BY <2>1
  <2>3. /\ gains[i] = IF u[i] > 0 THEN u[i] ELSE 0
        /\ losses[i] = IF u[i] < 0 THEN -u[i] ELSE 0
    BY <1>2
  <2> HIDE DEF a, b, up, down, gains, losses
  <2>4. up[j] = gains[i] /\ down[j] = losses[i]
    BY <2>1, <2>2, <2>3
  <2> QED
    BY <2>4 DEF j
<1> HIDE DEF up, down, gains, losses, m
<1>6. g = OverNewest(n, up) /\ l = OverNewest(n, down)
  <2>1. \A i \in 1 .. n : gains[i] \in Int /\ losses[i] \in Int
    BY <1>4
  <2>2. g = OverNewest(n, up)
    BY <1>2, <1>3, <1>4, <1>5, <2>1, TotalOverNewest DEF m
  <2>3. l = OverNewest(n, down)
    BY <1>2, <1>3, <1>4, <1>5, <2>1, TotalOverNewest DEF m
  <2> QED
    BY <2>2, <2>3
<1>7. g \in Nat /\ l \in Nat
  <2>1. IsFiniteSet(1 .. n)
    BY <1>1, FS_Interval
  <2> QED
    BY <1>4, <2>1, SumIsNat, TotalIs
<1>8. RsiZone(c, n, RsiLow, RsiHigh) = "neutral"
  <2> HIDE DEF c
  <2> QED
    BY DEF SideOf, RsiCalls, Sides, c
<1>9. Gains(u) = g /\ Losses(u) = l
  BY DEF Gains, Losses, gains, losses
<1>10. /\ ~(l # 0 /\ 100 * g < RsiLow * (g + l))
       /\ ~(IF l = 0 THEN 100 > RsiHigh ELSE 100 * g > RsiHigh * (g + l))
  <2> HIDE DEF g, l, c
  <2> QED
    BY <1>8, <1>9 DEF RsiZone, u
<1> HIDE DEF g, l
<1>11. l # 0
  BY <1>1, <1>10
<1>12. g + l > 0
  BY <1>7, <1>11
<1>13. RsiLow * (g + l) \in Int /\ RsiHigh * (g + l) \in Int
  BY <1>1, <1>7
<1>14. 100 * g >= RsiLow * (g + l) /\ 100 * g <= RsiHigh * (g + l)
  <2> DEFINE lo == RsiLow * (g + l)
             hi == RsiHigh * (g + l)
  <2>1. ~(100 * g < lo) /\ ~(100 * g > hi)
    BY <1>10, <1>11
  <2>2. lo \in Int /\ hi \in Int
    BY <1>13
  <2> HIDE DEF lo, hi
  <2>3. 100 * g >= lo /\ 100 * g <= hi
    BY <1>7, <2>1, <2>2
  <2> QED
    BY <2>3 DEF lo, hi
<1> QED
  BY <1>6, <1>12, <1>14 DEF up, down

\* SumLinear over the newest n minutes.
LEMMA OverNewestLinear ==
  ASSUME Len(Collected) \in Nat, NEW n \in 1 .. Len(Collected),
         NEW v, NEW a, NEW b, NEW u, NEW c, NEW w,
         Combines(v, NewestMinutes(n), a, b, u, c, w)
  PROVE  OverNewest(n, v) = n * a + b * OverNewest(n, u) + c * OverNewest(n, w)
<1>1. IsFiniteSet(NewestMinutes(n)) /\ Cardinality(NewestMinutes(n)) = n
  BY MinutesAre
<1>2. SumOf(v, NewestMinutes(n)) = Cardinality(NewestMinutes(n)) * a
        + b * SumOf(u, NewestMinutes(n)) + c * SumOf(w, NewestMinutes(n))
  BY <1>1, SumLinear
<1> QED
  BY <1>1, <1>2, OverNewestIs

LEMMA OverNewestIsInt ==
  ASSUME Len(Collected) \in Nat, NEW n \in 1 .. Len(Collected), NEW v,
         \A i \in NewestMinutes(n) : v[i] \in Int
  PROVE  OverNewest(n, v) \in Int
  BY MinutesAre, SumParts, OverNewestIs

LEMMA SquareIs ==
  ASSUME NEW x \in Int, NEW y \in Int
  PROVE  Square(x - y) = x * x + (-2 * x) * y + 1 * (y * y)
<1>1. (x - y) * (x - y) = x * x + (-2 * x) * y + 1 * (y * y)
  OBVIOUS
<1> QED
  BY <1>1 DEF Square

\* The squares of the differences between each two of n closes add up to twice
\* n times the sum of the squares less the square of the sum.
LEMMA SpreadIs ==
  ASSUME MarketInv, NEW n \in 1 .. Len(Collected)
  PROVE  LET spread == [i \in NewestMinutes(n) |->
                          OverNewest(n, [j \in NewestMinutes(n) |->
                                           Square(Collected[i] - Collected[j])])]
             squares == [i \in NewestMinutes(n) |-> Collected[i] * Collected[i]]
             sum == OverNewest(n, Collected)
         IN  OverNewest(n, spread) = 2 * (n * OverNewest(n, squares) - sum * sum)
<1> DEFINE D == NewestMinutes(n)
           inner(i) == [j \in D |-> Square(Collected[i] - Collected[j])]
           spread == [i \in D |-> OverNewest(n, inner(i))]
           squares == [i \in D |-> Collected[i] * Collected[i]]
           sum == OverNewest(n, Collected)
           q == OverNewest(n, squares)
<1>1. Len(Collected) \in Nat /\ \A i \in D : Collected[i] \in Int
  <2>1. 1 \in 1 .. Count
    BY MarketDataAssumption
  <2> QED
    BY <2>1, ClosesAre, MinutesAre
<1> HIDE DEF D
<1>2. \A i \in D : squares[i] = Collected[i] * Collected[i] /\ squares[i] \in Int
  BY <1>1
<1> HIDE DEF squares
<1>3. sum \in Int /\ q \in Int
  BY <1>1, <1>2, OverNewestIsInt DEF D
<1> HIDE DEF sum, q
<1>4. ASSUME NEW i \in D
      PROVE  spread[i] = q + (-2 * sum) * Collected[i] + n * squares[i]
  <2> DEFINE x == Collected[i]
             v == inner(i)
             a == x * x
             b == -2 * x
  <2>1. x \in Int
    BY <1>1
  <2> HIDE DEF x
  <2>2. a \in Int /\ b \in Int
    BY <2>1
  <2>3. \A j \in D : v[j] = a + b * Collected[j] + 1 * squares[j]
    <3> TAKE j \in D
    <3>1. v[j] = Square(x - Collected[j])
      BY DEF x
    <3>2. Collected[j] \in Int /\ squares[j] = Collected[j] * Collected[j]
      BY <1>1, <1>2
    <3> QED
      BY <2>1, <3>1, <3>2, SquareIs
  <2> HIDE DEF v, a, b
  <2>4. OverNewest(n, v) = n * a + b * sum + 1 * q
    <3>1. Combines(v, D, a, b, Collected, 1, squares)
      BY <1>1, <1>2, <2>2, <2>3 DEF Combines
    <3> QED
      BY <1>1, <3>1, OverNewestLinear DEF D, sum, q
  <2>5. spread[i] = OverNewest(n, v)
    BY DEF v
  <2>6. n * a + b * sum + 1 * q = q + (-2 * sum) * x + n * (x * x)
    <3>1. n \in Int
      BY <1>1
    <3> QED
      BY <1>3, <2>1, <3>1 DEF a, b
  <2> QED
    BY <1>2, <2>4, <2>5, <2>6 DEF x
<1> HIDE DEF spread
<1>5. -2 * sum \in Int /\ n \in Int
  BY <1>1, <1>3
<1>6. OverNewest(n, spread) = n * q + (-2 * sum) * sum + n * q
  <2> DEFINE b == -2 * sum
  <2>1. b \in Int /\ \A i \in D : spread[i] = q + b * Collected[i] + n * squares[i]
    BY <1>4, <1>5
  <2> HIDE DEF b
  <2>2. Combines(spread, D, q, b, Collected, n, squares)
    BY <1>1, <1>2, <1>3, <1>5, <2>1 DEF Combines
  <2>3. OverNewest(n, spread) = n * q + b * sum + n * q
    BY <1>1, <2>2, OverNewestLinear DEF D, sum, q
  <2> QED
    BY <2>3 DEF b
<1>7. n * q + (-2 * sum) * sum + n * q = 2 * (n * q - sum * sum)
  BY <1>3, <1>5
<1> QED
  BY <1>6, <1>7 DEF spread, squares, sum, q, D

\* The price that is back is back between the bands.
LEMMA PriceIsBack ==
  ASSUME PipeInv, Len(ClosesOf(BandWindow + Margin)) >= BandWindow,
         NEW side \in Sides,
         SideOf("bollinger", BandZone(ClosesOf(BandWindow + Margin), BandWindow, NumStd)) = side
  PROVE  LET off == [i \in NewestMinutes(BandWindow) |->
                       Collected[Len(Collected)] - Collected[i]]
             spread == [i \in NewestMinutes(BandWindow) |->
                          OverNewest(BandWindow, [j \in NewestMinutes(BandWindow) |->
                                                    Square(Collected[i] - Collected[j])])]
         IN  2 * Square(OverNewest(BandWindow, off))
               < Square(NumStd) * OverNewest(BandWindow, spread)
<1> DEFINE limit == BandWindow + Margin
           n == BandWindow
           c == ClosesOf(limit)
           m == Len(Collected)
           u == Newest(c, n)
           D == NewestMinutes(n)
           off == [i \in D |-> Collected[m] - Collected[i]]
           spread == [i \in D |-> OverNewest(n, [j \in D |-> Square(Collected[i] - Collected[j])])]
           squares == [i \in D |-> Collected[i] * Collected[i]]
           products == [i \in 1 .. n |-> u[i] * u[i]]
           p == Collected[m]
           sum == OverNewest(n, Collected)
           q == OverNewest(n, squares)
<1>1. limit \in 1 .. Count /\ n \in Nat \ {0} /\ NumStd \in Int /\ MarketInv
  BY LimitsAre, SignalPipelineAssumption DEF PipeInv
<1>2. /\ m \in Nat /\ c \in Seq(Int) /\ Len(c) \in Nat /\ Len(c) <= m
      /\ \A i \in 1 .. m : Collected[i] \in Int
      /\ \A i \in 1 .. Len(c) : c[i] = Collected[m - Len(c) + i]
  <2> HIDE DEF limit
  <2>1. limit \in 1 .. Count /\ MarketInv
    BY <1>1
  <2>2. limit \in Nat
    BY <2>1, MarketDataAssumption
  <2>3. Len(c) \in 0 .. limit /\ Len(c) <= m
    BY <2>1, ClosesAre
  <2>4. /\ m \in Nat /\ c \in Seq(Int)
        /\ \A i \in 1 .. m : Collected[i] \in Int
        /\ \A i \in 1 .. Len(c) : c[i] = Collected[m - Len(c) + i]
    BY <2>1, ClosesAre
  <2> QED
    BY <2>2, <2>3, <2>4
<1>3. n \in 1 .. Len(c) /\ n \in 1 .. m /\ m \in 1 .. m /\ Len(c) \in 1 .. Len(c)
  BY <1>1, <1>2
<1>4. p \in Int /\ \A i \in D : Collected[i] \in Int
  BY <1>2, <1>3, MinutesAre
<1>5. Total(u) = sum
  BY <1>1, <1>3, SmaIsOverNewest
<1>6. Last(c) = p
  <2> HIDE DEF c, m
  <2>1. m - Len(c) + Len(c) = m
    BY <1>2
  <2> QED
    BY <1>2, <1>3, <2>1 DEF Last
<1>7. Total(products) = q
  <2> HIDE DEF c
  <2>1. \A i \in 1 .. n : u[i] = c[Len(c) - n + i] /\ u[i] \in Int
    BY <1>2, <1>3, NewestIs
  <2> HIDE DEF u, m
  <2>2. ASSUME NEW i \in 1 .. n
        PROVE  /\ products[i] \in Int
               /\ squares[i + (m - n)] = products[i]
    <3>1. /\ Len(c) - n + i \in 1 .. Len(c)
          /\ m - Len(c) + (Len(c) - n + i) = i + (m - n)
      BY <1>2, <1>3
    <3>2. u[i] = Collected[i + (m - n)] /\ u[i] \in Int
      BY <1>2, <2>1, <3>1
    <3>3. i + (m - n) \in D
      BY <1>2, <1>3, MinutesAre DEF m
    <3> HIDE DEF D
    <3>4. squares[i + (m - n)] = u[i] * u[i]
      BY <3>2, <3>3
    <3> QED
      BY <3>2, <3>4
  <2>3. DOMAIN products = 1 .. n
    OBVIOUS
  <2> HIDE DEF products, squares
  <2> QED
    BY <1>2, <1>3, <2>2, <2>3, TotalOverNewest DEF m
<1>8. sum \in Int /\ q \in Int
  <2>1. \A i \in D : squares[i] \in Int
    BY <1>4
  <2> HIDE DEF squares
  <2> QED
    BY <1>2, <1>3, <1>4, <2>1, OverNewestIsInt
<1>9. OverNewest(n, off) = n * p - sum
  <2>1. \A i \in D : off[i] = p + (-1) * Collected[i] + 0 * Collected[i]
    <3> HIDE DEF D, m, p
    <3>1. \A i \in D : off[i] = p - Collected[i]
      BY DEF p
    <3> HIDE DEF off
    <3> QED
      BY <1>4, <3>1
  <2> HIDE DEF off, m, p
  <2>2. OverNewest(n, off) = n * p + (-1) * sum + 0 * sum
    <3>1. -1 \in Int /\ 0 \in Int
      OBVIOUS
    <3>2. Combines(off, D, p, -1, Collected, 0, Collected)
      BY <1>4, <2>1, <3>1 DEF Combines
    <3> QED
      BY <1>2, <1>3, <3>2, OverNewestLinear DEF m
  <2> HIDE DEF sum
  <2> QED
    BY <1>1, <1>4, <1>8, <2>2
<1>10. OverNewest(n, spread) = 2 * (n * q - sum * sum)
  BY <1>1, <1>3, SpreadIs
<1>11. BandZone(c, n, NumStd) = "neutral"
  <2> HIDE DEF c
  <2> QED
    BY DEF SideOf, BandCalls, Sides, c
<1> DEFINE d == n * p - sum
           width2 == NumStd * NumStd * (n * q - sum * sum)
<1>12. ~(d <= 0 /\ d * d >= width2) /\ ~(d >= 0 /\ d * d >= width2)
  <2> HIDE DEF c, p, sum, q
  <2> QED
    BY <1>5, <1>6, <1>7, <1>11 DEF BandZone, u
<1> HIDE DEF p, sum, q
<1>13. d \in Int /\ width2 \in Int
  BY <1>1, <1>4, <1>8
<1>14. d * d < width2
  <2> HIDE DEF d, width2
  <2>1. d * d \in Int
    BY <1>13
  <2> QED
    BY <1>12, <1>13, <2>1
<1>15. 2 * (d * d) < NumStd * NumStd * (2 * (n * q - sum * sum))
  <2> DEFINE k == NumStd * NumStd
             z == n * q - sum * sum
  <2>1. k \in Int /\ z \in Int /\ d * d \in Int
    BY <1>1, <1>8, <1>13
  <2>2. d * d < k * z
    BY <1>14
  <2> HIDE DEF k, z, d
  <2>3. k * (2 * z) = 2 * (k * z) /\ k * z \in Int
    BY <2>1
  <2>4. 2 * (d * d) < k * (2 * z)
    BY <2>1, <2>2, <2>3
  <2> QED
    BY <2>4 DEF k, z
<1> QED
  BY <1>9, <1>10, <1>15 DEF Square, off, spread, D, m

-------------------------------------------------------------------------------
\* A signal is true of the exchange's candles.

\* Whose signal calls for what.
LEMMA ModelJustifies ==
  ASSUME NEW h, model = window["ml"],
         h.strategy = "ml" \/ (h.strategy = "aggregator" /\ members = {"ml"})
  PROVE  Justified(h)
  BY DEF Justified

LEMMA CrossJustifies ==
  ASSUME PipeInv, HasFeatures("ma"), NEW h, h.side \in Sides, SideOf("ma", MaZone) = h.side,
         h.strategy = "ma" \/ (h.strategy = "aggregator" /\ members # {"ml"})
  PROVE  Justified(h)
<1>1. LET short == OverNewest(ShortWindow, Collected) * window.ma
          long == OverNewest(window.ma, Collected) * ShortWindow
      IN  IF h.side = "buy" THEN short > long ELSE short < long
  BY CrossIsThere
<1>2. ~(h.strategy = "ml" \/ (h.strategy = "aggregator" /\ members = {"ml"}))
  OBVIOUS
<1> QED
  BY <1>1, <1>2 DEF Justified

LEMMA RsiJustifies ==
  ASSUME PipeInv, Len(ClosesOf(RsiPeriod + Margin)) > RsiPeriod, NEW h, h.side \in Sides,
         SideOf("rsi", RsiZone(ClosesOf(RsiPeriod + Margin), RsiPeriod, RsiLow, RsiHigh)) = h.side,
         h.strategy = "rsi"
  PROVE  Justified(h)
  BY RsiIsBack DEF Justified

LEMMA PriceJustifies ==
  ASSUME PipeInv, Len(ClosesOf(BandWindow + Margin)) >= BandWindow, NEW h, h.side \in Sides,
         SideOf("bollinger", BandZone(ClosesOf(BandWindow + Margin), BandWindow, NumStd)) = h.side,
         h.strategy = "bollinger"
  PROVE  Justified(h)
  BY PriceIsBack DEF Justified

\* More than half of the members is not the ML strategy among others.
LEMMA VotesJustified ==
  ASSUME PipeInv, NEW zones, DOMAIN zones \subseteq Voters,
         "ma" \in DOMAIN zones => zones["ma"] = MaZone /\ HasFeatures("ma"),
         "ml" \in DOMAIN zones => model # 0,
         NEW h \in Ensemble(zones)
  PROVE  Justified(h)
<1> DEFINE votes(s) == {v \in DOMAIN zones : SideOf(v, zones[v]) = s}
<1>1. PICK s \in Sides :
        /\ h = [strategy |-> "aggregator", side |-> s]
        /\ votes(s) # {}
        /\ Cardinality(votes(s)) * 100 >= ThresholdPct * Cardinality(members)
  BY DEF Ensemble
<1>2. h.strategy = "aggregator" /\ h.side = s
  BY <1>1
<1>3. DOMAIN zones \subseteq members /\ DOMAIN zones \subseteq {"ma", "ml"}
  BY DEF Voters
<1>4. CASE members = {"ml"}
  <2>1. "ml" \in DOMAIN zones
    BY <1>1, <1>3, <1>4
  <2> QED
    BY <1>2, <1>4, <2>1, ModelJustifies DEF PipeInv, ModelFits
<1>5. CASE members # {"ml"}
  <2>1. "ma" \in votes(s)
    <3>1. SUFFICES ASSUME "ma" \notin votes(s) PROVE FALSE
      OBVIOUS
    <3>2. votes(s) = {"ml"} /\ "ml" \in members
      BY <1>1, <1>3, <3>1
    <3> HIDE DEF votes
    <3>3. PICK x \in members : x # "ml"
      BY <1>5, <3>2
    <3>4. IsFiniteSet(members) /\ Cardinality(members) \in Nat
      BY MembersFinite DEF PipeInv
    <3>5. Cardinality({"ml"}) = 1 /\ IsFiniteSet({"ml"})
      BY FS_Singleton
    <3>6. Cardinality({"ml"} \cup {x}) = 2
      BY <3>3, <3>5, FS_AddElement
    <3>7. Cardinality(members) >= 2
      BY <3>2, <3>3, <3>4, <3>6, FS_Subset
    <3> DEFINE n == Cardinality(members)
    <3>8. 100 >= ThresholdPct * n
      BY <1>1, <3>2, <3>5
    <3>9. n \in Nat /\ n >= 2 /\ ThresholdPct \in 51 .. 100
      BY <3>4, <3>7, SignalPipelineAssumption
    <3> HIDE DEF n
    <3> QED
      BY <3>8, <3>9
  <2>2. SideOf("ma", MaZone) = s /\ HasFeatures("ma")
    BY <2>1
  <2> QED
    BY <1>2, <1>5, <2>2, CrossJustifies
<1> QED
  BY <1>4, <1>5

\* What a step may say: nothing that the exchange's candles do not.
SaysTrue == \A h \in heard' : h \notin heard \/ turn' = 1 => Justified(h)

LEMMA TickSaysTrue == PipeInv /\ TickArrives => SaysTrue
<1> SUFFICES ASSUME PipeInv, TickArrives, NEW h \in heard'
             PROVE  Justified(h)
  BY DEF SaysTrue
<1> DEFINE ready == {v \in Voters : HasFeatures(v) /\ (v = "ml" => model # 0)}
<1>1. PICK label \in MlLabels :
        AggregatorVotes([v \in ready |-> IF v = "ma" THEN MaZone ELSE label])
  BY DEF TickArrives
<1> DEFINE zones == [v \in ready |-> IF v = "ma" THEN MaZone ELSE label]
<1>2. /\ DOMAIN zones \subseteq Voters
      /\ "ma" \in DOMAIN zones => zones["ma"] = MaZone /\ HasFeatures("ma")
      /\ "ml" \in DOMAIN zones => model # 0
  OBVIOUS
<1>3. h \in Ensemble(zones)
  BY <1>1 DEF AggregatorVotes
<1> HIDE DEF zones
<1> QED
  BY <1>2, <1>3, VotesJustified

\* What a strategy says that was not heard before is of the zone it found.
LEMMA NewsIs ==
  ASSUME NEW name, NEW ready, NEW zones, OnTick(name, ready, zones),
         NEW h \in heard', h \notin heard
  PROVE  /\ ready
         /\ \E zone \in zones : SideOf(name, zone) = h.side /\ h.side # "hold"
         /\ h.strategy = name
<1>1. ~(~ready /\ heard' = (IF turn = 1 THEN heard ELSE {}))
  OBVIOUS
<1>2. PICK zone \in zones :
        LET side == SideOf(name, zone) IN
        heard' = (IF turn = 1 THEN heard ELSE {}) \cup
          (IF side = "hold" THEN {} ELSE {[strategy |-> name, side |-> side]})
  BY <1>1 DEF OnTick
<1>3. SideOf(name, zone) # "hold" /\ h = [strategy |-> name, side |-> SideOf(name, zone)]
  BY <1>2
<1>4. h.strategy = name /\ h.side = SideOf(name, zone)
  BY <1>3
<1>5. ready
  BY <1>1 DEF OnTick
<1> QED
  BY <1>3, <1>4, <1>5

LEMMA StrategySaysTrue == PipeInv /\ StrategyRuns => SaysTrue
<1>1. SUFFICES ASSUME PipeInv, StrategyRuns
               PROVE  SaysTrue
  OBVIOUS
<1>2. turn' # 1
  <2>1. turn > 0 /\ turn' = IF turn = Len(Engine) /\ ~suspended' THEN 0 ELSE turn + 1
    BY <1>1 DEF StrategyRuns, MaOnTick, RsiOnTick, BollingerOnTick, MacdOnTick, MlOnTick, OnTick
  <2>2. turn \in Int
    BY EngineIs, <1>1 DEF PipeInv, Typed
  <2> QED
    BY <2>1, <2>2
<1>3. SUFFICES ASSUME NEW h \in heard', h \notin heard
               PROVE  Justified(h)
  BY <1>2 DEF SaysTrue
<1>4. h.side \in Answers
  <2>1. heard' \subseteq Heard
    BY <1>1, StrategyHolds DEF PipeInv, Typed
  <2> QED
    BY <2>1 DEF Heard, Answers
<1>5. CASE MaOnTick
  <2>1. /\ HasFeatures("ma") /\ h.strategy = "ma"
        /\ \E zone \in {MaZone} : SideOf("ma", zone) = h.side /\ h.side # "hold"
    BY <1>3, <1>5, NewsIs DEF MaOnTick
  <2> QED
    BY <1>1, <1>4, <2>1, CrossJustifies DEF Answers
<1>6. CASE RsiOnTick
  <2> DEFINE c == ClosesOf(RsiPeriod + Margin)
             zones == {RsiZone(c, RsiPeriod, RsiLow, RsiHigh)}
             ready == Len(c) > RsiPeriod
  <2>1. /\ ready /\ h.strategy = "rsi"
        /\ \E zone \in zones : SideOf("rsi", zone) = h.side /\ h.side # "hold"
    <3>1. OnTick("rsi", ready, zones)
      BY <1>6 DEF RsiOnTick
    <3> HIDE DEF ready, zones
    <3> QED
      BY <1>3, <3>1, NewsIs
  <2> QED
    BY <1>1, <1>4, <2>1, RsiJustifies DEF Answers
<1>7. CASE BollingerOnTick
  <2> DEFINE c == ClosesOf(BandWindow + Margin)
             zones == {BandZone(c, BandWindow, NumStd)}
             ready == Len(c) >= BandWindow
  <2>1. /\ ready /\ h.strategy = "bollinger"
        /\ \E zone \in zones : SideOf("bollinger", zone) = h.side /\ h.side # "hold"
    <3>1. OnTick("bollinger", ready, zones)
      BY <1>7 DEF BollingerOnTick
    <3> HIDE DEF ready, zones
    <3> QED
      BY <1>3, <3>1, NewsIs
  <2> QED
    BY <1>1, <1>4, <2>1, PriceJustifies DEF Answers
<1>8. CASE MacdOnTick
  <2> DEFINE ready == MacdDefined(ClosesOf(MacdSlow + MacdSignal + 2 * Margin),
                                  MacdSlow, MacdSignal)
  <2>1. OnTick("macd", ready, {"above", "below"})
    BY <1>8 DEF MacdOnTick
  <2> HIDE DEF ready
  <2>2. h.strategy = "macd"
    BY <1>3, <2>1, NewsIs
  <2> QED
    BY <2>2 DEF Justified
<1>9. CASE MlOnTick
  <2>1. h.strategy = "ml" /\ model # 0
    BY <1>3, <1>9, NewsIs DEF MlOnTick
  <2> QED
    BY <1>1, <2>1, ModelJustifies DEF PipeInv, ModelFits
<1> QED
  BY <1>1, <1>5, <1>6, <1>7, <1>8, <1>9 DEF StrategyRuns

\* Whoever is not a strategy says nothing, and does not begin a tick.
LEMMA OthersSayNothing ==
  ASSUME PipeInv, heard' \subseteq heard, turn' # 1
  PROVE  SaysTrue
  BY DEF SaysTrue

LEMMA NextSaysTrue == PipeInv /\ Next => SaysTrue
<1> SUFFICES ASSUME PipeInv, Next PROVE SaysTrue
  OBVIOUS
<1>1. CASE TickArrives
  BY <1>1, TickSaysTrue
<1>2. CASE StrategyRuns
  BY <1>2, StrategySaysTrue
<1>3. CASE Resume
  <2>1. turn # 1
    BY <1>3 DEF Resume, PipeInv, TurnSound
  <2> QED
    BY <1>3, <2>1, OthersSayNothing DEF Resume
<1>4. ASSUME Between, heard' = heard, turn' = turn
      PROVE  SaysTrue
  <2>1. turn # 1
    BY <1>4, BetweenIs
  <2> QED
    BY <1>4, <2>1, OthersSayNothing
<1>5. CASE Collect
  BY <1>4, <1>5 DEF Collect
<1>6. ASSUME NEW name \in Strategies, NEW w \in MaWindows, UpdateParams(name, w)
      PROVE  SaysTrue
  BY <1>4, <1>6 DEF UpdateParams
<1>7. ASSUME NEW n \in TrainingSizes, Train(n)
      PROVE  SaysTrue
  BY <1>4, <1>7 DEF Train
<1>8. CASE Restart
  BY <1>8, OthersSayNothing DEF Restart
<1> QED
  BY <1>1, <1>2, <1>3, <1>5, <1>6, <1>7, <1>8 DEF Next

\* Whenever a strategy or the aggregator speaks, the exchange's newest candles say
\* the same: the averages are in the order of the cross, the RSI is between its
\* levels, the price between the bands, and the model fits its windows
\* (ma_crossover.py:130-154, rsi_strategy.py:120-135, bollinger_strategy.py:129-144,
\* ml_strategy.py:315-321).
THEOREM SignalsAreJustified == Spec => SignalsJustified
<1>1. PipeInv /\ [Next]_vars =>
        [\A h \in heard' : h \notin heard \/ turn' = 1 => Justified(h)]_vars
  BY NextSaysTrue DEF SaysTrue
<1> QED
  BY <1>1, InitPipe, NextPipe, PTL DEF Spec, SignalsJustified
===============================================================================
