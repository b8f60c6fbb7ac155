---------------------------- MODULE SignalPipeline -----------------------------
(***************************************************************************)
(* From candles to signals: strategy/impl/*, strategy/aggregator.py and    *)
(* the part of core/engine.py that runs the strategies, over MarketData.   *)
(*                                                                         *)
(* A tick of the symbol makes the aggregator evaluate its members and the  *)
(* engine run its strategies one after the other.  A strategy suspends     *)
(* only to save and publish a signal; between two suspensions nothing else *)
(* runs.  The aggregator subscribed before the engine, so it goes first.   *)
(*                                                                         *)
(* What side of its signal line MACD is on, and what the trained model     *)
(* predicts, is any; whether there are candles enough for them is exact.   *)
(***************************************************************************)
EXTENDS Integers, Sequences, FiniteSets, MarketData, Indicators

CONSTANTS
  Engine,            \* the engine's strategies, in the order of registration
  Ensembles,         \* the lists of strategies an aggregator may be given
  ThresholdPct,      \* its threshold, in percent
  MaWindows,         \* long_window of the MA crossover, and of the ML strategy
  ShortWindow, RsiPeriod, RsiLow, RsiHigh, BandWindow, NumStd,
  MacdSlow, MacdSignal,
  Margin,            \* candles read beyond those required (10 in the code)
  TrainingSizes, LookAhead, MinSamples  \* MLStrategy.train (samples: 10)

Strategies == {"ma", "rsi", "bollinger", "macd", "ml"}
Sides == {"buy", "sell"}

\* The windows fit into the candles kept.  The engine runs the MA crossover
\* first and each strategy once, and both sides cannot reach the threshold.  An
\* RSI of 100, a flat market's included, is above the upper level.
ASSUME SignalPipelineAssumption ==
  /\ ShortWindow \in Nat \ {0} /\ RsiPeriod \in Nat \ {0} /\ BandWindow \in Nat \ {0}
  /\ MacdSlow \in Nat \ {0} /\ MacdSignal \in Nat \ {0} /\ Margin \in Nat
  /\ RsiLow \in Int /\ RsiHigh \in Int /\ RsiHigh < 100 /\ NumStd \in Int
  /\ \A w \in MaWindows : w \in Nat \ {0} /\ ShortWindow <= w /\ w + Margin <= Count
  /\ RsiPeriod + 1 + Margin <= Count /\ BandWindow + Margin <= Count
  /\ MacdSlow + MacdSignal + 2 * Margin <= Count
  /\ Engine \in Seq(Strategies) /\ Engine # <<>>
  /\ \A i \in 1 .. Len(Engine) : Engine[i] = "ma" <=> i = 1
  /\ Ensembles \subseteq SUBSET Strategies
  /\ ThresholdPct \in 51 .. 100

VARIABLES
  members,    \* the aggregator's strategies
  window,     \* params["long_window"] of "ma" and "ml"
  prev,       \* _prev_cross, _prev_zone and _prev_position
  model,      \* the windows _model was trained with; 0 unless _is_trained
  turn,       \* the strategy of the engine that runs next; 0 between ticks
  suspended,  \* the engine waits for a signal to be saved and handled
  heard,      \* SIGNAL_GENERATED of the aggregator and of the strategy that ran
  due         \* history: what the cross that this tick found calls for

strategyVars == <<window, prev, model>>
vars == <<marketVars, members, strategyVars, turn, suspended, heard, due>>

Fresh == [ma |-> "none", rsi |-> "neutral", bollinger |-> "neutral",
          macd |-> "unknown", ml |-> "hold"]

Init ==
  /\ MarketInit
  /\ members \in Ensembles
  /\ window \in [{"ma", "ml"} -> MaWindows]
  /\ prev = Fresh
  /\ model = 0
  /\ turn = 0 /\ suspended = FALSE /\ heard = {} /\ due = "hold"

-------------------------------------------------------------------------------
\* What a strategy sees.

ClosesOf(limit) == [i \in DOMAIN GetCandles(limit) |-> GetCandles(limit)[i].close]

\* FeatureBuilder.build of "ma" and "ml": the candles it needs, and those it reads.
Required(name) ==
  IF window[name] > RsiPeriod + 1 THEN window[name] ELSE RsiPeriod + 1
Features(name) == ClosesOf(Required(name) + Margin)
HasFeatures(name) == Len(Features(name)) >= Required(name)

MaZone == SmaCross(Features("ma"), ShortWindow, window["ma"])
MlLabels == {"hold", "buy", "sell"}

-------------------------------------------------------------------------------
\* The side a strategy signals when it goes from one zone to another.

\* The cross begins; what is overbought is not bought, nor what is oversold sold.
MaCalls(from, to) ==
  LET zone == RsiZone(Features("ma"), RsiPeriod, RsiLow, RsiHigh) IN
  CASE to = "golden" /\ from # "golden" /\ zone # "overbought" -> "buy"
    [] to = "dead" /\ from # "dead" /\ zone # "oversold" -> "sell"
    [] OTHER -> "hold"

RsiCalls(from, to) ==
  CASE from = "oversold" /\ to = "neutral" -> "buy"
    [] from = "overbought" /\ to = "neutral" -> "sell"
    [] OTHER -> "hold"

BandCalls(from, to) ==
  CASE from = "below_lower" /\ to = "neutral" -> "buy"
    [] from = "above_upper" /\ to = "neutral" -> "sell"
    [] OTHER -> "hold"

MacdCalls(from, to) ==
  CASE from = "below" /\ to = "above" -> "buy"
    [] from = "above" /\ to = "below" -> "sell"
    [] OTHER -> "hold"

SideOf(name, zone) ==
  CASE name = "ma" -> MaCalls(prev["ma"], zone)
    [] name = "rsi" -> RsiCalls(prev["rsi"], zone)
    [] name = "bollinger" -> BandCalls(prev["bollinger"], zone)
    [] name = "macd" -> MacdCalls(prev["macd"], zone)
    [] name = "ml" -> zone

\* Mutant: the memory is of the signal and not of the zone.
SeenAsSignal(name, zone) == [prev EXCEPT ![name] = SideOf(name, zone)]

\* _prev_cross and its like after an evaluation; MLStrategy keeps nothing.
Seen(name, zone) == IF name = "ml" THEN prev ELSE [prev EXCEPT ![name] = zone]

-------------------------------------------------------------------------------
\* A tick.

\* The members whose signal the aggregator obtains: those that have a
\* _feature_builder.
Voters == {m \in members : m \in {"ma", "ml"}}

\* The ensemble's signals when its voters find themselves in these zones.
Ensemble(zones) ==
  {[strategy |-> "aggregator", side |-> side] : side \in
     {s \in Sides :
        LET votes == {v \in DOMAIN zones : SideOf(v, zones[v]) = s} IN
        votes # {} /\ Cardinality(votes) * 100 >= ThresholdPct * Cardinality(members)}}

\* Mutant: the aggregator evaluates copies of its strategies.
AggregatorKeepsState(zones) ==
  /\ heard' = Ensemble(zones)
  /\ prev' = prev

\* on_tick_event: the votes are taken with the strategies' own _evaluate.
AggregatorVotes(zones) ==
  /\ heard' = Ensemble(zones)
  /\ prev' = [s \in Strategies |-> IF s \in DOMAIN zones THEN Seen(s, zones[s])[s]
                                   ELSE prev[s]]

\* A tick arrives and the aggregator votes; the engine is next.
TickArrives ==
  /\ turn = 0
  /\ LET ready == {v \in Voters : HasFeatures(v) /\ (v = "ml" => model # 0)} IN
     \E label \in MlLabels :
       AggregatorVotes([v \in ready |-> IF v = "ma" THEN MaZone ELSE label])
  /\ due' = IF HasFeatures("ma") THEN SideOf("ma", MaZone) ELSE "hold"
  /\ turn' = 1
  /\ UNCHANGED <<marketVars, members, window, model, suspended>>

\* on_tick of the strategy whose turn it is, in one of these zones if there is
\* something to tell: a signal is saved and published, and its handlers awaited.
OnTick(name, ready, zones) ==
  /\ turn > 0 /\ ~suspended
  /\ Engine[turn] = name
  /\ \/ /\ ~ready
        /\ heard' = (IF turn = 1 THEN heard ELSE {})
        /\ UNCHANGED <<prev, suspended>>
     \/ /\ ready
        /\ \E zone \in zones :
             LET side == SideOf(name, zone) IN
             /\ prev' = Seen(name, zone)
             /\ suspended' = (side # "hold")
             /\ heard' = (IF turn = 1 THEN heard ELSE {}) \cup
                  (IF side = "hold" THEN {} ELSE {[strategy |-> name, side |-> side]})
  /\ turn' = IF turn = Len(Engine) /\ ~suspended' THEN 0 ELSE turn + 1
  /\ due' = IF turn = 1 THEN due ELSE "hold"
  /\ UNCHANGED <<marketVars, members, window, model>>

MaOnTick == OnTick("ma", HasFeatures("ma"), {MaZone})

RsiOnTick ==
  LET closes == ClosesOf(RsiPeriod + Margin) IN
  OnTick("rsi", Len(closes) > RsiPeriod, {RsiZone(closes, RsiPeriod, RsiLow, RsiHigh)})

BollingerOnTick ==
  LET closes == ClosesOf(BandWindow + Margin) IN
  OnTick("bollinger", Len(closes) >= BandWindow, {BandZone(closes, BandWindow, NumStd)})

MacdOnTick ==
  LET closes == ClosesOf(MacdSlow + MacdSignal + 2 * Margin) IN
  OnTick("macd", MacdDefined(closes, MacdSlow, MacdSignal), {"above", "below"})

MlOnTick == OnTick("ml", model # 0 /\ HasFeatures("ml"), MlLabels)

StrategyRuns ==
  MaOnTick \/ RsiOnTick \/ BollingerOnTick \/ MacdOnTick \/ MlOnTick

\* The handlers of a signal are done.
Resume ==
  /\ suspended
  /\ suspended' = FALSE
  /\ turn' = IF turn > Len(Engine) THEN 0 ELSE turn
  /\ heard' = {} /\ due' = "hold"
  /\ UNCHANGED <<marketVars, members, strategyVars>>

-------------------------------------------------------------------------------
\* What happens between two ticks or while the engine is suspended.

Between == turn = 0 \/ suspended

Collect ==
  /\ Between /\ CollectSymbol
  /\ UNCHANGED <<members, strategyVars, turn, suspended, heard, due>>

\* Mutant: a new window does not ask for a new model.
UpdateKeepsModel(name, w) ==
  /\ Between
  /\ IF name \in DOMAIN window THEN window' = [window EXCEPT ![name] = w]
                               ELSE UNCHANGED window
  /\ prev' = [prev EXCEPT ![name] = Fresh[name]]
  /\ UNCHANGED <<marketVars, members, model, turn, suspended, heard, due>>

\* update_params: the FeatureBuilder is rebuilt and the memory cleared; the ML
\* strategy wants to be trained again.  The other parameters keep their values.
UpdateParams(name, w) ==
  /\ Between
  /\ IF name \in DOMAIN window THEN window' = [window EXCEPT ![name] = w]
                               ELSE UNCHANGED window
  /\ prev' = [prev EXCEPT ![name] = Fresh[name]]
  /\ model' = IF name = "ml" THEN 0 ELSE model
  /\ UNCHANGED <<marketVars, members, turn, suspended, heard, due>>

\* MLStrategy.train on n candles: each sample has long_window and rsi_period
\* candles behind it and look_ahead before it.  Too few leave the model as it is.
\* (required_candles asks for less as long as rsi_period is at least 5.)
Train(n) ==
  /\ Between
  /\ n - LookAhead - (window["ml"] + RsiPeriod) >= MinSamples
  /\ model' = window["ml"]
  /\ UNCHANGED <<marketVars, members, window, prev, turn, suspended, heard, due>>

\* The process restarts: only the table is left.
Restart ==
  /\ SnapshotLost
  /\ prev' = Fresh /\ model' = 0
  /\ turn' = 0 /\ suspended' = FALSE /\ heard' = {} /\ due' = "hold"
  /\ UNCHANGED <<members, window>>

Next ==
  \/ TickArrives
  \/ StrategyRuns
  \/ Resume
  \/ Collect
  \/ \E name \in Strategies, w \in MaWindows : UpdateParams(name, w)
  \/ \E n \in TrainingSizes : Train(n)
  \/ Restart

Spec == Init /\ [][Next]_vars

-------------------------------------------------------------------------------
\* Properties.

Heard == [strategy : Strategies \cup {"aggregator"}, side : Sides]

\* Every variable keeps its type, and a strategy's memory is a zone of its own.
TypeOK ==
  /\ MarketTypeOK
  /\ members \in Ensembles
  /\ window \in [{"ma", "ml"} -> MaWindows]
  /\ prev.ma \in {"none", "golden", "dead"}
  /\ prev.rsi \in {"neutral", "oversold", "overbought"}
  /\ prev.bollinger \in {"neutral", "below_lower", "above_upper"}
  /\ prev.macd \in {"unknown", "above", "below"} /\ prev.ml = "hold"
  /\ model \in MaWindows \cup {0}
  /\ turn \in 0 .. Len(Engine) + 1 /\ suspended \in BOOLEAN
  /\ heard \subseteq Heard /\ due \in Sides \cup {"hold"}

\* Whatever batches overlap, a strategy reads the exchange's newest candles as
\* of the last batch, in order and once each (snapshot.py:46-53,
\* market_collector.py:54-56).
WindowConsecutive ==
  \A limit \in 1 .. Count :
    LET n == Len(Collected) IN
    /\ Len(GetCandles(limit)) = (IF n < limit THEN n ELSE limit)
    /\ \A i \in DOMAIN GetCandles(limit) :
         LET at == n - Len(GetCandles(limit)) + i IN
         GetCandles(limit)[i] = [at |-> at, close |-> Collected[at]]

\* The minutes of the newest n candles fetched, and the sum of v over them.
NewestMinutes(n) == Len(Collected) - n + 1 .. Len(Collected)
OverNewest(n, v) == MapThenSumSet(LAMBDA i : v[i], NewestMinutes(n))

Square(x) == x * x

\* What the exchange's candles say when a strategy signals, computed from its
\* own candles and not from the list in memory.  An aggregator of the ML strategy
\* alone speaks for its model; any other carries no side without the MA crossover.
Justified(h) ==
  LET minutes(n) == NewestMinutes(n)
      close == Collected
      ups == OverNewest(RsiPeriod, [i \in minutes(RsiPeriod) |->
               IF close[i] > close[i - 1] THEN close[i] - close[i - 1] ELSE 0])
      downs == OverNewest(RsiPeriod, [i \in minutes(RsiPeriod) |->
                 IF close[i] < close[i - 1] THEN close[i - 1] - close[i] ELSE 0])
      short == OverNewest(ShortWindow, close) * window.ma
      long == OverNewest(window.ma, close) * ShortWindow
      off == [i \in minutes(BandWindow) |-> close[Len(close)] - close[i]]
      spread == [i \in minutes(BandWindow) |->
                  OverNewest(BandWindow, [j \in minutes(BandWindow) |->
                                            Square(close[i] - close[j])])]
  IN  CASE h.strategy = "ml" \/ (h.strategy = "aggregator" /\ members = {"ml"}) ->
             model = window.ml
        [] h.strategy = "ma" \/ (h.strategy = "aggregator" /\ members # {"ml"}) ->
             IF h.side = "buy" THEN short > long ELSE short < long
        [] h.strategy = "rsi" ->
             /\ ups + downs > 0
             /\ 100 * ups >= RsiLow * (ups + downs)
             /\ 100 * ups <= RsiHigh * (ups + downs)
        [] h.strategy = "bollinger" ->
             2 * Square(OverNewest(BandWindow, off))
               < Square(NumStd) * OverNewest(BandWindow, spread)
        [] OTHER -> TRUE

\* A signal is true of the exchange's newest candles at the moment the strategy
\* gives it, through overlapping batches, new parameters and restarts: the cross
\* is there, the RSI and the price are back between their levels, and the model
\* that predicts was trained with the windows it is used with
\* (ma_crossover.py:130-154, rsi_strategy.py:120-135, bollinger_strategy.py:129-144,
\* ml_strategy.py:315-321).
SignalsJustified ==
  [][\A h \in heard' : h \notin heard \/ turn' = 1 => Justified(h)]_vars

\* Those who speak of the cross once the first strategy, the MA crossover, ran.
CrossHeardFrom == {h \in heard : h.strategy \in {"ma", "aggregator"}}

\* With an aggregator of the MA crossover alone every cross that begins is
\* published in the tick that finds it, once, and for the right side, although
\* the engine evaluates the same instance (aggregator.py:94-106, engine.py:81-83).
CrossHeardOnce ==
  turn = 2 /\ members = {"ma"} =>
    /\ {h.side : h \in CrossHeardFrom} = {due} \ {"hold"}
    /\ Cardinality(CrossHeardFrom) <= 1

\* "A golden cross generates a BUY signal", "the SIGNAL_GENERATED event is
\* published" (docs/requirements.md:47, :53; ma_crossover.py:23-29), and the
\* aggregator "works apart from the engine's on_tick" (main.py:194): whatever the
\* ensemble, a cross that begins is heard from someone in the tick that finds it.
CrossIsHeard == turn = 2 /\ due # "hold" => CrossHeardFrom # {}

===============================================================================
