------------------------------ MODULE MarketData -------------------------------
(***************************************************************************)
(* market/snapshot.py and data/collector/market_collector.py for one       *)
(* symbol (the lists and rows of a symbol are apart from those of another).*)
(* The exchange's newest candle changes until the next one opens.  The     *)
(* collector fetches the newest Count candles every minute: each batch     *)
(* overlaps the one before, is appended whole to the list in memory, and   *)
(* is added whole to a table with a UNIQUE (symbol, interval, timestamp).  *)
(***************************************************************************)
EXTENDS Naturals, Sequences

CONSTANTS
  Closes,      \* closing prices
  Count,       \* candles of a batch (collect_candles, 200)
  MaxCandles,  \* bound on the exchange's candles
  MaxBatches,  \* bound on the batches
  DbFails      \* whether the database may fail, for other reasons than a duplicate

\* The bound has room for the first batch.
ASSUME MarketDataAssumption ==
  /\ Closes \subseteq Nat /\ Count \in Nat \ {0}
  /\ MaxCandles \in Nat /\ Count <= MaxCandles /\ MaxBatches \in Nat
  /\ DbFails \in BOOLEAN

VARIABLES
  market,     \* the exchange's closing prices, one per minute, oldest first, as
              \* they were for the last batch
  candles,    \* MarketSnapshot._candles, each a minute and a close
  saved,      \* rows of the candles table
  batches     \* batches so far

marketVars == <<market, candles, saved, batches>>

Candles == [at : 1 .. MaxCandles, close : Closes]

\* The exchange has traded the symbol for longer than a batch.
MarketInit ==
  /\ market \in [1 .. Count -> Closes]
  /\ candles = <<>> /\ saved = {} /\ batches = 0

\* The exchange's candles when the next batch is fetched: trades have changed
\* the newest one, and others may have opened.
Moved ==
  LET n == Len(market) IN
  UNION {{SubSeq(market, 1, n - 1) \o new : new \in [1 .. k + 1 -> Closes]} :
           k \in 0 .. MaxCandles - n}

\* Mutant: a batch of newest-first candles is appended as it came.
BatchUnreversed(closes) ==
  LET n == Len(closes) IN
  [i \in 1 .. Count |-> [at |-> n - i + 1, close |-> closes[n - i + 1]]]

\* The answer of the exchange, put in order.
Batch(closes) ==
  LET before == Len(closes) - Count IN
  [i \in 1 .. Count |-> [at |-> before + i, close |-> closes[before + i]]]

\* get_candles(symbol, limit)
GetCandles(limit) ==
  IF Len(candles) <= limit THEN candles
  ELSE SubSeq(candles, Len(candles) - limit + 1, Len(candles))

\* The rows after flush and commit: one row that is there already rolls all of
\* them back, and so does any other failure.
Inserted(batch) ==
  LET rows == {batch[i] : i \in DOMAIN batch} IN
  IF \E row \in rows, old \in saved : row.at = old.at THEN {saved}
  ELSE {saved \cup rows} \cup (IF DbFails THEN {saved} ELSE {})

\* collect_candles.  A request that fails leaves everything as it is.
CollectSymbol ==
  /\ batches < MaxBatches
  /\ batches' = batches + 1
  /\ market' \in Moved
  /\ candles' = candles \o Batch(market')
  /\ saved' \in Inserted(Batch(market'))

\* A new process starts with the table and an empty snapshot.
SnapshotLost ==
  /\ candles' = <<>>
  /\ UNCHANGED <<market, saved, batches>>

\* The exchange's candles as this process last fetched them.
Collected == IF candles = <<>> THEN <<>> ELSE market

MarketTypeOK ==
  /\ market \in Seq(Closes)
  /\ Len(market) \in Count .. MaxCandles
  /\ candles \in Seq(Candles) /\ saved \subseteq Candles
  /\ batches \in 0 .. MaxBatches

\* "collects the newest candles of all symbols and saves them to the DB and the
\* snapshot" (market_collector.py:41, with an upsert at :23 and duplicates ignored
\* at :75): while the database works, the table has a row for every minute that
\* the snapshot has.
CandlesSaved ==
  \A i \in DOMAIN candles : \E row \in saved : row.at = candles[i].at
===============================================================================
