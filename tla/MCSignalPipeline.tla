--------------------------- MODULE MCSignalPipeline ----------------------------
(***************************************************************************)
(* Small instances of SignalPipeline: closes of 1 and 2, batches of four   *)
(* candles, windows of two and three, and an aggregator of the MA          *)
(* crossover alone, of the ML strategy alone or the one of main.py.        *)
(***************************************************************************)
EXTENDS SignalPipeline

TwoCloses == {1, 2}
MainEngine == <<"ma", "rsi", "bollinger", "macd", "ml">>
MainEnsemble == {{"ma", "rsi", "bollinger"}}
SomeEnsembles == {{"ma"}, {"ml"}} \cup MainEnsemble
===============================================================================
