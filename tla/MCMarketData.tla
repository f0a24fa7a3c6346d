----------------------------- MODULE MCMarketData -----------------------------
(* Two days of three candles each; the second has no candle in its middle.   *)
EXTENDS MarketData

TwoDays == {0, 1, 2, 3, 5}

SomeRequests == {<<0, 1>>, <<1, 1>>, <<2, 4>>, <<0, 5>>, <<4, 5>>, <<0, 2>>, <<2, 5>>}
=============================================================================
