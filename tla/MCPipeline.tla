----------------------------- MODULE MCPipeline -----------------------------
(* One symbol; CoinGecko answers a price, or mentions the symbol without a   *)
(* price.  0.5% of the built-in price is 1.                                  *)
EXTENDS Pipeline
CONSTANTS x, BTC

MCBasePrices == [s \in {BTC} |-> 200]
MCAnswers == {[s \in {BTC} |-> 400], [s \in {BTC} |-> 0]}
NoAnswers == {}
MCWalks == {1}
MCPricesBy == [n \in 0..MaxPolls |->
    CASE n = 0 -> {} [] n = 1 -> {0, 200, 201, 400}
      [] n = 2 -> {0, 200, 201, 202, 400, 401}
      [] OTHER -> {0, 200, 201, 202, 203, 400, 401, 402}]
MCEvents ==
    [symbol : {BTC}, price : MCPricesBy[MaxPolls], volume : {1},
     exchange : {"coingecko", "simulated"}, poll : 1..MaxPolls, since : 1..MaxPolls]
MCIds == MCEvents \cup {x}
MCPoison == {x}
MCEvent == [e \in MCEvents |-> e]
=============================================================================
