--------------------------- MODULE MCAlertEngine ---------------------------
(* Two rules whose thresholds agree in two decimals, one of the other        *)
(* direction with the id of the first, and a default rule of another symbol. *)
EXTENDS AlertEngine
CONSTANTS BTC, ETH, d, a, b

MCSymbols == {BTC, ETH}
MCPrices == {90000, 100002, 100005}
Rule(id, symbol, direction, threshold) ==
    [id |-> id, symbol |-> symbol, direction |-> direction,
     threshold |-> threshold]
MCDefaultRules == <<Rule(d, ETH, "below", 100002)>>
MCPostedRules == {Rule(a, BTC, "above", 100001), Rule(b, BTC, "above", 100004),
                  Rule(a, BTC, "below", 90000)}
=============================================================================
