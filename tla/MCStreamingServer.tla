------------------------- MODULE MCStreamingServer -------------------------
(* A client of all symbols, one of a single symbol, a client of the alerts.  *)
EXTENDS StreamingServer
CONSTANTS wide, narrow, bell, BTC, ETH

MCPriceClients == {wide, narrow}
MCAlertClients == {bell}
MCSymbols == {BTC, ETH}
MCMessages == [prices |-> 2, alerts |-> 1]
SubscribedOf == [c \in PriceClients |-> IF c = narrow THEN {BTC} ELSE {}]
=============================================================================
