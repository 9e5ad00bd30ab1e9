--------------------------- MODULE MCStreamingAPI ---------------------------
(* At one address a stream of prices or of alerts, or readers of /prices.    *)
EXTENDS StreamingAPI
CONSTANTS wide, bell, get1, get2, BTC, home

MCPriceClients == {wide}
MCAlertClients == {bell}
MCReaders == {get1, get2}
MCScenarios ==
    {<<MCPriceClients, TRUE>>, <<MCReaders, TRUE>>,
     <<{get1}, FALSE>>, <<MCAlertClients, FALSE>>}
MCRequests == {wide, bell, get1, get2}
MCAddresses == {home}
MCAddressOf == [r \in MCRequests |-> home]
MCBuckets == 1..3
MCSymbols == {BTC}
MCSubscribed == [c \in MCPriceClients |-> {}]
MCMessages == [prices |-> 2, alerts |-> 1]
=============================================================================
