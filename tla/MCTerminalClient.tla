-------------------------- MODULE MCTerminalClient --------------------------
(* Each screen with two symbols, and a server with room for three streams.   *)
EXTENDS TerminalClient
CONSTANTS BTC, ETH

MCScreens == {"prices", "watch", "alerts", "history"}
TableOnly == {"prices"}
MCSymbols == {BTC, ETH}
OneSymbol == {BTC}
AskedFor == [s \in Screens |-> IF s \in {"watch", "history"} THEN {BTC} ELSE Symbols]
=============================================================================
