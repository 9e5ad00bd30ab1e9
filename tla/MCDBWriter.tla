----------------------------- MODULE MCDBWriter -----------------------------
(* The database writer with a batch of two.  p and r are prices of two keys, *)
(* q is one of p's symbol and second, x cannot be decoded.                   *)
EXTENDS DBWriter
CONSTANTS p, q, r, x

MCIds == {p, r, x}
MCIdsWithTwins == {p, q, r}
MCPoison == {x}
NoPoison == {}
MCRowKey == [i \in {p, q, r, x} |-> IF i = q THEN p ELSE i]
=============================================================================
