--------------------------- MODULE MCKafkaConsumer ---------------------------
(* The consume loop on instances small enough for TLC.  The messages are    *)
(* model values; the producer writes each once, in any order.               *)
EXTENDS KafkaConsumer
CONSTANTS m1, m2

MCIds == {m1, m2}
MCPoison == {m2}
NoPoison == {}
=============================================================================
