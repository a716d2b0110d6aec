---------------------------- MODULE MCCanDriver -----------------------------
(* Two senders; the transmit queue holds one message, so it can be full.   *)
EXTENDS CanDriver

CONSTANTS t1, t2

TxOf == [t \in Tasks |-> IF t = t1 THEN 2 ELSE 1]
=============================================================================
