------------------------------ MODULE MCDrivers ------------------------------
(* The drivers of the CAN and I2C busses.  Each behaviour is one of the    *)
(* part it chooses; the other keeps its initial state, in which none of    *)
(* its fair actions is enabled.                                            *)
EXTENDS MCCanDriver, I2cMaster

VARIABLE part

Parts == {"can", "i2c"}

Init == part \in Parts /\ CanInit /\ I2cInit

Next ==
  \/ part = "can" /\ CanNext /\ UNCHANGED <<i2cVars, part>>
  \/ part = "i2c" /\ I2cNext /\ UNCHANGED <<canVars, part>>

vars == <<canVars, i2cVars, part>>

Spec == Init /\ [][Next]_vars /\ CanFairness /\ I2cFairness

(* Every variable of both drivers has its type.                            *)
DriversTypeOK == CanTypeOK /\ I2cTypeOK
=============================================================================
