----------------------------- MODULE MCStorage ------------------------------
(* The file logger and the volume under it.  Each behaviour is one of the  *)
(* part it chooses; the other keeps its initial state, in which none of    *)
(* its fair actions is enabled.                                            *)
EXTENDS MCFileLogger, MCFatVolume

VARIABLE part

Parts == {"logger", "volume"}

(* Which of the two buffers is given out first does not matter.            *)
Init ==
  /\ part \in Parts /\ FlInit /\ FatInit
  /\ Head(empty) = CHOOSE b \in Buffers : TRUE

Next ==
  \/ part = "logger" /\ FlNext /\ UNCHANGED <<fatVars, part>>
  \/ part = "volume" /\ FatNext /\ UNCHANGED <<flVars, part>>

vars == <<flVars, fatVars, part>>

Spec == Init /\ [][Next]_vars /\ FlFairness

(* Every variable of the running part has its type.                        *)
StorageTypeOK ==
  /\ part = "logger" => FlTypeOK
  /\ part = "volume" => FatTypeOK
=============================================================================
