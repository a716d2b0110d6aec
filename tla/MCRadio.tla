------------------------------- MODULE MCRadio -------------------------------
(* The radio: the mesh protocol of three nodes, and the wireless service   *)
(* of one.  Each behaviour is one of the part it chooses; the other keeps  *)
(* its initial state.                                                      *)
EXTENDS MCMesh, Wireless

VARIABLE part

Parts == {"mesh", "service"}

Init == part \in Parts /\ MeshInit /\ WirelessInit

Next ==
  \/ part = "mesh" /\ MeshNext /\ UNCHANGED <<wlVars, part>>
  \/ part = "service" /\ WirelessNext /\ UNCHANGED <<meshVars, part>>

vars == <<meshVars, wlVars, part>>

Spec ==
  /\ Init /\ [][Next]_vars
  /\ WF_meshVars(part = "mesh" /\ \E n \in Nodes : Service(n))

(* Every variable of both has its type.                                    *)
RadioTypeOK == MeshTypeOK /\ WirelessTypeOK
=============================================================================
