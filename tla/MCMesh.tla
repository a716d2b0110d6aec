------------------------------- MODULE MCMesh -------------------------------
(* Three nodes in a line, n1 to n3 by way of n2.  CallsOf: n1 sends to n3, *)
(* with a known route or not, as a broadcast of n3 comes before or after   *)
(* it.  CallsInTurn: n1 sends to its neighbour n2, twice.                  *)
EXTENDS Mesh

CONSTANTS n1, n2, n3

LineOf == (n1 :> {n2}) @@ (n2 :> {n1, n3}) @@ (n3 :> {n2})

To(d, t, hops) == [dst |-> d, type |-> t, max |-> hops, full |-> TRUE]

CallsOf ==
  (n1 :> <<To(n3, "ack", 2)>>) @@ (n2 :> <<>>)
  @@ (n3 :> <<To(Broadcast, "nack", 1)>>)

CallsInTurn ==
  (n1 :> <<To(n2, "ack", 2), To(n2, "ack", 2)>>) @@ (n2 :> <<>>) @@ (n3 :> <<>>)
=============================================================================
