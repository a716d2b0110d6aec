------------------------ MODULE MCPeriodicDispatcher ------------------------
(* The periodic scheduler with a cascade of 1, 4, 3, 2 in the place of the *)
(* code's 1, 10, 10, 10: the whole schedule repeats every 24 milliseconds. *)
EXTENDS PeriodicDispatcher

SmallFrequency ==
  [l \in Levels |-> CASE l = prd_1000Hz -> 1 [] l = prd_100Hz -> 4
                      [] l = prd_10Hz -> 3 [] l = prd_1Hz -> 2]
=============================================================================
