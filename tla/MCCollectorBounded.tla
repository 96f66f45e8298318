------------------------- MODULE MCCollectorBounded -------------------------
(* Instances of Collector with the interesting moments only: all threads   *)
(* are attached from the start, and at most MaxOps operations are begun,   *)
(* while a cycle is under way.                                             *)
EXTENDS MCCollector

CONSTANT MaxOps
VARIABLE ops

BoundedInit == Init /\ threads = Thread /\ ops = 0

BoundedNext ==
    /\ Running
    /\ \/ /\ \E t \in Thread : Begin(t)
          /\ gcPc # "idle" /\ ops < MaxOps /\ ops' = ops + 1
       \/ /\ (\E t \in Thread : Continue(t)) \/ GcStep \/ Fail
          /\ UNCHANGED ops

BoundedSpec == BoundedInit /\ [][BoundedNext]_<<vars, ops>>
=============================================================================
