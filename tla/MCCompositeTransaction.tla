----------------------- MODULE MCCompositeTransaction -----------------------
(* Instances for TLC: which backends there are, and the execution order.   *)
EXTENDS CompositeTransaction

CONSTANTS r1, r2, r3, b1, b2, b3, b4

(* Three resources in a chain of dependencies; b4 can replace b1, so a     *)
(* later call may be offered another instance of the first resource.       *)
ChainServes ==
    [b \in Backend |-> CASE b \in {b1, b4} -> r1 [] b = b2 -> r2 [] b = b3 -> r3]
ChainOrder == <<r1, r2, r3>>
=============================================================================
