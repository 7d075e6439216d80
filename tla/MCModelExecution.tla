-------------------------- MODULE MCModelExecution --------------------------
(* Two loops over one model with two profiles, one behind a guard.         *)
EXTENDS ModelExecution

CONSTANTS runner, guard

Profiles == 0 .. 1
Loads == 10 .. 12
SelectFirst == [l \in Loads |-> CASE l = 10 -> 0 [] l = 11 -> 1 [] OTHER -> None]
(* Leaving the larger profile needs a rebuild.                             *)
LiveSwitches == (Profiles \X Profiles) \ {<<1, 0>>}

Run(mode, n) == [mode |-> mode, dryRun |-> FALSE, periodic |-> TRUE, limit |-> n]
MCConfig == [c \in Controller |->
    IF c = runner THEN {Run("Periodic", 2), Run("ObserveOnly", 1), Run("PlanOnly", 1)}
    ELSE {Run("Apply", 2)}]
=============================================================================
