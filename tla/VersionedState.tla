--------------------------- MODULE VersionedState ---------------------------
(***************************************************************************)
(* What a backend with fenced transactions promises to those who only see  *)
(* what is authoritative: one state, replaced in one step by one of a      *)
(* later generation.  Nothing is ever taken back, and no attempt that      *)
(* failed was ever visible.                                                *)
(***************************************************************************)
EXTENDS Naturals

CONSTANT State     \* records with a generation

VARIABLE value

Init == value \in State

Publish ==
    \E v \in State : v.generation > value.generation /\ value' = v

Spec == Init /\ [][Publish]_value
=============================================================================
