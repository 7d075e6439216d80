---------------------------- MODULE AtomicGroup ----------------------------
(***************************************************************************)
(* What a composite transaction promises its caller, whatever happens      *)
(* inside: a group of participants moves to the new version together, or   *)
(* every participant keeps the version it had.  Between Begin and the      *)
(* decision the caller is promised nothing, and recovery that is not       *)
(* finished is just a decision not yet taken.                              *)
(***************************************************************************)
EXTENDS Naturals

CONSTANTS Member, MaxAttempt

VARIABLES
    status,        \* "open", or how the last attempt ended
    participants,  \* members of the group of the open attempt
    version,       \* version[m]: the settled version of m
    attempt        \* number of attempts begun

groupVars == <<status, participants, version, attempt>>

Init ==
    /\ status = "RolledBack"
    /\ participants = {}
    /\ version = [m \in Member |-> 0]
    /\ attempt = 0

Begin ==
    /\ status # "open" /\ attempt < MaxAttempt
    /\ attempt' = attempt + 1
    /\ \E g \in SUBSET Member : participants' = g
    /\ status' = "open"
    /\ UNCHANGED version

(* The attempt is refused before any member is involved.                   *)
Refuse ==
    /\ status # "open" /\ attempt < MaxAttempt
    /\ attempt' = attempt + 1
    /\ status' = "RolledBack"
    /\ UNCHANGED <<participants, version>>

(* One step moves every participant, and nobody else.                      *)
Commit ==
    /\ status = "open"
    /\ status' = "Committed"
    /\ version' = [m \in Member |->
                      IF m \in participants THEN attempt ELSE version[m]]
    /\ UNCHANGED <<participants, attempt>>

RollBack ==
    /\ status = "open"
    /\ status' = "RolledBack"
    /\ UNCHANGED <<participants, version, attempt>>

Next == Begin \/ Refuse \/ Commit \/ RollBack

Spec == Init /\ [][Next]_groupVars
=============================================================================
