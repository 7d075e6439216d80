---------------------------- MODULE MCAdmission -----------------------------
(* One pool of permits or one budget of memory under two control loops, or *)
(* one pool under an admission controller of each kind and one loop.       *)
EXTENDS Admission

CONSTANTS a1, c1, c2

VARIABLE surface        \* which of the two this behaviour exercises

Settings(m, dry, loops, n) ==
    [mode |-> m, dryRun |-> dry, periodic |-> loops, limit |-> n]

Controllers == {a1, c1, c2}
Admitters == {a1}
Acting == Settings("Apply", FALSE, FALSE, 1)
Stopped == Settings("Apply", FALSE, TRUE, 0)
Repeated == Settings("Periodic", FALSE, FALSE, 2)
Configs ==
    [c \in Controllers |->
        CASE c = a1 -> {Acting} [] c = c1 -> {Acting, Repeated}
          [] OTHER -> {Acting, Stopped, Settings("OneShot", TRUE, FALSE, 1),
                       Settings("DryRun", FALSE, TRUE, 2),
                       Settings("PlanOnly", FALSE, FALSE, 1),
                       Settings("ObserveOnly", FALSE, TRUE, 1)}]

mcVars == <<admissionVars, surface>>

(* A resting controller has been called as often as it may be.             *)
MCInit ==
    \/ /\ surface = "admission" /\ AdmissionInit /\ size <= 2
       /\ config[c1] = Acting /\ config[c2] = Stopped
    \/ /\ surface = "loops" /\ Init /\ config[c1] = Repeated
       /\ Unasked /\ screen = [a \in Admitting |-> "plain"]
       /\ calls = [a \in Admitting |-> MaxCalls]

(* The second call of a caller repeats the first.                          *)
Repeats ==
    calls'[a1] = calls[a1] \/ calls[a1] = 0
      \/ report[a1].request = IF call'[a1] # None THEN call'[a1].request
                                                 ELSE report'[a1].request

(* A flag is read between cycles only, so raising it there is enough.      *)
(* Beside admission the second loop has ended before the first call,       *)
(* nobody cancels the other (the loops show that), and two permits are     *)
(* enough: no more are ever asked for.                                     *)
MCNext ==
    /\ AdmissionNext /\ UNCHANGED surface
    /\ surface = "admission" =>
          /\ UNCHANGED cancelled /\ Repeats
          /\ target'[c1] \in {None, 1, 2}
          /\ call'[a1] # None => call'[a1].target \in 1 .. 2
          /\ pc[c2] = "start" => pc'[c2] = "stopped"
    /\ surface = "loops" => \A c \in {c1, c2} :
          /\ target'[c] # 2
          /\ cancelled'[c] # cancelled[c] => c = c1 /\ pc[c] \in {"start", "between"}

MCSpec ==
    /\ MCInit /\ [][MCNext]_mcVars
    /\ \A a \in Admitting : WF_mcVars(Answering(a) /\ UNCHANGED surface)
    /\ \A c \in Controller \ Admitting : WF_mcVars(Looping(c) /\ UNCHANGED surface)

(* Memory around the boundary of the reserve and one or two trials, and    *)
(* beyond the largest exact integer.                                       *)
Requests ==
    LET base == [limit |-> 2, plan |-> TRUE, environment |-> TRUE,
                 capacity |-> "available", cpu |-> 2, bytes |-> 5, reserve |-> 1,
                 perTrial |-> 2, age |-> 1, maxAge |-> 1]
    IN  {base, [base EXCEPT !.plan = FALSE], [base EXCEPT !.environment = FALSE],
         [base EXCEPT !.capacity = "unknown"],
         [base EXCEPT !.capacity = "unavailable"], [base EXCEPT !.age = 2],
         [base EXCEPT !.cpu = 0], [base EXCEPT !.cpu = 1],
         [base EXCEPT !.bytes = 6], [base EXCEPT !.reserve = 5]}
          \cup {[base EXCEPT !.bytes = n] : n \in {1, 3, 4}}
=============================================================================
