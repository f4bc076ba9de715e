-------------------------- MODULE TargetSolutions --------------------------
(***************************************************************************)
(* What a call of generatePolynomialCoefficients promises for its targets: *)
(* in some order, each is given its own solution, once, after the weights  *)
(* that its samples need, if any, which are also made once; and all of     *)
(* them are solved in the end.  Only then may there be another call.       *)
(***************************************************************************)
EXTENDS Naturals

CONSTANT Targets

VARIABLES weighed, solved, calls

vars == <<weighed, solved, calls>>

Init ==
  /\ weighed = Targets
  /\ solved = Targets
  /\ calls = 0

Call ==
  /\ solved = Targets
  /\ weighed' \in {{}, Targets}   \* all, if the samples need no weights
  /\ solved' = {}
  /\ calls' = calls + 1

Weigh(t) ==
  /\ t \notin weighed
  /\ weighed' = weighed \cup {t}
  /\ UNCHANGED <<solved, calls>>

Solve(t) ==
  /\ t \in weighed \ solved
  /\ solved' = solved \cup {t}
  /\ UNCHANGED <<weighed, calls>>

Next == Call \/ \E t \in Targets : Weigh(t) \/ Solve(t)

Spec ==
  /\ Init /\ [][Next]_vars
  /\ \A t \in Targets : WF_vars(Weigh(t)) /\ WF_vars(Solve(t))
=============================================================================
