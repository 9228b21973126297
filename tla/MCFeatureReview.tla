-------------------------- MODULE MCFeatureReview ---------------------------
(***************************************************************************)
(* Interchangeable requests, and a start with one approved review for the  *)
(* runs that are about starting its workflow.                              *)
(***************************************************************************)
EXTENDS FeatureReview, TLC

CONSTANTS e1, e2, e3

Callers == Permutations({e1, e2, e3})

InitApproved ==
  /\ reviews = << [detection |-> 1, status |-> "APPROVED", version |-> 2,
                   ticket |-> 1, workflow |-> 0] >>
  /\ stories = <<1>> /\ workflows = <<>>
  /\ pc = [e \in Executors |-> "idle"]
  /\ work = [e \in Executors |-> NoWork]
  /\ told = {}
  /\ requests = 0 /\ faults = 0 /\ crashes = 0

SpecApproved == InitApproved /\ [][Next]_vars
=============================================================================
