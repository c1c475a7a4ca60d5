------------------------------ MODULE MCReviews ------------------------------
(* Reviews for TLC. Two runs next to each other are explored with one      *)
(* merged review, whose attempts are short; troubles, and the reviews that *)
(* Promise.all leaves behind, with one run.                                *)
EXTENDS Reviews, TLC

Scenario(before, merge, runs, troubles) ==
  [others |-> before, merge |-> merge, runs |-> runs, troubles |-> troubles]

MCScenarios ==
  {Scenario(before, FALSE, 1, 1) : before \in {1, 3, 5}}
    \cup {Scenario(1, TRUE, 1, 1), Scenario(3, TRUE, 1, 1), Scenario(1, TRUE, 2, 0)}
=============================================================================
