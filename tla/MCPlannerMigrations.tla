------------------------ MODULE MCPlannerMigrations ------------------------
(* PlannerMigrations for TLC: two releases, one whose second file was edited, *)
(* and one that lacks the second file.                                       *)
EXTENDS PlannerMigrations, TLC

Older == (1 :> "a") @@ (2 :> "b")
Newer == (1 :> "a") @@ (2 :> "b") @@ (3 :> "c")
Edited == (1 :> "a") @@ (2 :> "B") @@ (3 :> "c")
Gap == (1 :> "a") @@ (3 :> "c")

AllBuilds == {Older, Newer, Edited, Gap}

=============================================================================
