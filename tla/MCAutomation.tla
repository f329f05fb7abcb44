---------------------------- MODULE MCAutomation ----------------------------
(* Automation on a small instance: two workflows that undo one another's     *)
(* change of the stage, one of which goes on with a second action and a      *)
(* delayed third; and, for the depth, one triggered by its own follow-up.    *)
EXTENDS Automation
Do(what)    == [does |-> what, delayed |-> FALSE]
Later(what) == [does |-> what, delayed |-> TRUE]
PingPong        == [f \in Flows |-> IF f = "f1" THEN [type |-> "stage_changed", stage |-> "a"]
                                               ELSE [type |-> "stage_changed"]]
PingPongActions == [f \in Flows |-> IF f = "f1" THEN <<Do("b"), Do("note"), Later("note")>>
                                               ELSE <<Do("a")>>]
OwnFollowUp     == [f \in Flows |-> [type |-> "followup_created"]]
FollowUpActions == [f \in Flows |-> <<Do("followup")>>]
=============================================================================
