------------------------------- MODULE MCWpaAuth -------------------------------
(* Budgets of events for the runs of WpaAuth.                              *)
EXTENDS WpaAuth

CONSTANTS MaxAssoc, MaxLeave, MaxGtk, MaxPtk, MaxLose, MaxDrop

MCBudget == [e \in Events |->
  CASE e = "assoc" -> MaxAssoc [] e = "leave" -> MaxLeave [] e = "gtk" -> MaxGtk
    [] e = "ptk" -> MaxPtk [] e = "lose" -> MaxLose [] e = "drop" -> MaxDrop]
=============================================================================
