-------------------------------- MODULE MCInstall -------------------------------
(***************************************************************************)
(* One order and two moments for the migrations; two first installs for    *)
(* two companies, a seed given no code, one scenario and the demo.         *)
(***************************************************************************)
EXTENDS Install

MCCodeOf == [b \in Boots |-> IF b = "b1" THEN "main" ELSE "other"]
MCSeedTags == <<"s1">>
MCGoal == [t \in Tags |-> "paid"]
MCQty == [t \in Tags |-> 1]
MCDesired == [j \in Jobs |-> 1]
================================================================================
