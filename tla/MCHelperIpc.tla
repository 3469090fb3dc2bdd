----------------------------- MODULE MCHelperIpc -----------------------------
(* Instances of HelperIpc for TLC.                                         *)
EXTENDS HelperIpc, TLC

(* Commands are alike; so are the runs of the helper.                      *)
Alike == Permutations(Commands) \cup Permutations(Launches)
===============================================================================
