--------------------------- MODULE MCBuildSession ---------------------------
(* Instances of BuildSession for TLC.                                       *)
EXTENDS BuildSession

CONSTANTS b1, b2, e1

OneBuild == {b1}
TwoBuilds == {b1, b2}
OneEntity == {e1}
SameEntity == [b \in Builds |-> e1]
=============================================================================
