---------------------------- MODULE MCStageGraph ----------------------------
(* Dockerfiles of three stages for TLC.  The word "$x" stands for "x".        *)
EXTENDS StageGraph, TLC

Run == [op |-> "run", src |-> NoName]
OnBuild == [op |-> "onbuild", src |-> NoName]
Copy(src) == [op |-> "copy", src |-> src]

Stage(froms, names, bodies) == [from : froms, as : names, body : bodies]

First == Stage({"img", "onb", "scratch"}, {NoName, "x", "1"}, {<<>>, <<Run>>, <<Run, OnBuild>>})
Second == Stage({"img", "onb", "x", "$x"}, {NoName, "x", "y"}, {<<>>, <<Run>>, <<Copy("x")>>, <<OnBuild>>})
Third == Stage({"img", "onb", "x", "y", "$x", "1"}, {NoName, "x"},
               {<<>>, <<Run>>, <<Copy("x"), Run>>, <<Copy("1")>>, <<Copy("0")>>})

MCDockerfiles == {<<a, b, c>> : a \in First, b \in Second, c \in Third}
MCHeadingArgs == ("$x" :> "x")
MCIndexes == ("0" :> 1) @@ ("1" :> 2) @@ ("2" :> 3)
=============================================================================
