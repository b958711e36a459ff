----------------------------- MODULE MCExporter -----------------------------
(* Instances of Exporter for TLC: two lists, three clients.                   *)
EXTENDS Exporter, TLC

CONSTANTS c1, c2, c3, d1, d2, d3, l1

Export_(op, ex, images, dest) == [op |-> op, ex |-> ex, images |-> images, dest |-> dest, platform |-> Own, list |-> NoName]
List_(op, name, images, platform) ==
  [op |-> op, ex |-> "manifest", images |-> images, dest |-> NoName, platform |-> platform, list |-> name]
Push_(name, dest) == [op |-> "mpush", ex |-> "manifest", images |-> <<name>>, dest |-> dest, platform |-> Own, list |-> name]

MCLocal == ("a" :> d1) @@ ("b" :> d2)
MCRemote == ("c" :> d3)
MCLists == l1 :> [name |-> "L", man |-> (d1 :> Own), inst |-> (d1 :> "a")]
MCMoves == {<<"a", d2>>, <<"a", d1>>}

AnnotateB == List_("annotate", "L", <<"b">>, "arm")
AnnotateC == List_("annotate", "L", <<"c">>, Own)
AnnotateA == List_("annotate", "L", <<"a">>, "arm")
CreateM == List_("create", "M", <<"b", "a">>, Own)
Inspect == List_("inspect", "L", <<>>, Own)
PushL == Push_("L", "reg1")
PushM == Push_("M", "reg2")
Build_(ex) == Export_("build", ex, <<d2>>, "t")
Save == Export_("save", "docker-archive", <<d1, d2>>, "t")
PushA == Export_("push", "docker", <<"a">>, "reg1")
PushB == Export_("push", "docker", <<"b">>, "reg2")

\* Requests that run together.
Three(x, y, z) == (c1 :> x) @@ (c2 :> y) @@ (c3 :> z)
MCRequests ==
  {Three(AnnotateB, y, z) : y \in {AnnotateC, AnnotateA}, z \in {PushL, Inspect}} \cup
  {Three(CreateM, y, z) : y \in {List_("annotate", "M", <<"c">>, "arm"), PushL}, z \in {PushM, CreateM}} \cup
  {Three(PushL, PushL, AnnotateB), Three(Save, Build_("docker-archive"), PushA),
   Three(Build_("docker-daemon"), Build_("oci"), Export_("save", "oci-archive", <<d1>>, "t")),
   Three(List_("annotate", "L", <<"none">>, Own), Inspect, PushL), Three(Build_("isulad"), PushA, PushB), Three(Save, Build_("isulad"), PushL)}
=============================================================================
