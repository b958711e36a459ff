--------------------------- MODULE MCStageMeaning ---------------------------
EXTENDS StageMeaning

CONSTANTS b1, b2

V(s) == Text(<<s>>)
X == Plain("X")
Y == Plain("Y")

MCReserved == {"P"}
MCAbsolute == {<<"/w">>, <<"/d/">>}
MCSlashed == {<<"/d/">>}
MCSignals == {<<"9">>}
MCPorts == {<<"80">>, <<"81">>}
MCRegistries == <<"r">>
MCQualified == "r/q" :> <<"r", "q">>
MCTransported == "docker:t" :> <<"docker.io", "t">>

Image(uid, cfg, layers) == [uid |-> uid, layers |-> layers,
    cfg |-> [cfg EXCEPT !.history = Len(layers)]]
Old == <<[cmd |-> "RUN", words |-> <<>>, dir |-> <<>>, user |-> <<>>, env |-> NoMap]>>
BaseConfig == [ScratchConfig EXCEPT !.env = "Y" :> <<"e">>, !.dir = <<<<"/w">>>>,
    !.labels = "L" :> <<"old">>, !.user = <<"u">>, !.shell = <<V("zsh")>>,
    !.ports = {<<"81">>}, !.cmd = <<V("top")>>]
Base == Image("base", BaseConfig, <<Old>>)
Other == Image("other", ScratchConfig, <<Old, <<>>>>)
MCRemote == <<"r", "n">> :> Image("far", ScratchConfig, <<Old>>)
         @@ <<"r", "q">> :> Image("flat", [ScratchConfig EXCEPT !.arch = "that"], <<Old>>)
         @@ <<"docker.io", "t">> :> Image("t", ScratchConfig, <<Old>>)
MCImages0 == <<"", "base">> :> Base @@ <<"r", "q">> :> Other

File(head, from, body, args, tag) ==
    [head |-> head, from |-> from, body |-> body, args |-> args, tag |-> tag]
Alone(f, n) == [files |-> (b1 :> f @@ b2 :> NoFile), others |-> n]
Pair(f, g, n) == [files |-> (b1 :> f @@ b2 :> g), others |-> n]

(* Variables: all stages of three lines that set them, and a RUN and a     *)
(* COPY that see them.                                                     *)
AB == Text(<<"a", "b">>)
ArgX == Line("ARG", <<KeyWord("X", V("h"))>>)
BareX == Line("ARG", <<Key("X")>>)
GivenX == "X" :> <<"c", "d">>
Heads == {<<<<>>, NoMap>>, <<<<>>, GivenX>>, <<<<>>, "Y" :> <<"y">> @@ "P" :> <<"p">>>>,
    <<<<ArgX>>, NoMap>>, <<<<ArgX, Line("ARG", <<KeyWord("Y", X)>>)>>, "U" :> <<"u">>>>,
    <<<<ArgX, Line("ARG", <<KeyWord("X", AB)>>)>>, GivenX>>, <<<<BareX>>, GivenX>>}
SetLines == {BareX, Line("ARG", <<KeyWord("X", AB)>>),
    Line("ARG", <<KeyWord("X", Y)>>), Line("ARG", <<KeyWord("Y", X)>>),
    Line("ENV", <<KeyWord("X", AB)>>), Line("ENV", <<KeyWord("X", Y), KeyWord("Y", X)>>),
    Line("ENV", <<KeyWord("Y", Brace("X", ":-", <<"w">>))>>),
    Line("COPY", <<Arg(X), Arg(Plain("Y"))>>)}
RunLine == Line("RUN", <<Arg(V("r"))>>)
VariableFiles == {File(h[1], V("scratch"), <<k, l, m, RunLine>>, h[2], <<>>) :
    h \in Heads, k \in SetLines, l \in SetLines, m \in SetLines}

(* The configuration: two of these lines, or three of those that depend on *)
(* one another.                                                            *)
ConfigLines == {Line("CMD", <<Arg(V("c"))>>), Json("CMD", <<>>), Json("ENTRYPOINT", <<Arg(X), Arg(Text(<<>>))>>),
    Json("SHELL", <<Arg(V("bash"))>>), Line("ENV", <<KeyWord("X", V("/w"))>>),
    Line("WORKDIR", <<Arg(X)>>), Line("WORKDIR", <<Arg(V("rel"))>>), Line("USER", <<Arg(X)>>),
    Line("LABEL", <<KeyWord("L", AB), KeyWord("M", X), KeyWord("L", X)>>),
    Line("EXPOSE", <<Arg(V("80"))>>), Line("VOLUME", <<Arg(X), Arg(V("v"))>>), Line("VOLUME", <<Arg(X)>>),
    Line("STOPSIGNAL", <<Arg(V("9"))>>), Line("STOPSIGNAL", <<Arg(X)>>), Line("EXPOSE", <<Arg(Plain(""))>>),
    Line("MAINTAINER", <<Arg(V("m"))>>), Line("USER", <<Arg(Open)>>), RunLine,
    Line("ADD", <<Arg(X), Arg(V("s")), Arg(V("/d/"))>>), Line("ADD", <<Arg(X), Arg(V("s")), Arg(V("d"))>>),
    [Line("HEALTHCHECK", <<Key("CMD"), Arg(V("h"))>>) EXCEPT
        !.flags = <<[name |-> "interval", value |-> "1s"]>>],
    [Line("HEALTHCHECK", <<Key("CMD"), Arg(V("h"))>>) EXCEPT
        !.flags = <<[name |-> "interval", value |-> Invalid]>>],
    Line("HEALTHCHECK", <<Key("NONE")>>), Json("HEALTHCHECK", <<Key("CMD")>>)}
Dependent == {Line("CMD", <<Arg(V("c"))>>), Json("SHELL", <<Arg(V("bash"))>>),
    Line("ENV", <<KeyWord("X", V("/w"))>>), Line("WORKDIR", <<Arg(X)>>),
    Line("WORKDIR", <<Arg(V("rel"))>>), RunLine}
Bodies == (ConfigLines \X ConfigLines) \cup (Dependent \X Dependent \X Dependent)
ConfigFiles == {File(<<>>, V("base"), ls, NoMap, <<>>) : ls \in Bodies}

(* Triggers: the image of one build is the base of the other.              *)
Lower(l) == [l EXCEPT !.low = TRUE]
Triggers == ConfigLines \cup SetLines \cup {Lower(l) : l \in ConfigLines} \cup
   {Line("RUN", <<>>), Line("COPY", <<Arg(X)>>), Json("VOLUME", <<>>), Json("SHELL", <<>>),
    Lower(Line("USER", <<Arg(X), Arg(X)>>)), Line("USER", <<Arg(X), Arg(X)>>), Line("FROM", <<Arg(X)>>),
    Trigger(RunLine), Line("LABEL", <<Arg(X)>>), Line("ARG", <<KeyWord("X", Text(<<>>))>>),
    Line("SHELL", <<Arg(X)>>), [Line("CMD", <<Arg(X)>>) EXCEPT !.form = "mixed"],
    [Line("RUN", <<Arg(X)>>) EXCEPT !.form = "broken"], Line("HEALTHCHECK", <<Key("CMD")>>),
    Line("HEALTHCHECK", <<Key("sh")>>), Line("HEALTHCHECK", <<Key("NONE"), Arg(X)>>),
    Line("NONSENSE", <<Arg(X)>>)} \cup
   {[Line("COPY", <<Arg(X), Arg(Y)>>) EXCEPT !.flags = fs] : fs \in
      {<<[name |-> "chown", value |-> v]>> : v \in {"1", NoValue, Invalid}} \cup
      {<<[name |-> "chown", value |-> "1"], [name |-> "chown", value |-> "2"]>>,
       <<[name |-> "retries", value |-> "1"]>>}} \cup
   {[Line("HEALTHCHECK", <<Key("CMD"), Arg(X)>>) EXCEPT !.flags =
        <<[name |-> "retries", value |-> v]>>] : v \in {"0", "2"}}
Parent(l) == File(<<>>, V("scratch"), <<Trigger(l), RunLine>>, NoMap, <<"", "n">>)
Child(body) == File(<<ArgX>>, Brace("N", ":-", <<"n">>), body, "X" :> <<"b">>, <<"", "n">>)
TriggerPairs == {Pair(Parent(l), Child(<<Line("ENV", <<KeyWord("X", V("z"))>>), RunLine>>), 0) : l \in Triggers}
LineFiles == {File(<<>>, V("scratch"), <<l>>, NoMap, <<>>) : l \in {t \in Triggers : t.cmd # "FROM"}}

(* Bases that are found in all ways, while names move; FROM alone; the     *)
(* same image built twice.                                                 *)
Resolved(ws, body, tag) == {File(<<>>, V(w), body, NoMap, tag) : w \in ws}
Found == {"base", "n", "r/q", "docker:t"}
BasePairs ==
    {Pair(f, g, 1) : f \in Resolved(Found, <<RunLine>>, <<"", "n">>),
                     g \in Resolved({"base", "n"}, <<>>, <<"r", "q">>) \cup Resolved({"n"}, <<RunLine>>, <<"r", "n">>)}
    \cup {Pair(f, f, 0) : f \in Resolved({"base"}, <<RunLine>>, <<"", "n">>)}
FromFiles == {File(<<>>, w, <<RunLine>>, NoMap, <<>>) : w \in
    {V("none"), Plain("N"), Open, Brace("", "", <<>>), Brace("N", ":+", <<"n">>)}}
HeadFiles == {File(<<l>>, V("scratch"), <<RunLine>>, NoMap, <<>>) : l \in {RunLine, Line("ARG", <<Arg(X)>>), Line("ARG", <<KeyWord("X", Open)>>)}}

MCRequests == {Alone(f, 0) : f \in VariableFiles \cup ConfigFiles \cup LineFiles \cup HeadFiles \cup FromFiles}
              \cup TriggerPairs \cup BasePairs
=============================================================================
