---------------------------- MODULE StageMeaning ----------------------------
(***************************************************************************)
(* What the lines of a stage mean, read off the text: the value a variable *)
(* has at a line is that of the last line before it that sets it.  The     *)
(* properties of StageConfig compare this with what the builders, which    *)
(* pass maps from line to line and copy them for each command, have done.  *)
(***************************************************************************)
EXTENDS StageConfig, SequencesExt

(* The heading args, by the comment on usedHeadingArgs: a build-arg goes   *)
(* before a default.  An ARG for the same name further down takes the      *)
(* build-arg's value away again when it has a default.                     *)
RECURSIVE HeadingMeans(_, _, _)
HeadingMeans(f, k, p) ==
    LET cell(q) == f.head[q].args[1]
        sets == {q \in 1..p : cell(q).key = k}
        given == {q \in sets : cell(q).eq} \ (IF k \in DOMAIN f.args THEN {Min(sets)} ELSE {})
        w == cell(Max(given)).word
    IN  IF sets = {} THEN <<>>
        ELSE IF given = {} THEN Value(f.args, k)
        ELSE IF w.kind = "text" THEN SecondPart(w.lit)
        ELSE IF w.mod # "" THEN <<>>
        ELSE HeadingMeans(f, w.var, Max(given) - 1)

(* Every name that ARG and ENV set, in order, with the line it is on.      *)
Settings(ls) == FlattenSeq([i \in DOMAIN ls |->
    IF ls[i].cmd \in {"ARG", "ENV"}
    THEN [j \in DOMAIN ls[i].cells |-> [line |-> i, cmd |-> ls[i].cmd, cell |-> ls[i].cells[j]]]
    ELSE <<>>])

(* The text of a stage: its lines with the triggers of the base, what they *)
(* set, the file with the build-args, and the configuration of the base.   *)
Writing(b) ==
    LET base == GenerateFromImageSpec(conf[b])
        ls == Parsed(base.onbuild) \o Parsed(file[b].body)
    IN  [lines |-> ls, sets |-> Settings(ls), file |-> file[b], base |-> base,
         env |-> ImageEnv(base)]

(* The value of k after the first p settings, as <<value>>; <<>> if it has *)
(* none.  ENV goes before ARG, a build-arg before the default of ARG, and  *)
(* that before the heading ARG.                                            *)
RECURSIVE Means(_, _, _), Setting(_, _)
Means(t, k, p) ==
    LET envs == {q \in 1..p : t.sets[q].cmd = "ENV" /\ t.sets[q].cell.key = k}
        args == {q \in 1..p : t.sets[q].cmd = "ARG" /\ t.sets[q].cell.key = k}
        defaults == {q \in args : t.sets[q].cell.eq}
        heading == HeadingMeans(t.file, k, Len(t.file.head))
        Default == Setting(t, Max(defaults))
    IN  IF envs # {} THEN <<Setting(t, Max(envs))>>
        ELSE IF k \in DOMAIN t.env THEN <<t.env[k]>>
        ELSE IF args = {} /\ ~(k \in Reserved /\ \A q \in DOMAIN t.file.head : t.file.head[q].args[1].key # k)
             THEN <<>>
        ELSE IF k \in DOMAIN t.file.args THEN <<t.file.args[k]>>
        ELSE IF args = {} THEN <<>>
        ELSE IF defaults = {} THEN (IF heading = <<>> THEN <<>> ELSE <<heading>>)
        ELSE IF Default = <<>> /\ heading # <<>> /\ Max(args) > Max(defaults) THEN <<heading>>
        ELSE <<Default>>

OrEmpty(v) == IF v = <<>> THEN <<>> ELSE v[1]

(* ${variable:-word} and ${variable:+word} mean nothing outside FROM.  An  *)
(* ARG sees all build-args, and is cut at a second "=".                    *)
Setting(t, q) ==
    LET s == t.sets[q]
        w == s.cell.word
        v == CASE w.kind = "text" -> w.lit
               [] w.kind # "text" /\ (w.mod # "" \/ w.var = "") -> <<>>
               [] OTHER -> IF s.cmd = "ARG" /\ w.var \in DOMAIN t.file.args
                           THEN t.file.args[w.var] ELSE OrEmpty(Means(t, w.var, q - 1))
    IN  IF s.cmd = "ARG" THEN SecondPart(v) ELSE v

Before(t, i) == Cardinality({q \in DOMAIN t.sets : t.sets[q].line < i})

(* A cell of line i, expanded.                                             *)
Reads(t, i, c) ==
    CASE c.word.kind = "text" -> c.word.lit
      [] c.word.kind # "text" /\ (c.word.mod # "" \/ c.word.var = "") -> <<>>
      [] OTHER -> OrEmpty(Means(t, c.word.var, Before(t, i)))

ReadsAll(t, i) == [j \in DOMAIN t.lines[i].cells |-> Reads(t, i, t.lines[i].cells[j])]

LinesOf(t, cs) == {i \in DOMAIN t.lines : t.lines[i].cmd \in cs}
InOrder(S) == SetToSortSeq(S, LAMBDA a, b : a < b)
Words(t, i) == [j \in DOMAIN t.lines[i].cells |-> t.lines[i].cells[j].word]

(* What the last of the lines with this command makes of default.          *)
LastOf(t, cs, i, Of(_), default) ==
    LET is == {j \in LinesOf(t, cs) : j < i} IN IF is = {} THEN default ELSE Of(Max(is))

ShellAt(t, i) == LastOf(t, {"SHELL"}, i, LAMBDA j : Words(t, j), DefaultShell)

Command(t, i) ==
    IF t.lines[i].json THEN Words(t, i) ELSE Append(ShellAt(t, i), Words(t, i)[1])

DirAt(t, i) ==
    LET dirs == {j \in LinesOf(t, {"WORKDIR"}) : j < i}
        abs == {j \in dirs : ReadsAll(t, j)[1] \in Absolute}
        rel == {j \in dirs \ abs : ReadsAll(t, j)[1] # <<>> /\ \A k \in abs : k < j}
    IN  (IF abs = {} THEN t.base.dir ELSE <<ReadsAll(t, Max(abs))[1]>>)
        \o [n \in 1..Cardinality(rel) |-> ReadsAll(t, InOrder(rel)[n])[1]]

UserAt(t, i) == LastOf(t, {"USER"}, i, LAMBDA j : ReadsAll(t, j)[1], t.base.user)

EnvAt(t, i) ==
    LET ks == {t.sets[q].cell.key : q \in DOMAIN t.sets} \cup DOMAIN t.env \cup Reserved
    IN  [k \in {x \in ks : Means(t, x, Before(t, i)) # <<>>} |-> Means(t, k, Before(t, i))[1]]

(* What line i, a RUN, ADD or COPY, does to the container.                 *)
Effect(t, i) ==
    IF t.lines[i].cmd = "RUN"
    THEN [cmd |-> "RUN", words |-> Command(t, i), dir |-> DirAt(t, i),
          user |-> UserAt(t, i), env |-> EnvAt(t, i)]
    ELSE LET vs == ReadsAll(t, i)
         IN  [cmd |-> t.lines[i].cmd, words |-> vs,
              user |-> <<FlagOf(t.lines[i], "chown", "")>>, env |-> NoMap,
              dir |-> IF vs[Len(vs)] \in Absolute THEN <<>> ELSE DirAt(t, i)]

-----------------------------------------------------------------------------
(* The top layer of an image that was committed holds the work of its RUN, *)
(* ADD and COPY lines, and of those its base image left as triggers, each  *)
(* done once and in order, with the variables, the directory, the user and *)
(* the shell that the text gives it at that line: not with a value that a  *)
(* later ENV, ARG, WORKDIR, USER or SHELL sets, although analyzeStage goes *)
(* through all lines before the first is executed.                         *)
LayerAsWritten ==
    \A b \in Builds : Committed(b) =>
        LET t == Writing(b)
            is == InOrder(LinesOf(t, {"RUN", "ADD", "COPY"}))
        IN  stage[b].top = [n \in DOMAIN is |-> Effect(t, is[n])]

(* The configuration of an image that was committed is the one its text    *)
(* gives it: the commands with the shell in force at their line, the       *)
(* environment with all ENV lines, the last label of each name (cut at a   *)
(* second "="), ports and volumes on top of those of the base, and only    *)
(* its own triggers, those of the base having been executed.               *)
ConfigAsWritten ==
    \A b \in Builds : Committed(b) =>
        LET t == Writing(b)
            cfg == built[b].cfg
            n == Len(t.lines) + 1
            All(c) == UNION {ToSet(ReadsAll(t, i)) : i \in LinesOf(t, {c})}
            labels == UNION {{i} \X DOMAIN t.lines[i].cells : i \in LinesOf(t, {"LABEL"})}
            Name(p) == t.lines[p[1]].cells[p[2]].key
            Later(p, q) == p[1] > q[1] \/ (p[1] = q[1] /\ p[2] > q[2])
            subs == InOrder(LinesOf(t, {"ONBUILD"}))
        IN  /\ cfg.cmd = LastOf(t, {"CMD"}, n, LAMBDA i : Command(t, i), t.base.cmd)
            /\ cfg.entrypoint = LastOf(t, {"ENTRYPOINT"}, n, LAMBDA i : Command(t, i), t.base.entrypoint)
            /\ cfg.shell = LastOf(t, {"SHELL"}, n, LAMBDA i : Words(t, i), t.base.shell)
            /\ cfg.env = IF LinesOf(t, {"ENV"}) = {} THEN t.base.env
                         ELSE [k \in DOMAIN t.env \cup {t.sets[q].cell.key :
                                       q \in {r \in DOMAIN t.sets : t.sets[r].cmd = "ENV"}} |->
                                 Means(t, k, Len(t.sets))[1]]
            /\ cfg.dir = DirAt(t, n)
            /\ cfg.user = UserAt(t, n)
            /\ cfg.stop = LastOf(t, {"STOPSIGNAL"}, n, LAMBDA i : ReadsAll(t, i)[1], t.base.stop)
            /\ cfg.author = LastOf(t, {"MAINTAINER"}, n, LAMBDA i : Words(t, i)[1].lit, t.base.author)
            /\ cfg.health = LastOf(t, {"HEALTHCHECK"}, n,
                   LAMBDA i : executeHealthCheck(stage[b], t.lines[i]).x.cfg.health, t.base.health)
            /\ cfg.ports = t.base.ports \cup All("EXPOSE")
            /\ cfg.volumes = t.base.volumes \cup (All("VOLUME") \ {<<>>})
            /\ cfg.onbuild = [i \in DOMAIN subs |-> t.lines[subs[i]].raw.sub]
            /\ DOMAIN cfg.labels = DOMAIN t.base.labels \cup {Name(p) : p \in labels}
            /\ \A k \in DOMAIN cfg.labels :
                  LET ps == {p \in labels : Name(p) = k}
                      last == CHOOSE p \in ps : \A q \in ps \ {p} : Later(p, q)
                  IN  cfg.labels[k] = IF ps = {} THEN t.base.labels[k]
                                      ELSE SecondPart(ReadsAll(t, last[1])[last[2]])

(* Triggers that the parser takes on an ONBUILD line and refuses on a line *)
(* of their own, as the cell with the instruction is counted as one of its *)
(* arguments, an empty RUN, CMD or ENTRYPOINT is not refused, and in lower *)
(* case the arguments are not counted.                                     *)
TakenOnlyAsTrigger(l) ==
    \/ RawEmpty(l)
    \/ l.cmd \in {"ADD", "COPY"} /\ Len(ParseLine(Trigger(l)).cells) = 2
    \/ l.cmd \in {"VOLUME", "SHELL"} /\ parseJSONArray(l) = <<>>
    \/ l.cmd \in {"USER", "STOPSIGNAL"} /\ l.low /\ Len(l.args) # 1

(* What parseOnBuild lets an image carry, a build from that image can      *)
(* parse, but for the triggers above; and a file is refused only for a     *)
(* line that is wrong by itself, but for ONBUILD USER and ONBUILD          *)
(* STOPSIGNAL, which parseOnBuild always refuses.                          *)
TriggersUsable ==
    /\ \A img \in images : \A l \in ToSet(img.cfg.onbuild) :
          ParseLine(l).ok \/ TakenOnlyAsTrigger(l)
    /\ \A b \in Builds : pc[b] # "start" /\ file[b] # NoFile /\ ~accepted[b] =>
          \/ \E l \in ToSet(file[b].head) : l.cmd # "ARG" \/ ~ParseLine(l).ok
          \/ \E l \in ToSet(file[b].body) :
                IF l.cmd # "ONBUILD" THEN ~ParseLine(l).ok
                ELSE \/ l.sub.cmd \in {"", "ONBUILD", "FROM", "MAINTAINER", "USER", "STOPSIGNAL"}
                     \/ ~ParseLine(l.sub).ok
=============================================================================
