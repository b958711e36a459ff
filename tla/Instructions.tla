---------------------------- MODULE Instructions ----------------------------
(***************************************************************************)
(* What the lines of one stage do: the values of ARG and ENV, which the    *)
(* stage builder works out for all lines before it runs the first, and the *)
(* executors, which change the configuration of the image and the top      *)
(* layer of the stage's container.                                         *)
(***************************************************************************)
EXTENDS DockerLines

CONSTANTS
    Reserved,       \* constant.ReservedArgs: build-args no ARG need declare
    Absolute,       \* the values that are absolute paths
    Slashed,        \* the values that end with a slash
    Signals,        \* the values that ValidateSignal accepts
    Ports           \* the values that PortSet accepts

(* A map from names to values; the values of f win.                        *)
NoMap == [k \in {} |-> <<>>]
With(m, k, v) == (k :> v) @@ m
Without(m, ks) == [k \in (DOMAIN m) \ ks |-> m[k]]
Value(m, k) == IF k \in DOMAIN m THEN m[k] ELSE <<>>

(* The lookups of a variable; they do not know the modifiers.              *)
FirstOf(ms, w) ==
    LET hits == {i \in DOMAIN ms : w.mod = "" /\ w.var \in DOMAIN ms[i]}
    IN  IF hits = {} THEN <<>> ELSE ms[Min(hits)][w.var]

DefaultPath == <<"bin">>
DefaultShell == <<Text(<<"sh">>), Text(<<"-c">>)>>

-----------------------------------------------------------------------------
(***************************************************************************)
(* Before the first FROM.  Each heading ARG consumes the build-arg of its  *)
(* name; the reserved ones of what is left over are args of every stage.   *)
(***************************************************************************)
HeadingArg(s, cell) ==
    LET w == cell.word
        \* the text is cut at "=" before the value is expanded
        v == ResolveParam([w EXCEPT !.lit = SecondPart(@)], FALSE, FirstOf(<<s.heading>>, w))
    IN  IF cell.key \in DOMAIN s.rest
        THEN [s EXCEPT !.heading = With(@, cell.key, s.rest[cell.key]),
                       !.rest = Without(@, {cell.key})]
        ELSE IF ~cell.eq THEN s
        ELSE [s EXCEPT !.heading = With(@, cell.key, v.val), !.ok = @ /\ v.ok]

usedHeadingArgs(head, buildArgs) ==
    LET s == OneByOne(LAMBDA a, l : HeadingArg(a, l.cells[1]),
                      [ok |-> TRUE, heading |-> NoMap, rest |-> buildArgs], head)
    IN  [ok |-> s.ok, heading |-> s.heading,
         reserved |-> Without(s.rest, (DOMAIN s.rest) \ Reserved)]

(* The only resolver that knows ${variable:-word} and ${variable:+word}.   *)
searchArg(heading, w) ==
    CASE w.mod = ":-" -> IF w.var \in DOMAIN heading THEN heading[w.var] ELSE w.lit
      [] w.mod = ":+" -> IF w.var \in DOMAIN heading THEN w.lit ELSE <<>>
      [] OTHER        -> Value(heading, w.var)

(* strict: a FROM whose variable has no value is refused, and so is a name *)
(* that is empty.                                                          *)
ResolveImageName(w, heading) ==
    LET r == ResolveParam(w, TRUE, searchArg(heading, w))
    IN  IF r.val = <<>> THEN Err ELSE r

-----------------------------------------------------------------------------
(***************************************************************************)
(* analyzeStage.  b has the build's args, heading args and reserved args;  *)
(* s has the args and envs of the stage so far, and the command builders,  *)
(* each with its own copy of both.                                         *)
(***************************************************************************)
analyzeArg(b, s, l) ==
    LET c == l.cells[1]
        r == ResolveParam(c.word, FALSE, FirstOf(<<b.buildArgs, s.envs, s.args>>, c.word))
        v == CASE c.key \in DOMAIN b.buildArgs -> b.buildArgs[c.key]
               [] c.key \notin DOMAIN b.buildArgs /\ c.eq -> SecondPart(r.val)
               [] OTHER -> IF Value(s.args, c.key) = <<>> THEN Value(b.heading, c.key)
                           ELSE s.args[c.key]
        sets == c.key \in DOMAIN b.buildArgs \/ c.eq \/ v # <<>>
    IN  [s EXCEPT !.ok = @ /\ r.ok,
                  !.args = IF sets THEN With(@, c.key, v) ELSE @]

EnvCell(s, c) ==
    LET r == ResolveParam(c.word, FALSE, FirstOf(<<s.envs, s.args>>, c.word))
    IN  [s EXCEPT !.ok = @ /\ r.ok, !.envs = With(@, c.key, r.val),
                  !.args = Without(@, {c.key})]

analyzeEnv(s, l) == OneByOne(EnvCell, s, l.cells)

newCmdBuilder(l, args, envs) == [line |-> l, args |-> args, envs |-> envs]

(* An ARG or ENV line is given the map it has just changed.                *)
analyzeLine(b, s, l) ==
    LET t == CASE l.cmd = "ARG" -> analyzeArg(b, s, l)
               [] l.cmd = "ENV" -> analyzeEnv(s, l)
               [] OTHER -> s
        cb == newCmdBuilder(l, IF l.cmd = "ARG" THEN t.args ELSE s.args,
                               IF l.cmd = "ENV" THEN t.envs ELSE s.envs)
    IN  [t EXCEPT !.cmds = Append(@, cb)]

(* Mutant: the command builders share the maps of the stage.               *)
analyzeStageShared(b, envs, ls) ==
    LET t == OneByOne(LAMBDA s, l : analyzeLine(b, s, l),
             [ok |-> TRUE, args |-> b.reserved, envs |-> envs, cmds |-> <<>>], ls)
    IN  [t EXCEPT !.cmds = [i \in DOMAIN @ |-> newCmdBuilder(@[i].line, t.args, t.envs)]]

analyzeStage(b, envs, ls) ==
    OneByOne(LAMBDA s, l : analyzeLine(b, s, l),
             [ok |-> TRUE, args |-> b.reserved, envs |-> envs, cmds |-> <<>>], ls)

-----------------------------------------------------------------------------
(***************************************************************************)
(* The executors.  x is the stage: the configuration, the shell of the     *)
(* shell forms, and what was done to the top layer.  vals are the cells    *)
(* of the line after expansion.                                            *)
(***************************************************************************)
ScratchConfig == [env |-> NoMap, cmd |-> <<>>, entrypoint |-> <<>>, shell |-> <<>>,
    labels |-> NoMap, volumes |-> {}, ports |-> {}, dir |-> <<>>, user |-> <<>>,
    stop |-> <<>>, health |-> <<>>, onbuild |-> <<>>, author |-> <<>>,
    arch |-> "this", history |-> 0]

allowWordExpand == {"ADD", "COPY", "EXPOSE", "LABEL", "STOPSIGNAL", "USER", "VOLUME", "WORKDIR"}

wordExpansion(cb) == [i \in DOMAIN cb.line.cells |->
    LET w == cb.line.cells[i].word
    IN  ResolveParam(w, FALSE, FirstOf(<<cb.envs, cb.args>>, w))]

Does(x) == [ok |-> TRUE, x |-> x]
Fails(x) == [ok |-> FALSE, x |-> x]
Sets(x, cfg) == Does([x EXCEPT !.cfg = cfg])

(* The JSON form is taken as it is; the shell form is given to the shell.  *)
CommandLine(x, l) ==
    LET words == [i \in DOMAIN l.cells |-> l.cells[i].word]
    IN  IF l.json THEN words ELSE Append(x.shell, words[1])

executeCmd(x, l) == Sets(x, [x.cfg EXCEPT !.cmd = CommandLine(x, l)])

executeEntrypoint(x, l) == Sets(x, [x.cfg EXCEPT !.entrypoint = CommandLine(x, l)])

executeShell(x, l) ==
    LET words == [i \in DOMAIN l.cells |-> l.cells[i].word]
    IN  Does([x EXCEPT !.shell = words, !.cfg.shell = words])

executeEnv(x, cb) == Sets(x, [x.cfg EXCEPT !.env = cb.envs])

executeOnbuild(x, l) == Sets(x, [x.cfg EXCEPT !.onbuild = Append(@, l.raw.sub)])

executeVolume(x, vals) ==
    LET vs == x.cfg.volumes \cup (Range(vals) \ {<<>>})
    IN  IF vs = {} THEN Fails(x) ELSE Sets(x, [x.cfg EXCEPT !.volumes = vs])

executeLabel(x, l, vals) ==
    Sets(x, [x.cfg EXCEPT !.labels =
        OneByOne(LAMBDA m, i : With(m, l.cells[i].key, SecondPart(vals[i])),
                 @, [i \in DOMAIN vals |-> i])])

executeWorkDir(x, vals) ==
    Sets(x, [x.cfg EXCEPT !.dir = IF vals[1] \in Absolute THEN <<vals[1]>>
                                  ELSE IF vals[1] = <<>> THEN @ ELSE Append(@, vals[1])])

executeMaintainer(x, l) == Sets(x, [x.cfg EXCEPT !.author = l.cells[1].word.lit])

executeStopSignal(x, vals) ==
    IF vals[1] \in Signals THEN Sets(x, [x.cfg EXCEPT !.stop = vals[1]]) ELSE Fails(x)

executeUser(x, vals) == Sets(x, [x.cfg EXCEPT !.user = vals[1]])

executeExpose(x, vals) ==
    IF Range(vals) \subseteq Ports
    THEN Sets(x, [x.cfg EXCEPT !.ports = @ \cup Range(vals)]) ELSE Fails(x)

FlagOf(l, name, default) ==
    LET is == {i \in DOMAIN l.raw.flags : l.raw.flags[i].name = name}
    IN  IF is = {} THEN default ELSE l.raw.flags[CHOOSE i \in is : TRUE].value

(* The check replaces the one of the base image as a whole; a flag that is *)
(* not given has its default, and a duration is read only now.             *)
executeHealthCheck(x, l) ==
    LET words == [i \in DOMAIN l.cells |-> l.cells[i].word]
        kept == <<FlagOf(l, "start-period", "0s"), FlagOf(l, "interval", "30s"),
                  FlagOf(l, "timeout", "30s"), FlagOf(l, "retries", "3")>>
        none == l.cells[1].key = "NONE"
    IN  IF ~none /\ (Len(words) < 2 \/ Invalid \in Range(kept)) THEN Fails(x)
        ELSE Sets(x, [x.cfg EXCEPT !.health =
                IF none THEN <<"NONE">>
                ELSE <<IF l.json THEN "CMD" ELSE "CMD-SHELL", Tail(words), kept>>])

(* RUN, ADD and COPY work in the container: on the top layer, in the       *)
(* directory and as the user of the configuration of that moment.          *)
OnLayer(x, what) == Does([x EXCEPT !.top = Append(@, what)])

executeRun(x, cb) ==
    OnLayer(x, [cmd |-> "RUN", words |-> CommandLine(x, cb.line), dir |-> x.cfg.dir,
                user |-> x.cfg.user, env |-> cb.envs @@ cb.args])

(* The directory the destination is relative to.                           *)
resolveCopyDest(x, dest) == IF dest \in Absolute THEN <<>> ELSE x.cfg.dir

executeAddAndCopy(x, l, vals) ==
    IF Len(vals) < 2 \/ (Len(vals) > 2 /\ vals[Len(vals)] \notin Slashed) THEN Fails(x)
    ELSE OnLayer(x, [cmd |-> l.cmd, words |-> vals, user |-> <<FlagOf(l, "chown", "")>>, env |-> NoMap,
                     dir |-> resolveCopyDest(x, vals[Len(vals)])])

cmdExecutor(x, cb) ==
    LET l == cb.line
        rs == wordExpansion(cb)
        vals == [i \in DOMAIN rs |-> rs[i].val]
    IN  IF l.cmd \in allowWordExpand /\ \E i \in DOMAIN rs : ~rs[i].ok THEN Fails(x)
        ELSE CASE l.cmd = "ARG" -> Does(x)
               [] l.cmd \in {"ADD", "COPY"} -> executeAddAndCopy(x, l, vals)
               [] l.cmd = "CMD" -> executeCmd(x, l)
               [] l.cmd = "ENTRYPOINT" -> executeEntrypoint(x, l)
               [] l.cmd = "ENV" -> executeEnv(x, cb)
               [] l.cmd = "EXPOSE" -> executeExpose(x, vals)
               [] l.cmd = "HEALTHCHECK" -> executeHealthCheck(x, l)
               [] l.cmd = "LABEL" -> executeLabel(x, l, vals)
               [] l.cmd = "MAINTAINER" -> executeMaintainer(x, l)
               [] l.cmd = "ONBUILD" -> executeOnbuild(x, l)
               [] l.cmd = "RUN" -> executeRun(x, cb)
               [] l.cmd = "SHELL" -> executeShell(x, l)
               [] l.cmd = "VOLUME" -> executeVolume(x, vals)
               [] l.cmd = "STOPSIGNAL" -> executeStopSignal(x, vals)
               [] l.cmd = "USER" -> executeUser(x, vals)
               [] l.cmd = "WORKDIR" -> executeWorkDir(x, vals)
=============================================================================
