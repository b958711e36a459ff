---------------------------- MODULE DockerLines ----------------------------
(***************************************************************************)
(* The instructions of a Dockerfile: what the parser accepts, and how a    *)
(* word with variables in it is expanded.                                  *)
(*                                                                         *)
(* A VALUE is the sequence of the parts of a string between its "=" signs: *)
(* <<>> is the empty string, <<"a">> is a and <<"a","b">> is a=b.  A WORD  *)
(* is the text of a value or of one variable.  A CELL is a word, or        *)
(* key=word.  A LINE is an instruction before it is parsed.                *)
(***************************************************************************)
EXTENDS Integers, Sequences, FiniteSets, FiniteSetsExt, Folds, Functions, TLC

(* op applied to base and the elements of s, from the first to the last.   *)
OneByOne(op(_, _), base, s) ==
    MapThenFoldSet(LAMBDA i, r : op(r, s[i]), base, LAMBDA i : i, Max, DOMAIN s)

Text(v) == [kind |-> "text", var |-> "", mod |-> "", lit |-> v]
Plain(k) == [kind |-> "plain", var |-> k, mod |-> "", lit |-> <<>>]
Brace(k, mod, v) == [kind |-> "brace", var |-> k, mod |-> mod, lit |-> v]
Open == [kind |-> "open", var |-> "", mod |-> "", lit |-> <<>>]

Arg(w) == [key |-> "", eq |-> FALSE, word |-> w]
Key(k) == [key |-> k, eq |-> FALSE, word |-> Text(<<>>)]
KeyWord(k, w) == [key |-> k, eq |-> TRUE, word |-> w]

NoLine == [cmd |-> ""]
(* form: "shell"; "json", a JSON array of strings; "mixed", a JSON array   *)
(* of other things; "broken", a text in brackets that is not JSON.  low:   *)
(* the instruction is written in lower case.                               *)
Line(cmd, args) == [cmd |-> cmd, low |-> FALSE, flags |-> <<>>,
                    form |-> "shell", args |-> args, sub |-> NoLine]
Json(cmd, args) == [Line(cmd, args) EXCEPT !.form = "json"]
Trigger(l) == [Line("ONBUILD", <<>>) EXCEPT !.sub = l]

-----------------------------------------------------------------------------
(***************************************************************************)
(* Expansion of words.  found is what the caller's resolveArg returns for  *)
(* the word, as the code gives it the whole text between the braces.       *)
(***************************************************************************)
Err == [ok |-> FALSE, val |-> <<>>]
Got(v) == [ok |-> TRUE, val |-> v]

noBrace(w, strict, found) ==
    LET v == IF w.var = "" THEN <<>> ELSE found
    IN  IF strict /\ v = <<>> THEN Err ELSE Got(v)

inBrace(w, strict, found) ==
    IF w.var = "" \/ (strict /\ found = <<>> /\ w.mod # ":+")
    THEN Err ELSE Got(found)

(* An open quote is found at the end of the text.                          *)
searchingEnd(w) == w.kind # "open"

ResolveParam(w, strict, found) ==
    CASE ~searchingEnd(w)  -> Err
      [] w.kind = "text"   -> Got(w.lit)
      [] w.kind = "plain"  -> noBrace(w, strict, found)
      [] w.kind = "brace"  -> inBrace(w, strict, found)

(* strings.Split(text, "=")[1], for the text key=v.                        *)
SecondPart(v) == IF v = <<>> THEN <<>> ELSE <<v[1]>>

-----------------------------------------------------------------------------
(***************************************************************************)
(* The parser's handlers.  pre is what is in the line's cells already: a   *)
(* trigger's own cells come after the cell of its instruction, and those   *)
(* of a health check after its type.                                       *)
(***************************************************************************)
Refused == [ok |-> FALSE, cells |-> <<>>, json |-> FALSE]
Cells(c, j) == [ok |-> TRUE, cells |-> c, json |-> j]

NoValue == ""
Invalid == "?"

cmdFlagRegs(cmd) ==
    CASE cmd = "ADD"         -> {"chown"}
      [] cmd = "COPY"        -> {"chown", "from"}
      [] cmd = "HEALTHCHECK" -> {"start-period", "interval", "timeout", "retries"}
      [] OTHER               -> {}

extractFlags(l, cmd) ==
    /\ \A i \in DOMAIN l.flags :
          /\ l.flags[i].value # NoValue
          /\ l.flags[i].name \in cmdFlagRegs(cmd)
          /\ l.flags[i].name = "chown" => l.flags[i].value # Invalid
          /\ l.flags[i].name = "retries" => l.flags[i].value \notin {Invalid, "0"}
    /\ \A i, j \in DOMAIN l.flags : l.flags[i].name = l.flags[j].name => i = j

(* Nothing is written after the instruction.                               *)
RawEmpty(l) == l.args = <<>> /\ l.flags = <<>> /\ l.form = "shell" /\ l.sub = NoLine

parseJSONArray(l) == SelectSeq(l.args, LAMBDA c : c.word # Text(<<>>))

parseCmdEntrypointRun(l, pre) ==
    IF RawEmpty(l) THEN Cells(pre, FALSE)
    ELSE IF l.flags # <<>> \/ l.form = "mixed" THEN Refused
    ELSE IF l.form = "json" THEN Cells(pre \o parseJSONArray(l), TRUE)
    ELSE Cells(Append(pre, l.args[1]), FALSE)

parseAddCopyVolume(l, cmd, pre) ==
    IF ~extractFlags(l, cmd) \/ l.form = "mixed" \/ (l.args = <<>> /\ l.form = "shell")
    THEN Refused
    ELSE IF l.form = "json" THEN Cells(pre \o parseJSONArray(l), TRUE)
    ELSE Cells(pre \o l.args, FALSE)

(* cmd is the instruction as it is written, for a trigger.                 *)
parseMaybeString(l, cmd, pre) ==
    LET whole == cmd \in {"MAINTAINER", "WORKDIR"}
        cells == IF whole THEN Append(pre, l.args[1]) ELSE pre \o l.args
    IN  IF \/ RawEmpty(l)
           \/ ~whole /\ l.flags # <<>>
           \/ cmd = "FROM" /\ Len(cells) \notin {1, 3}
           \/ cmd \in {"STOPSIGNAL", "USER"} /\ Len(cells) # 1
        THEN Refused ELSE Cells(cells, FALSE)

parseKeyOrKeyValue(l, pre) ==
    IF /\ Len(l.args) = 1
       /\ l.args[1].key # ""
       /\ l.args[1].eq => l.args[1].word # Text(<<>>)
    THEN Cells(pre \o l.args, FALSE) ELSE Refused

parseKeyValue(l, pre) ==
    IF l.args # <<>> /\ \A i \in DOMAIN l.args : l.args[i].eq
    THEN Cells(pre \o l.args, FALSE) ELSE Refused

parseShell(l, pre) ==
    IF l.form # "json" \/ pre \o parseJSONArray(l) = <<>>
    THEN Refused ELSE Cells(pre \o parseJSONArray(l), FALSE)

parseHealthCheck(l, pre) ==
    LET type == IF l.args = <<>> THEN "" ELSE l.args[1].key
        rest == [l EXCEPT !.flags = <<>>, !.args = Tail(@)]
    IN  IF \/ ~extractFlags(l, "HEALTHCHECK")
           \/ type \notin {"CMD", "NONE"}
           \/ type = "CMD" /\ RawEmpty(rest)
           \/ type = "NONE" /\ ~RawEmpty(rest)
        THEN Refused
        ELSE IF type = "NONE" THEN Cells(Append(pre, Key("NONE")), FALSE)
        ELSE parseCmdEntrypointRun(rest, Append(pre, Key("CMD")))

AtLeast(n, r) == IF Len(r.cells) < n THEN Refused ELSE r

preHandlers(l, cmd, pre) ==
    CASE l.cmd \in {"ADD", "COPY"} -> AtLeast(2, parseAddCopyVolume(l, l.cmd, pre))
      [] l.cmd = "VOLUME" -> AtLeast(1, parseAddCopyVolume(l, l.cmd, pre))
      [] l.cmd = "ARG" -> parseKeyOrKeyValue(l, pre)
      [] l.cmd \in {"ENV", "LABEL"} -> parseKeyValue(l, pre)
      [] l.cmd \in {"CMD", "ENTRYPOINT", "RUN"} -> parseCmdEntrypointRun(l, pre)
      [] l.cmd = "HEALTHCHECK" -> parseHealthCheck(l, pre)
      [] l.cmd = "SHELL" -> parseShell(l, pre)
      [] l.cmd \in {"EXPOSE", "FROM", "MAINTAINER", "STOPSIGNAL", "USER", "WORKDIR"} ->
            parseMaybeString(l, cmd, pre)
      [] OTHER -> Refused

(* Mutant: the handler of the trigger's instruction is not run.            *)
parseOnBuildUnchecked(l) ==
    IF l.sub.cmd \in {"ONBUILD", "FROM", "MAINTAINER"} THEN Refused
    ELSE Cells(<<Key(l.sub.cmd)>> \o l.sub.args, FALSE)

(* The handler of the trigger's instruction runs on this very line, whose  *)
(* first cell names the instruction.                                       *)
parseOnBuild(l) ==
    LET t == l.sub
        r == preHandlers(t, IF t.low THEN "" ELSE t.cmd, <<Key(t.cmd)>>)
    IN  IF t.cmd \in {"ONBUILD", "FROM", "MAINTAINER"} THEN Refused ELSE r

(* A line needs something after the instruction, which is put in capitals. *)
format(l) == ~RawEmpty(l)

ParseLine(l) ==
    IF ~format(l) THEN Refused
    ELSE IF l.cmd = "ONBUILD" THEN parseOnBuild(l)
    ELSE preHandlers(l, l.cmd, <<>>)

Parsed(ls) == [i \in DOMAIN ls |->
    [cmd |-> ls[i].cmd, raw |-> ls[i], cells |-> ParseLine(ls[i]).cells,
     json |-> ParseLine(ls[i]).json]]

(* onbuild: the lines are the triggers of an image.                        *)
Parses(ls, onbuild) ==
    /\ ls # <<>>
    /\ \A i \in DOMAIN ls : ParseLine(ls[i]).ok
    /\ onbuild => \A i \in DOMAIN ls : ls[i].cmd # "FROM"

(* Only ARG may come before the first FROM.                                *)
truncHeadingArgs(head) == \A i \in DOMAIN head : head[i].cmd = "ARG"
=============================================================================
