----------------------------- MODULE StageGraph -----------------------------
(***************************************************************************)
(* The stages of a Dockerfile: parsed into pages, of which some are marked *)
(* to be committed; made into stage builders, whose FROM names an earlier  *)
(* stage or an image; built one after the other.  What a build yields is   *)
(* compared with what the Dockerfile says (WrittenImage).                  *)
(*                                                                         *)
(* A Dockerfile is a sequence of stages [from, as, body].  An image is     *)
(* what it was made of: the image it began with, what was done to it, and  *)
(* how many ONBUILD triggers it carries.  Instructions are "run" (anything *)
(* that changes the stage), "onbuild" and "copy", with --from=src.         *)
(***************************************************************************)
EXTENDS Naturals, Sequences

CONSTANTS Dockerfiles,  \* Dockerfiles to build
          HeadingArgs,  \* what a FROM word with a variable stands for: a function
          Indexes,      \* names that are numbers: a function to stage positions
          Triggered,    \* images of a registry that carry an ONBUILD trigger
          NoName

\* Every function on 1..n is a sequence.
IsSequence(s) == s \in Seq({s[k] : k \in DOMAIN s})

Expand(word) == IF word \in DOMAIN HeadingArgs THEN HeadingArgs[word] ELSE word

ASSUME DockerfilesAssumption ==
  \A f \in Dockerfiles :
    /\ IsSequence(f) /\ f # <<>>
    /\ \A i \in DOMAIN f :
         /\ \E n \in DOMAIN Indexes : Indexes[n] = i
         /\ Expand(f[i].from) # NoName
         /\ IsSequence(f[i].body)
         /\ \A k \in DOMAIN f[i].body :
              \/ f[i].body[k].op \in {"run", "onbuild"}
              \/ f[i].body[k].op = "copy" /\ f[i].body[k].src # NoName
ASSUME IndexesAssumption == \A n \in DOMAIN Indexes : Indexes[n] \in Nat \ {0}
ASSUME ScratchAssumption == "scratch" \notin Triggered

VARIABLES
  df,         \* the Dockerfile
  phase,      \* where Build is
  pages,      \* pages of the playbook: names, numbers of lines, NeedCommit
  aliases,    \* stageAliasMap
  stages,     \* stage builders
  pos,        \* the stage that is built
  todo,       \* commands of that stage that are left
  result      \* the image the build yields

vars == <<df, phase, pages, aliases, stages, pos, todo, result>>

None == <<>>   \* no image, or "" for its ID
Registry(name) == <<[from |-> name, log |-> <<>>, triggers |-> IF name \in Triggered THEN 1 ELSE 0]>>

Init ==
  /\ df \in Dockerfiles
  /\ phase = "parse"
  /\ pages = <<>> /\ stages = <<>>
  /\ aliases = <<>>
  /\ pos = 1 /\ todo = <<>>
  /\ result = None

-----------------------------------------------------------------------------
(* constructPages and newStageBuilders.                                    *)

Lines(stage) == 1 + Len(stage.body)

\* A stage without a name is called after its number.
PageName(i) == IF df[i].as = NoName THEN CHOOSE n \in DOMAIN Indexes : Indexes[n] = i ELSE df[i].as

\* The page that a FROM names is marked if it has more lines than FROM: the last page
\* of that name, and that is the new page itself, without lines yet, if it has it.
MarkFrom(ps, name, page) ==
  LET named == {j \in DOMAIN ps : ps[j].name = name}
      from == IF page.name = name THEN {} ELSE {j \in named : \A k \in named : k <= j} IN
  [j \in DOMAIN ps |-> [ps[j] EXCEPT !.needCommit = @ \/ (j \in from /\ ps[j].lines > 1)]]

\* A FROM and the lines after it; the word after FROM is not expanded.
ConstructPage ==
  LET i == Len(pages) + 1
      page == [name |-> PageName(i), lines |-> Lines(df[i]), needCommit |-> FALSE] IN
  /\ phase = "parse"
  /\ i <= Len(df)
  /\ pages' = Append(MarkFrom(pages, df[i].from, page), page)
  /\ UNCHANGED <<df, phase, aliases, stages, pos, todo, result>>

\* The last stage is committed, except if it has only FROM.
ConstructLast ==
  /\ phase = "parse"
  /\ Len(pages) = Len(df)
  /\ pages' = [pages EXCEPT ![Len(df)].needCommit = @ \/ pages[Len(df)].lines > 1]
  /\ phase' = "analyze"
  /\ UNCHANGED <<df, aliases, stages, pos, todo, result>>

Put(map, key, val) == [k \in DOMAIN map \cup {key} |-> IF k = key THEN val ELSE map[k]]

\* analyzeFrom: the expanded word is looked up among the aliases of earlier stages.
AnalyzeFrom ==
  LET i == Len(stages) + 1
      name == Expand(df[i].from) IN
  /\ phase = "analyze"
  /\ i <= Len(df)
  /\ stages' = Append(stages, [fromImage |-> name,
                               fromStage |-> IF name \in DOMAIN aliases THEN aliases[name] ELSE 0,
                               fs |-> None, imageID |-> None])
  /\ aliases' = IF df[i].as = NoName THEN aliases ELSE Put(aliases, df[i].as, i)
  /\ UNCHANGED <<df, phase, pages, pos, todo, result>>

Analyzed ==
  /\ phase = "analyze"
  /\ Len(stages) = Len(df)
  /\ phase' = "prepare"
  /\ UNCHANGED <<df, pages, aliases, stages, pos, todo, result>>

-----------------------------------------------------------------------------
(* Build: the loop over the stages.                                        *)

Scratch == <<[from |-> "scratch", log |-> <<>>, triggers |-> 0]>>

Event(stage, left, src) == [stage |-> stage, left |-> left, src |-> src]
Trigger == [op |-> "trigger", src |-> NoName]
Done(fs, event) == <<[fs[1] EXCEPT !.log = Append(@, event)]>>
Fresh(fs) == <<[fs[1] EXCEPT !.triggers = 0]>>

\* The image a stage begins with: what its base stage has as imageID, or the image its
\* word names; scratch has no ID.
FromImage(s) == IF s.fromStage # 0 THEN stages[s.fromStage].imageID
                ELSE IF s.fromImage = "scratch" THEN None ELSE Registry(s.fromImage)
IsScratch(s) == s.fromStage = 0 /\ s.fromImage = "scratch"

\* prepare: a container on the image; the triggers of the image go before the lines of
\* the stage, and are taken off its configuration.
Prepare ==
  LET s == stages[pos] fs == IF IsScratch(s) THEN Scratch ELSE FromImage(s) IN
  /\ phase = "prepare"
  /\ fs # None
  /\ stages' = [stages EXCEPT ![pos].fs = Fresh(fs)]
  /\ todo' = [k \in 1..fs[1].triggers |-> Trigger] \o df[pos].body
  /\ phase' = "exec"
  /\ UNCHANGED <<df, pages, aliases, pos, result>>

\* Mutant of CopyContext: the stage index is off by one.
CopyContextByOne(src) ==
  IF src \in DOMAIN aliases /\ aliases[src] < pos THEN stages[aliases[src]].fs
  ELSE IF src \in DOMAIN Indexes /\ Indexes[src] + 1 < pos THEN stages[Indexes[src] + 1].fs
  ELSE Registry(src)

\* getCopyContextDir: an alias of an earlier stage, an index of one, or an image.
CopyContext(src) ==
  IF src \in DOMAIN aliases /\ aliases[src] < pos THEN stages[aliases[src]].fs
  ELSE IF src \in DOMAIN Indexes /\ Indexes[src] < pos THEN stages[Indexes[src]].fs
  ELSE Registry(src)

\* cmdExecutor, for the next line.
Execute ==
  LET cmd == Head(todo) fs == stages[pos].fs IN
  /\ phase = "exec"
  /\ todo # <<>>
  /\ stages' = [stages EXCEPT ![pos].fs =
       CASE cmd.op = "trigger" -> Done(fs, Event(0, 0, None))
         [] cmd.op = "run" -> Done(fs, Event(pos, Len(todo), None))
         [] cmd.op = "copy" -> Done(fs, Event(pos, Len(todo), CopyContext(cmd.src)))
         [] cmd.op = "onbuild" -> <<[fs[1] EXCEPT !.triggers = @ + 1]>>]
  /\ todo' = Tail(todo)
  /\ UNCHANGED <<df, phase, pages, aliases, pos, result>>

\* The end of stageBuild: the stage is committed if its page is marked; if not, its
\* image is the one it began with.
FinishStage ==
  /\ phase = "exec"
  /\ todo = <<>>
  /\ stages' = [stages EXCEPT ![pos].imageID =
                  IF pages[pos].needCommit THEN stages[pos].fs ELSE FromImage(stages[pos])]
  /\ IF pos < Len(df) THEN pos' = pos + 1 /\ phase' = "prepare" /\ UNCHANGED result
     ELSE phase' = "export" /\ result' = stages'[pos].imageID /\ UNCHANGED pos
  /\ UNCHANGED <<df, pages, aliases, todo>>

Export ==
  /\ phase = "export"
  /\ phase' = "ok"
  /\ UNCHANGED <<df, pages, aliases, stages, pos, todo, result>>

\* An image is missing, an instruction, a commit or an export fails.
Fail ==
  /\ phase \in {"prepare", "exec", "export"}
  /\ phase' = "err"
  /\ result' = None
  /\ UNCHANGED <<df, pages, aliases, stages, pos, todo>>

Next ==
  \/ ConstructPage \/ ConstructLast \/ AnalyzeFrom \/ Analyzed
  \/ Prepare \/ Execute \/ FinishStage \/ Export \/ Fail

Spec == Init /\ [][Next]_vars

-----------------------------------------------------------------------------
(* What a Dockerfile says.                                                 *)

\* The last stage before stage i that has the given name, if any.
StageNamed(i, name) ==
  LET named == {j \in 1..(i - 1) : df[j].as = name} IN
  IF named = {} THEN 0 ELSE CHOOSE j \in named : \A k \in named : k <= j

BaseStage(i) == StageNamed(i, Expand(df[i].from))

\* Of the first m instructions of a body, the positions of those that change the stage.
Changes(body) ==
  LET among[m \in 0..Len(body)] ==
        IF m = 0 THEN <<>>
        ELSE IF body[m].op = "onbuild" THEN among[m - 1] ELSE Append(among[m - 1], m)
  IN  among

\* What stage i makes if the stages before it make w: everything its base has, then the
\* triggers of the base, then its own instructions in order.
BaseImage(w, i) ==
  IF BaseStage(i) # 0 THEN w[BaseStage(i)]
  ELSE IF Expand(df[i].from) = "scratch" THEN Scratch ELSE Registry(Expand(df[i].from))
Source(w, i, name) ==
  IF StageNamed(i, name) # 0 THEN w[StageNamed(i, name)]
  ELSE IF name \in DOMAIN Indexes /\ Indexes[name] < i THEN w[Indexes[name]]
  ELSE Registry(name)
Effect(w, i, k) ==
  Event(i, Len(df[i].body) - k + 1,
        IF df[i].body[k].op = "copy" THEN Source(w, i, df[i].body[k].src) ELSE None)
Triggers(n) == [k \in 1..n |-> Event(0, 0, None)]
Make(w, i) ==
  LET base == BaseImage(w, i)
      changes == Changes(df[i].body)[Len(df[i].body)] IN
  <<[from |-> base[1].from,
     log |-> base[1].log \o Triggers(base[1].triggers) \o [k \in DOMAIN changes |-> Effect(w, i, changes[k])],
     triggers |-> Len(df[i].body) - Len(changes)]>>

Written[i \in 1..Len(df)] == Make(Written, i)

-----------------------------------------------------------------------------
Last == Len(df)

\* A word of a Dockerfile that constructPages and the builder take for different stages:
\* a base stage with lines to commit that FROM names through a variable, or by a name
\* that a stage has taken over since, by AS or because it has none and that is its number.
Unmarked(i) ==
  LET j == BaseStage(i) IN
  /\ j # 0
  /\ df[j].body # <<>>
  /\ df[i].from # Expand(df[i].from) \/ \E k \in (j + 1)..i : PageName(k) = df[i].from

\* A COPY --from whose stage gives its name to the copying stage or to a later one.
Renamed(i) ==
  \E k \in DOMAIN df[i].body :
    LET c == df[i].body[k] IN
    c.op = "copy" /\ StageNamed(i, c.src) # 0 /\ \E l \in i..Last : df[l].as = c.src

\* A stage that has only FROM, on an image with triggers, or on such a stage.
LeavesTriggers(o, i) ==
  LET j == BaseStage(i) IN
  /\ df[i].body = <<>>
  /\ IF j = 0 THEN Expand(df[i].from) \in Triggered ELSE o[j] \/ Written[j][1].triggers > 0
OnlyTriggers[i \in 1..Last] == LeavesTriggers(OnlyTriggers, i)

\* A build yields what its Dockerfile says: the instructions of the last stage on top of
\* the stage or image it is built from, with what they copied, unless the Dockerfile
\* has one of the three forms above (constructPages, analyzeFrom, stageBuild).
BuildsAsWritten ==
  phase = "ok" =>
    \/ result = Written[Last]
    \/ result = None /\ Written[Last] = Scratch
    \/ OnlyTriggers[Last]
    \/ \E i \in 1..Last : Unmarked(i) \/ Renamed(i)
=============================================================================
