---------------------------- MODULE StageConfig ----------------------------
(***************************************************************************)
(* Builds of one stage each, side by side on one store: the Dockerfile is  *)
(* parsed and its FROM expanded, the base image is found (ImageResolve),   *)
(* its triggers and the lines of the stage are analysed and executed       *)
(* (Instructions), and the container is committed (LayerCommit) and named. *)
(* A build can start from the image another one is building.  Stages that  *)
(* build on one another are the subject of StageGraph.                     *)
(***************************************************************************)
EXTENDS LayerCommit

CONSTANTS
    NoFile,         \* model value: the build is not asked for
    Requests        \* the files of the builds, and how many other requests there are

(* A file: the lines before FROM, the word of FROM, the lines after it,    *)
(* the build-args, and the name for the image (<<>> for none).             *)
VARIABLES
    file,           \* per build: the file, with the build's options
    opts,           \* per build: its build-args, heading args, reserved args
    accepted,       \* per build: the parser took the file
    cmds            \* per build: the command builders left to execute

stageVars == <<file, opts, accepted, cmds>>
vars == <<names, images, pc, word, cands, found, via, conf, cont, ok, moved, touched,
          others, stage, src, built, file, opts, accepted, cmds>>

Each(v) == [b \in Builds |-> v]

Init ==
    /\ \E r \in Requests : file = r.files /\ others = r.others
    /\ names = Images0
    /\ images = {Images0[n] : n \in DOMAIN Images0}
    /\ pc = [b \in Builds |-> IF file[b] = NoFile THEN "done" ELSE "start"]
    /\ ok = [b \in Builds |-> file[b] # NoFile]
    /\ word = Each("") /\ cands = Each(<<>>)
    /\ found = Each(NoImage) /\ via = Each(<<>>) /\ conf = Each(NoImage)
    /\ cont = Each(NoContainer) /\ moved = Each(FALSE)
    /\ touched = {}
    /\ stage = Each([cfg |-> ScratchConfig, shell |-> DefaultShell, top |-> <<>>])
    /\ src = Each([layers |-> <<>>, blobs |-> {}]) /\ built = Each(NoImage)
    /\ opts = Each([buildArgs |-> NoMap, heading |-> NoMap, reserved |-> NoMap])
    /\ accepted = Each(FALSE) /\ cmds = Each(<<>>)

-----------------------------------------------------------------------------
ParsesFile(f) ==
    /\ truncHeadingArgs(f.head)
    /\ f.head # <<>> => Parses(f.head, FALSE)
    /\ f.body # <<>> => Parses(f.body, FALSE)

(* The base image is looked for unless the stage has none.                 *)
prepareImage(w) == IF w = "scratch" THEN "layer" ELSE "name"

(* parseFiles and newStageBuilders: nothing outside the builder is read.   *)
newStageBuilders(b) ==
    LET f == file[b]
        h == usedHeadingArgs(Parsed(f.head), f.args)
        from == ResolveImageName(f.from, h.heading)
    IN  /\ pc[b] = "start"
        /\ accepted' = [accepted EXCEPT ![b] = ParsesFile(f)]
        /\ IF ParsesFile(f) /\ h.ok /\ from.ok
           THEN /\ opts' = [opts EXCEPT ![b] =
                     [buildArgs |-> f.args, heading |-> h.heading, reserved |-> h.reserved]]
                /\ word' = [word EXCEPT ![b] = from.val[1]]
                /\ pc' = [pc EXCEPT ![b] = prepareImage(from.val[1])]
                /\ UNCHANGED ok
           ELSE Return(b) /\ UNCHANGED <<opts, word>>
        /\ UNCHANGED <<names, images, cands, found, via, conf, cont, moved, touched,
                       others, stage, src, built, file, cmds>>

-----------------------------------------------------------------------------
createImageV2Image(img) == img.cfg

GenerateFromImageSpec(img) ==
    IF img = NoImage THEN ScratchConfig ELSE createImageV2Image(img)

(* Cross-architecture builds are refused.                                  *)
UpdateV2Image(cfg) == cfg.arch = "this"

(* The environment of the image, with a PATH.                              *)
ImageEnv(cfg) == cfg.env @@ ("PATH" :> DefaultPath)

(* Mutant: the triggers stay triggers.                                     *)
updateStageBuilderKeeps(cfg, body) ==
    [ok |-> cfg.onbuild # <<>> => Parses(cfg.onbuild, TRUE),
     cfg |-> cfg,
     lines |-> Parsed(cfg.onbuild) \o Parsed(body)]

(* The triggers of the base image are parsed and put before the lines of   *)
(* the stage, and are no longer triggers of the image being built.         *)
updateStageBuilder(cfg, body) ==
    [ok |-> cfg.onbuild # <<>> => Parses(cfg.onbuild, TRUE),
     cfg |-> [cfg EXCEPT !.onbuild = <<>>],
     lines |-> Parsed(cfg.onbuild) \o Parsed(body)]

prepare(b) ==
    LET cfg == GenerateFromImageSpec(conf[b])
        u == updateStageBuilder(cfg, file[b].body)
        a == analyzeStage(opts[b], ImageEnv(cfg), u.lines)
    IN  /\ pc[b] = "spec"
        /\ IF UpdateV2Image(cfg) /\ u.ok /\ a.ok
           THEN /\ stage' = [stage EXCEPT ![b] =
                     [cfg |-> u.cfg, shell |-> DefaultShell, top |-> <<>>]]
                /\ cmds' = [cmds EXCEPT ![b] = a.cmds]
                /\ pc' = [pc EXCEPT ![b] = "exec"]
                /\ UNCHANGED ok
           ELSE Return(b) /\ UNCHANGED <<stage, cmds>>
        /\ UNCHANGED <<names, images, word, cands, found, via, conf, cont, moved, touched,
                       others, src, built, file, opts, accepted>>

(* The next command of the stage.  RUN, ADD, COPY and WORKDIR work on      *)
(* files and can fail.                                                     *)
stageBuild(b) ==
    LET r == cmdExecutor(stage[b], Head(cmds[b]))
    IN  /\ pc[b] = "exec"
        /\ cmds[b] # <<>>
        /\ cmds' = [cmds EXCEPT ![b] = Tail(@)]
        /\ \/ /\ r.ok
              /\ stage' = [stage EXCEPT ![b] = r.x]
              /\ UNCHANGED <<pc, ok>>
           \/ /\ ~r.ok \/ Head(cmds[b]).line.cmd \in {"RUN", "ADD", "COPY", "WORKDIR"}
              /\ Return(b)
              /\ UNCHANGED stage
        /\ UNCHANGED <<names, images, word, cands, found, via, conf, cont, moved, touched,
                       others, src, built, file, opts, accepted>>

(* A Dockerfile that is only a FROM is not committed: its image is the     *)
(* base image.                                                             *)
NeedCommit(f) == f.body # <<>>

finishStage(b) ==
    /\ pc[b] = "exec"
    /\ cmds[b] = <<>>
    /\ IF NeedCommit(file[b])
       THEN pc' = [pc EXCEPT ![b] = "commit"] /\ UNCHANGED built
       ELSE pc' = [pc EXCEPT ![b] = "tag"] /\ built' = [built EXCEPT ![b] = found[b]]
    /\ UNCHANGED <<names, images, word, cands, found, via, conf, cont, ok, moved, touched,
                   others, stage, src, file, opts, accepted, cmds>>

(* Mutant: an image that has a name keeps it.                              *)
applyTagUnnamed(b) ==
    LET t == file[b].tag
        named == \E n \in DOMAIN names : names[n] = built[b]
    IN  /\ pc[b] = "tag"
        /\ built[b] \in images
        /\ names' = IF t = <<>> \/ named THEN names ELSE SetNames(built[b], {t})
        /\ pc' = [pc EXCEPT ![b] = "clean"]
        /\ UNCHANGED <<ok, moved, images, word, cands, found, via, conf, cont, touched, others,
                       stage, src, built, file, opts, accepted, cmds>>

(* The names of the image become the tag of this build.                    *)
applyTag(b) ==
    LET t == file[b].tag
    IN  /\ pc[b] = "tag"
        /\ IF t = <<>> THEN pc' = [pc EXCEPT ![b] = "clean"] /\ UNCHANGED <<names, ok, moved>>
           ELSE IF built[b] \notin images THEN Return(b) /\ UNCHANGED <<names, moved>>
           ELSE /\ names' = SetNames(built[b], {t})
                /\ moved' = [c \in Builds |-> moved[c] \/
                       /\ pc[c] = "open" /\ via[c] \in DOMAIN names
                       /\ via[c] = t \/ names[via[c]] = built[b]]
                /\ pc' = [pc EXCEPT ![b] = "clean"]
                /\ UNCHANGED ok
        /\ UNCHANGED <<images, word, cands, found, via, conf, cont, touched, others, stage,
                       src, built, file, opts, accepted, cmds>>

(* The container of the stage goes.                                        *)
cleanup(b) ==
    /\ pc[b] = "clean"
    /\ cont' = [cont EXCEPT ![b] = NoContainer]
    /\ pc' = [pc EXCEPT ![b] = "done"]
    /\ UNCHANGED <<names, images, word, cands, found, via, conf, ok, moved, touched, others,
                   stage, src, built, file, opts, accepted, cmds>>

Build(b) ==
    \/ newStageBuilders(b) \/ prepare(b) \/ stageBuild(b) \/ finishStage(b)
    \/ applyTag(b) \/ cleanup(b)
    \/ ResolveNext(b) /\ UNCHANGED <<commitVars, stageVars>>
    \/ (NewImageSource(b) \/ commit(b)) /\ UNCHANGED stageVars

Finished == (\A b \in Builds : pc[b] = "done") /\ UNCHANGED vars

Next ==
    \/ \E b \in Builds : Build(b)
    \/ \E n \in DOMAIN names : OtherRequest(n) /\ UNCHANGED <<commitVars, stageVars>>
    \/ Finished

Spec == Init /\ [][Next]_vars

-----------------------------------------------------------------------------
Committed(b) == pc[b] = "tag" /\ NeedCommit(file[b])

(* A container is made on the layers of the image whose configuration was  *)
(* read, and under a name that the word of FROM can mean.  The first fails *)
(* only when the name the image was found by is moved before the image is  *)
(* opened; the second only for a word such as docker:tag, whose first part *)
(* is taken for a transport.                                               *)
BaseCoherent ==
    \A b \in Builds : pc[b] \in {"spec", "exec", "commit", "copy"} =>
        /\ conf[b] = cont[b] \/ moved[b]
        /\ via[b] # <<>> /\ word[b] \notin DOMAIN Transported =>
              via[b] \in Range(IF word[b] \in DOMAIN Qualified THEN <<Qualified[word[b]]>>
                               ELSE tryResolveNameInRegistries(word[b]))

(* An image is committed with all layers of its base and its own on top,   *)
(* and with one entry of history for each, whichever of the layers could   *)
(* not be stored: saveLayerToStorage drops that error, and the copy fails  *)
(* for want of a digest.                                                   *)
CommitComplete ==
    \A b \in Builds : Committed(b) =>
        /\ built[b].layers = Append(LayersOf(found[b]), stage[b].top)
        /\ built[b].cfg.history = Len(built[b].layers)

(* The tag a build gave stays with its image until another request takes   *)
(* it.  Other builds take it by the same tag; or by tagging the same       *)
(* image, as applyTag replaces all names: a build of nothing but a FROM    *)
(* line on it, or one with a fixed time and the same result.               *)
TagsStay ==
    \A b \in Builds : pc[b] = "done" /\ ok[b] /\ file[b].tag # <<>> =>
        \/ file[b].tag \in DOMAIN names /\ names[file[b].tag] = built[b]
        \/ file[b].tag \in touched
        \/ \E c \in Builds \ {b} :
              /\ pc[c] \in {"clean", "done"} /\ ok[c] /\ file[c].tag # <<>>
              /\ file[c].tag = file[b].tag \/ built[c] = built[b]
=============================================================================
