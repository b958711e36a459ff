-------------------------- MODULE StageConfigProofs --------------------------
(***************************************************************************)
(* Proofs about builds of one stage side by side, for any number of builds *)
(* and of other requests, any files, names and images: which base a build  *)
(* is made on, what is committed, and whose a tag is.                      *)
(***************************************************************************)
EXTENDS StageConfig, TLAPS

\* A leaf is one for Zenon unless it names another prover.
USE Zenon

Shape ==
  /\ DOMAIN pc = Builds /\ DOMAIN word = Builds /\ DOMAIN cands = Builds /\ DOMAIN found = Builds
  /\ DOMAIN via = Builds /\ DOMAIN conf = Builds /\ DOMAIN cont = Builds /\ DOMAIN ok = Builds
  /\ DOMAIN moved = Builds /\ DOMAIN stage = Builds /\ DOMAIN src = Builds /\ DOMAIN built = Builds

OnContainer == {"spec", "exec", "commit", "copy"}

\* The image a build is made on: until it is opened, the name it was found by still leads to
\* it or was moved; then its configuration was read, or that of the image the name was moved to.
BaseInv(b) ==
  /\ pc[b] \in {"start", "name", "find"} => via[b] = <<>>
  /\ pc[b] = "start" => conf[b] = found[b]
  /\ pc[b] = "open" /\ via[b] # <<>> =>
       moved[b] \/ (via[b] \in DOMAIN names /\ names[via[b]] = found[b])
  /\ pc[b] = "layer" => conf[b] = found[b] \/ moved[b]
  /\ pc[b] \in OnContainer => cont[b] = found[b] /\ (conf[b] = found[b] \/ moved[b])

\* The names it is looked for by are those its word can mean.
NameInv(b) ==
  /\ pc[b] \in {"try", "pull", "pulled"} => cands[b] \in Seq(Range(CandidatesOf(word[b])))
  /\ pc[b] \in {"pull", "pulled"} => cands[b] # <<>>
  /\ via[b] # <<>> => via[b] \in Range(CandidatesOf(word[b]))

\* All images in reach have layers.
ImagesInv ==
  /\ \A img \in images : Layered(img)
  /\ \A n \in DOMAIN names : Layered(names[n])
  /\ \A b \in Builds : Layered(found[b])

\* The layers of the container.
Layers(b) == Append(LayersOf(found[b]), stage[b].top)

\* What is being committed: each layer of the container, or no digest.
CopyInv(b) ==
  /\ pc[b] = "copy" =>
       /\ src[b].layers = [i \in DOMAIN Layers(b) |-> src[b].layers[i]]
       /\ \A i \in DOMAIN Layers(b) : src[b].layers[i] \in {Layers(b)[i], NoDigest}
       /\ appendHistory(stage[b].cfg).history = Len(Layers(b))
  /\ Committed(b) =>
       built[b].layers = Layers(b) /\ built[b].cfg.history = Len(built[b].layers)

\* The tag of a build is its own or was taken.
Kept(b) ==
  \/ file[b].tag \in DOMAIN names /\ names[file[b].tag] = built[b]
  \/ file[b].tag \in touched
  \/ \E c \in Builds \ {b} :
        /\ pc[c] \in {"clean", "done"} /\ ok[c] /\ file[c].tag # <<>>
        /\ file[c].tag = file[b].tag \/ built[c] = built[b]

Over == {"clean", "done"}

TagInv(b) ==
  /\ pc[b] \notin Over => ok[b]
  /\ pc[b] \in Over /\ ok[b] /\ file[b].tag # <<>> => Kept(b)

IInv ==
  /\ Shape /\ ImagesInv
  /\ \A b \in Builds : BaseInv(b) /\ NameInv(b) /\ CopyInv(b) /\ TagInv(b)

-----------------------------------------------------------------------------
\* A step of one build leaves the others where they are.
LEMMA OwnStep ==
  ASSUME Shape, NEW b \in Builds, Build(b)
  PROVE  /\ UNCHANGED file
         /\ \A q \in Builds \ {b} :
              /\ pc'[q] = pc[q] /\ word'[q] = word[q] /\ cands'[q] = cands[q] /\ found'[q] = found[q]
              /\ via'[q] = via[q] /\ conf'[q] = conf[q] /\ cont'[q] = cont[q] /\ ok'[q] = ok[q]
              /\ stage'[q] = stage[q] /\ src'[q] = src[q] /\ built'[q] = built[q]
              /\ moved[q] => moved'[q]
<1> USE DEF Shape, Return
<1>1. CASE newStageBuilders(b)
  BY <1>1 DEF newStageBuilders
<1>2. CASE prepare(b)
  BY <1>2 DEF prepare
<1>3. CASE stageBuild(b)
  BY <1>3 DEF stageBuild
<1>4. CASE finishStage(b)
  BY <1>4 DEF finishStage
<1>5. CASE applyTag(b)
  BY <1>5 DEF applyTag
<1>6. CASE cleanup(b)
  BY <1>6 DEF cleanup
<1>7. CASE ResolveName(b) /\ UNCHANGED <<commitVars, stageVars>>
  BY <1>7 DEF ResolveName, commitVars, stageVars
<1>8. CASE FindImage(b) /\ UNCHANGED <<commitVars, stageVars>>
  BY <1>8 DEF FindImage, commitVars, stageVars
<1>9. CASE (TryCandidate(b) \/ NoCandidate(b)) /\ UNCHANGED <<commitVars, stageVars>>
  BY <1>9, SMT DEF TryCandidate, NoCandidate, commitVars, stageVars
<1>10. CASE pullImage(b) /\ UNCHANGED <<commitVars, stageVars>>
  BY <1>10 DEF pullImage, commitVars, stageVars
<1>11. CASE GetPulledImage(b) /\ UNCHANGED <<commitVars, stageVars>>
  BY <1>11 DEF GetPulledImage, commitVars, stageVars
<1>12. CASE instantiatingImage(b) /\ UNCHANGED <<commitVars, stageVars>>
  BY <1>12 DEF instantiatingImage, commitVars, stageVars
<1>13. CASE GetRWLayerByImageID(b) /\ UNCHANGED <<commitVars, stageVars>>
  BY <1>13 DEF GetRWLayerByImageID, commitVars, stageVars
<1>14. CASE NewImageSource(b) /\ UNCHANGED stageVars
  BY <1>14 DEF NewImageSource, stageVars
<1>15. CASE commit(b) /\ UNCHANGED stageVars
  BY <1>15 DEF commit, stageVars
<1> QED
  BY <1>1, <1>2, <1>3, <1>4, <1>5, <1>6, <1>7, <1>8, <1>9, <1>10, <1>11, <1>12, <1>13, <1>14, <1>15
     DEF Build, ResolveNext

\* Every step keeps the shape of the state.
LEMMA ShapeStep ==
  ASSUME Shape, Next
  PROVE  Shape'
<1> USE DEF Shape, Return
<1>1. CASE \E n \in DOMAIN names : OtherRequest(n) /\ UNCHANGED <<commitVars, stageVars>>
  BY <1>1 DEF OtherRequest, commitVars
<1>2. CASE Finished
  BY <1>2 DEF Finished, vars
<1>3. ASSUME NEW b \in Builds, Build(b)
      PROVE  Shape'
  <2>1. CASE newStageBuilders(b) \/ prepare(b) \/ stageBuild(b) \/ finishStage(b) \/ cleanup(b)
    BY <2>1 DEF newStageBuilders, prepare, stageBuild, finishStage, cleanup
  <2>2. CASE applyTag(b)
    BY <2>2 DEF applyTag
  <2>3. CASE ResolveNext(b) /\ UNCHANGED <<commitVars, stageVars>>
    BY <2>3 DEF ResolveNext, ResolveName, FindImage, TryCandidate, NoCandidate, pullImage, GetPulledImage,
                instantiatingImage, GetRWLayerByImageID, commitVars
  <2>4. CASE NewImageSource(b) \/ commit(b)
    BY <2>4 DEF NewImageSource, commit
  <2> QED
    BY <1>3, <2>1, <2>2, <2>3, <2>4 DEF Build
<1> QED
  BY <1>1, <1>2, <1>3 DEF Next

-----------------------------------------------------------------------------
(***************************************************************************)
(* The base image.                                                         *)
(***************************************************************************)

\* The name another build has found its image by leads there, or it is recorded as moved.
LEMMA NamesMove ==
  ASSUME Shape, NEW b \in Builds, Build(b),
         NEW q \in Builds \ {b}, pc[q] = "open", via[q] \in DOMAIN names
  PROVE  moved'[q] \/ (via[q] \in DOMAIN names' /\ names'[via[q]] = names[via[q]])
<1> USE DEF Shape
<1>1. CASE pullImage(b)
  <2>1. CASE names' = names
    BY <2>1
  <2>2. CASE names' # names
    <3>1. /\ names' = [n \in DOMAIN names \cup {via[b]} |-> IF n = via[b] THEN Remote[n] ELSE names[n]]
          /\ moved' = [c \in Builds |-> moved[c] \/ (c # b /\ via[c] = via[b] /\ pc[c] = "open")]
      BY <1>1, <2>2 DEF pullImage
    <3>2. CASE via[q] = via[b]
      BY <3>1, <3>2
    <3>3. CASE via[q] # via[b]
      BY <3>1, <3>3
    <3> QED
      BY <3>2, <3>3
  <2> QED
    BY <2>1, <2>2
<1>2. CASE applyTag(b)
  <2>1. CASE names' = names
    BY <2>1
  <2>2. CASE names' # names
    <3> DEFINE t == file[b].tag
    <3>1. /\ names' = SetNames(built[b], {t})
          /\ moved' = [c \in Builds |-> moved[c] \/
                 (pc[c] = "open" /\ via[c] \in DOMAIN names /\ (via[c] = t \/ names[via[c]] = built[b]))]
      BY <1>2, <2>2 DEF applyTag
    <3>2. CASE via[q] = t \/ names[via[q]] = built[b]
      BY <3>1, <3>2
    <3>3. CASE ~(via[q] = t \/ names[via[q]] = built[b])
      BY <3>1, <3>3 DEF SetNames
    <3> QED
      BY <3>2, <3>3
  <2> QED
    BY <2>1, <2>2
<1>3. CASE names' = names
  BY <1>3
<1> QED
  BY <1>1, <1>2, <1>3 DEF Build, ResolveNext, newStageBuilders, prepare, stageBuild, finishStage, cleanup, ResolveName,
     FindImage, TryCandidate, NoCandidate, GetPulledImage, instantiatingImage, GetRWLayerByImageID, NewImageSource, commit

\* A step of another build keeps the base of this one.
LEMMA BaseOther ==
  ASSUME Shape, NEW b \in Builds, Build(b), NEW q \in Builds \ {b}, BaseInv(q)
  PROVE  BaseInv(q)'
<1>1. /\ pc'[q] = pc[q] /\ found'[q] = found[q] /\ via'[q] = via[q] /\ conf'[q] = conf[q]
      /\ cont'[q] = cont[q] /\ (moved[q] => moved'[q])
  BY OwnStep
<1>2. pc[q] = "open" /\ via[q] # <<>> => moved'[q] \/ (via[q] \in DOMAIN names' /\ names'[via[q]] = found[q])
  BY <1>1, NamesMove DEF BaseInv
<1> QED
  BY <1>1, <1>2 DEF BaseInv

\* So does a step of its own.
LEMMA BaseOwn ==
  ASSUME Shape, NEW b \in Builds, Build(b), BaseInv(b)
  PROVE  BaseInv(b)'
<1> USE DEF Shape, Return, BaseInv, OnContainer
<1>1. CASE newStageBuilders(b)
  BY <1>1, SMT DEF newStageBuilders, prepareImage
<1>2. CASE prepare(b)
  BY <1>2 DEF prepare
<1>3. CASE stageBuild(b)
  BY <1>3 DEF stageBuild
<1>4. CASE finishStage(b)
  BY <1>4 DEF finishStage
<1>5. CASE applyTag(b)
  BY <1>5 DEF applyTag
<1>6. CASE cleanup(b)
  BY <1>6 DEF cleanup
<1>7. CASE ResolveName(b)
  BY <1>7 DEF ResolveName
<1>8. CASE FindImage(b)
  BY <1>8, SMT DEF FindImage
<1>9. CASE TryCandidate(b) \/ NoCandidate(b)
  BY <1>9, SMT DEF TryCandidate, NoCandidate
<1>10. CASE pullImage(b)
  BY <1>10 DEF pullImage
<1>11. CASE GetPulledImage(b)
  BY <1>11, SMT DEF GetPulledImage
<1>12. CASE instantiatingImage(b)
  BY <1>12, SMT DEF instantiatingImage
<1>13. CASE GetRWLayerByImageID(b)
  BY <1>13, SMT DEF GetRWLayerByImageID
<1>14. CASE NewImageSource(b)
  BY <1>14, SMT DEF NewImageSource
<1>15. CASE commit(b)
  BY <1>15, SMT DEF commit
<1> QED
  BY <1>1, <1>2, <1>3, <1>4, <1>5, <1>6, <1>7, <1>8, <1>9, <1>10, <1>11, <1>12, <1>13, <1>14, <1>15
     DEF Build, ResolveNext

-----------------------------------------------------------------------------
(***************************************************************************)
(* Sequences of candidates and of layers.                                  *)
(***************************************************************************)
LEMMA HeadTail ==
  ASSUME NEW S, NEW s \in Seq(S), s # <<>>
  PROVE  Head(s) \in S /\ Tail(s) \in Seq(S)
BY SMT

\* A function of 1..n is the sequence of its values.
LEMMA ItsValues ==
  ASSUME NEW s, NEW n \in Nat, DOMAIN s = 1..n, s = [i \in 1..n |-> s[i]]
  PROVE  IsSequence(s)
BY SMT DEF IsSequence, Range

\* A sequence is a function of 1..n.
LEMMA SequenceValues ==
  ASSUME NEW S, NEW s \in Seq(S)
  PROVE  Len(s) \in Nat /\ DOMAIN s = 1..Len(s) /\ s = [i \in 1..Len(s) |-> s[i]]
BY SMT

\* One more element keeps a sequence a sequence.
LEMMA AppendSequence ==
  ASSUME NEW s, NEW x, IsSequence(s)
  PROVE  /\ IsSequence(Append(s, x))
         /\ Append(s, x) = [i \in DOMAIN Append(s, x) |-> Append(s, x)[i]]
<1>1. s \in Seq(Range(s) \cup {x})
  BY SMT DEF IsSequence
<1>2. Append(s, x) \in Seq(Range(s) \cup {x})
  BY <1>1, SMT
<1> DEFINE a == Append(s, x)
<1>3. Len(a) \in Nat /\ DOMAIN a = 1..Len(a) /\ a = [i \in 1..Len(a) |-> a[i]]
  <2> HIDE DEF a
  <2>1. a \in Seq(Range(s) \cup {x})
    BY <1>2 DEF a
  <2> QED
    BY <2>1, SequenceValues
<1>4. IsSequence(a)
  <2> HIDE DEF a
  <2> QED
    BY <1>3, ItsValues
<1> QED
  BY <1>3, <1>4

\* The candidates of a word are a sequence.
LEMMA CandidatesSequence ==
  ASSUME NEW w
  PROVE  IsSequence(CandidatesOf(w))
<1>1. ASSUME NEW x PROVE IsSequence(<<x>>)
  BY SMT DEF IsSequence, Range
<1>2. IsSequence(tryResolveNameInRegistries(w))
  <2>1. Len(Registries) + 1 \in Nat
    BY ImagesAssumption, SMT
  <2> QED
    BY <2>1, ItsValues DEF tryResolveNameInRegistries
<1> QED
  BY <1>1, <1>2 DEF CandidatesOf

-----------------------------------------------------------------------------
(***************************************************************************)
(* The names the base image is looked for by.                              *)
(***************************************************************************)
LEMMA NameOwn ==
  ASSUME Shape, NEW b \in Builds, Build(b), BaseInv(b), NameInv(b)
  PROVE  NameInv(b)'
<1> USE DEF Shape, Return, NameInv
<1>1. CASE newStageBuilders(b)
  <2>1. via'[b] = <<>> /\ pc'[b] \notin {"try", "pull", "pulled"}
    BY <1>1, SMT DEF newStageBuilders, prepareImage, BaseInv
  <2> QED
    BY <2>1
<1>2. CASE ResolveName(b)
  <2>1. /\ word' = word /\ via' = via /\ pc'[b] \in {"find", "try"}
        /\ pc'[b] = "try" => cands'[b] = CandidatesOf(word[b])
    BY <1>2 DEF ResolveName
  <2> QED
    BY <2>1, CandidatesSequence DEF IsSequence
<1>3. CASE TryCandidate(b)
  <2>1. /\ word' = word /\ cands' = cands /\ cands[b] # <<>> /\ via'[b] = Head(cands[b]) /\ pc[b] = "try"
    BY <1>3 DEF TryCandidate
  <2>2. Head(cands[b]) \in Range(CandidatesOf(word[b]))
    BY <2>1, HeadTail
  <2> QED
    BY <2>1, <2>2
<1>4. CASE pullImage(b) \/ GetPulledImage(b)
  <2>1. /\ word' = word /\ via' = via /\ pc[b] \in {"pull", "pulled"} /\ pc'[b] \in {"try", "pulled", "open"}
        /\ cands' = cands \/ (cands'[b] = Tail(cands[b]) /\ pc'[b] = "try")
    BY <1>4 DEF pullImage, GetPulledImage
  <2>2. Tail(cands[b]) \in Seq(Range(CandidatesOf(word[b])))
    BY <2>1, HeadTail
  <2> QED
    BY <2>1, <2>2
<1>5. CASE UNCHANGED <<word, cands, via>> /\ pc'[b] \notin {"try", "pull", "pulled"}
  BY <1>5
<1>6. CASE prepare(b) \/ stageBuild(b) \/ finishStage(b) \/ applyTag(b) \/ cleanup(b) \/ NewImageSource(b) \/ commit(b)
  BY <1>5, <1>6 DEF prepare, stageBuild, finishStage, applyTag, cleanup, NewImageSource, commit
<1>7. CASE FindImage(b) \/ NoCandidate(b) \/ instantiatingImage(b) \/ GetRWLayerByImageID(b)
  BY <1>5, <1>7 DEF FindImage, NoCandidate, instantiatingImage, GetRWLayerByImageID
<1> QED
  BY <1>1, <1>2, <1>3, <1>4, <1>6, <1>7 DEF Build, ResolveNext

-----------------------------------------------------------------------------
(***************************************************************************)
(* The layers that are committed.                                          *)
(***************************************************************************)

\* What a copy that succeeds has in its hands is the layers of the container.
LEMMA CopiedWhole ==
  ASSUME Shape, NEW b \in Builds, Layered(found[b]), CopyInv(b), pc[b] = "copy",
         \A i \in DOMAIN src[b].layers : GetBlob(b, src[b].layers[i])
  PROVE  src[b].layers = Layers(b) /\ IsSequence(Layers(b))
<1>1. /\ IsSequence(Layers(b))
      /\ Layers(b) = [i \in DOMAIN Layers(b) |-> Layers(b)[i]]
  BY AppendSequence DEF Layers, Layered
<1>2. /\ src[b].layers = [i \in DOMAIN Layers(b) |-> src[b].layers[i]]
      /\ \A i \in DOMAIN Layers(b) : src[b].layers[i] \in {Layers(b)[i], NoDigest}
  BY DEF CopyInv
<1>3. DOMAIN src[b].layers = DOMAIN Layers(b)
  BY <1>2
<1>4. \A i \in DOMAIN Layers(b) : src[b].layers[i] = Layers(b)[i]
  BY <1>2, <1>3 DEF GetBlob
<1>5. [i \in DOMAIN Layers(b) |-> src[b].layers[i]] = [i \in DOMAIN Layers(b) |-> Layers(b)[i]]
  BY <1>4
<1> QED
  BY <1>1, <1>2, <1>5

\* A step of a build leaves every image that is stored or found with a sequence of layers.
LEMMA ImagesStep ==
  ASSUME Shape, ImagesInv, NEW b \in Builds, Build(b), CopyInv(b)
  PROVE  ImagesInv'
<1> USE DEF Shape, Return, ImagesInv
<1>1. CASE ResolveName(b)
  BY <1>1 DEF ResolveName
<1>2. CASE TryCandidate(b)
  BY <1>2 DEF TryCandidate
<1>3. CASE pullImage(b)
  <2>1. found' = found
    BY <1>3 DEF pullImage
  <2>2. CASE UNCHANGED <<names, images>>
    BY <2>1, <2>2
  <2>3. CASE /\ via[b] \in DOMAIN Remote
             /\ images' = images \cup {Remote[via[b]]}
             /\ names' = [n \in DOMAIN names \cup {via[b]} |-> IF n = via[b] THEN Remote[n] ELSE names[n]]
    BY <2>1, <2>3, ImagesAssumption
  <2> QED
    BY <1>3, <2>2, <2>3 DEF pullImage
<1>4. CASE GetPulledImage(b)
  BY <1>4 DEF GetPulledImage
<1>5. CASE commit(b)
  <2>1. names' = names /\ found' = found
    BY <1>5 DEF commit
  <2>2. CASE images' = images
    BY <2>1, <2>2
  <2>3. CASE images' # images
    <3> DEFINE img == createConfigsAndManifests(b)
    <3>1. images' = images \cup {img} /\ pc[b] = "copy" /\ \A i \in DOMAIN src[b].layers : GetBlob(b, src[b].layers[i])
      BY <1>5, <2>3 DEF commit
    <3>2. img.layers = Layers(b) /\ IsSequence(Layers(b))
      BY <3>1, CopiedWhole DEF createConfigsAndManifests
    <3>3. IsSequence(<<>>)
      BY SMT DEF IsSequence
    <3>4. Layered(img)
      BY <3>2, <3>3 DEF Layered, LayersOf
    <3> QED
      BY <2>1, <3>1, <3>4
  <2> QED
    BY <2>2, <2>3
<1>6. CASE applyTag(b)
  <2>1. UNCHANGED <<images, found>>
    BY <1>6 DEF applyTag
  <2>2. CASE names' = names
    BY <2>1, <2>2
  <2>3. CASE names' # names
    <3>1. built[b] \in images /\ names' = SetNames(built[b], {file[b].tag})
      BY <1>6, <2>3 DEF applyTag
    <3> QED
      BY <2>1, <3>1 DEF SetNames
  <2> QED
    BY <2>2, <2>3
<1>7. CASE UNCHANGED <<names, images, found>>
  BY <1>7
<1> QED
  BY <1>1, <1>2, <1>3, <1>4, <1>5, <1>6, <1>7 DEF Build, ResolveNext, newStageBuilders, prepare, stageBuild, finishStage,
     cleanup, FindImage, NoCandidate, instantiatingImage, GetRWLayerByImageID, NewImageSource

\* A step of a build keeps what its own commit copies.
LEMMA CopyOwn ==
  ASSUME Shape, NEW b \in Builds, Build(b), Layered(found[b]), BaseInv(b), CopyInv(b)
  PROVE  CopyInv(b)'
<1> USE DEF Shape, Return
<1>1. CASE NewImageSource(b)
  <2>1. CASE pc'[b] = "clean"
    BY <2>1 DEF CopyInv, Committed
  <2>2. CASE pc'[b] # "clean"
    <3> DEFINE ls == getContainerLayers(b)
    <3> DEFINE saved == {i \in DOMAIN ls : i = Len(ls) \/ ~isFromImageExist(b)}
    <3>1. PICK fails \in SUBSET saved :
             /\ appendHistory(stage[b].cfg).history = Len(ls)
             /\ src' = [src EXCEPT ![b] = [layers |-> [i \in DOMAIN ls |-> analyzeLayer(b, i, fails)],
                                           blobs |-> {ls[i] : i \in saved \ fails}]]
      BY <1>1, <2>2 DEF NewImageSource
    <3>2. pc[b] = "commit" /\ pc'[b] = "copy" /\ UNCHANGED <<stage, found>>
      BY <1>1, <2>2 DEF NewImageSource
    <3>3. ls = Layers(b) /\ Layers(b)' = Layers(b)
      BY <3>2 DEF BaseInv, OnContainer, getContainerLayers, Layers
    <3>4. \A i \in DOMAIN ls : analyzeLayer(b, i, fails) \in {ls[i], NoDigest}
      BY DEF analyzeLayer, saveLayerToStorage
    <3>5. src'[b].layers = [i \in DOMAIN ls |-> analyzeLayer(b, i, fails)]
      BY <3>1, SMT
    <3> HIDE DEF ls
    <3>6. /\ src'[b].layers = [i \in DOMAIN ls |-> src'[b].layers[i]]
          /\ \A i \in DOMAIN ls : src'[b].layers[i] \in {ls[i], NoDigest}
      BY <3>4, <3>5
    <3> QED
      BY <3>1, <3>2, <3>3, <3>6 DEF CopyInv, Committed
  <2> QED
    BY <2>1, <2>2
<1>2. CASE commit(b)
  <2>1. CASE pc'[b] = "clean"
    BY <2>1 DEF CopyInv, Committed
  <2>2. CASE pc'[b] # "clean"
    <3>1. /\ pc[b] = "copy" /\ pc'[b] = "tag" /\ UNCHANGED <<stage, found>>
          /\ built'[b] = createConfigsAndManifests(b)
          /\ \A i \in DOMAIN src[b].layers : GetBlob(b, src[b].layers[i])
      BY <1>2, <2>2 DEF commit
    <3>2. src[b].layers = Layers(b)
      BY <3>1, CopiedWhole
    <3>3. built'[b].layers = Layers(b) /\ built'[b].cfg = appendHistory(stage[b].cfg)
      <4>1. /\ createConfigsAndManifests(b).layers = src[b].layers
            /\ createConfigsAndManifests(b).cfg = appendHistory(stage[b].cfg)
        BY DEF createConfigsAndManifests
      <4> QED
        BY <3>1, <3>2, <4>1
    <3>4. appendHistory(stage[b].cfg).history = Len(Layers(b))
      BY <3>1 DEF CopyInv
    <3>5. Layers(b)' = Layers(b)
      BY <3>1 DEF Layers
    <3> QED
      BY <3>1, <3>3, <3>4, <3>5 DEF CopyInv
  <2> QED
    BY <2>1, <2>2
<1>3. CASE pc'[b] # "copy" /\ ~Committed(b)'
  BY <1>3 DEF CopyInv
<1>4. CASE finishStage(b)
  BY <1>3, <1>4 DEF finishStage, Committed
<1>5. CASE newStageBuilders(b) \/ prepare(b) \/ stageBuild(b) \/ applyTag(b) \/ cleanup(b)
  <2>1. pc'[b] \notin {"copy", "tag"}
    BY <1>5 DEF newStageBuilders, prepareImage, prepare, stageBuild, applyTag, cleanup
  <2> QED
    BY <1>3, <2>1 DEF Committed
<1>6. CASE ResolveNext(b)
  <2>1. pc'[b] \notin {"copy", "tag"}
    BY <1>6 DEF ResolveNext, ResolveName, FindImage, TryCandidate, NoCandidate, pullImage, GetPulledImage,
                instantiatingImage, GetRWLayerByImageID
  <2> QED
    BY <1>3, <2>1 DEF Committed
<1> QED
  BY <1>1, <1>2, <1>4, <1>5, <1>6 DEF Build

\* A step of another build keeps the candidates and the commit of this one.
LEMMA NameCopyOther ==
  ASSUME Shape, NEW b \in Builds, Build(b), NEW q \in Builds \ {b}, NameInv(q), CopyInv(q)
  PROVE  NameInv(q)' /\ CopyInv(q)'
<1>1. /\ pc'[q] = pc[q] /\ word'[q] = word[q] /\ cands'[q] = cands[q] /\ via'[q] = via[q]
      /\ found'[q] = found[q] /\ stage'[q] = stage[q] /\ src'[q] = src[q] /\ built'[q] = built[q] /\ file' = file
  BY OwnStep
<1>2. NameInv(q)'
  BY <1>1 DEF NameInv
<1>3. Layers(q)' = Layers(q) /\ (Committed(q)' <=> Committed(q))
  BY <1>1 DEF Layers, Committed
<1>4. CopyInv(q)'
  BY <1>1, <1>3 DEF CopyInv
<1> QED
  BY <1>2, <1>4

-----------------------------------------------------------------------------
(***************************************************************************)
(* Whose a tag is.                                                         *)
(***************************************************************************)

\* A build that is over stays so; one that is not has not failed, and one that gets there
\* without a failure has given its tag.
LEMMA OverStays ==
  ASSUME Shape, NEW b \in Builds, Build(b), TagInv(b)
  PROVE  /\ \A q \in Builds : pc[q] \in Over => pc'[q] \in Over /\ ok'[q] = ok[q] /\ built'[q] = built[q]
         /\ pc'[b] \notin Over => ok'[b]
         /\ pc[b] \notin Over /\ pc'[b] \in Over /\ ok'[b] => applyTag(b)
<1> USE DEF Shape, Return, Over
<1>0. /\ pc[b] \notin Over => ok[b]
      /\ \A q \in Builds \ {b} : pc'[q] = pc[q] /\ ok'[q] = ok[q] /\ built'[q] = built[q]
  BY OwnStep DEF TagInv
<1> USE <1>0
<1>1. CASE newStageBuilders(b)
  BY <1>1 DEF newStageBuilders, prepareImage
<1>2. CASE prepare(b)
  BY <1>2 DEF prepare
<1>3. CASE stageBuild(b)
  BY <1>3 DEF stageBuild
<1>4. CASE finishStage(b)
  BY <1>4 DEF finishStage
<1>5. CASE applyTag(b)
  <2>1. pc[b] = "tag" /\ pc'[b] = "clean"
    BY <1>5 DEF applyTag
  <2> QED
    BY <1>5, <2>1
<1>6. CASE cleanup(b)
  BY <1>6 DEF cleanup
<1>7. CASE ResolveName(b)
  BY <1>7 DEF ResolveName
<1>8. CASE FindImage(b)
  BY <1>8 DEF FindImage
<1>9. CASE TryCandidate(b)
  BY <1>9 DEF TryCandidate
<1>10. CASE NoCandidate(b)
  BY <1>10 DEF NoCandidate
<1>11. CASE pullImage(b)
  BY <1>11 DEF pullImage
<1>12. CASE GetPulledImage(b)
  BY <1>12 DEF GetPulledImage
<1>13. CASE instantiatingImage(b)
  BY <1>13 DEF instantiatingImage
<1>14. CASE GetRWLayerByImageID(b)
  BY <1>14 DEF GetRWLayerByImageID
<1>15. CASE NewImageSource(b)
  BY <1>15 DEF NewImageSource
<1>16. CASE commit(b)
  BY <1>16 DEF commit
<1> QED
  BY <1>1, <1>2, <1>3, <1>4, <1>5, <1>6, <1>7, <1>8, <1>9, <1>10, <1>11, <1>12, <1>13, <1>14, <1>15, <1>16
     DEF Build, ResolveNext

\* A name that a build has given to an image stays recorded as given.
LEMMA TouchedGrows ==
  ASSUME NEW b \in Builds, Build(b)
  PROVE  touched \subseteq touched'
<1>1. CASE pullImage(b)
  BY <1>1 DEF pullImage
<1>2. CASE touched' = touched
  BY <1>2
<1> QED
  BY <1>1, <1>2 DEF Build, ResolveNext, newStageBuilders, prepare, stageBuild, finishStage, applyTag, cleanup, ResolveName,
     FindImage, TryCandidate, NoCandidate, GetPulledImage, instantiatingImage, GetRWLayerByImageID, NewImageSource, commit

\* A name in use leads where it led, or a pull took it, or a build that tags its image.
LEMMA NamesKept ==
  ASSUME Shape, NEW b \in Builds, Build(b), NEW n \in DOMAIN names
  PROVE  \/ n \in DOMAIN names' /\ names'[n] = names[n]
         \/ n \in touched'
         \/ applyTag(b) /\ pc'[b] = "clean" /\ ok' = ok /\ file[b].tag # <<>> /\ (n = file[b].tag \/ names[n] = built[b])
<1> USE DEF Shape
<1>1. CASE pullImage(b)
  <2>1. CASE names' = names
    BY <2>1
  <2>2. CASE names' # names
    <3>1. /\ names' = [m \in DOMAIN names \cup {via[b]} |-> IF m = via[b] THEN Remote[m] ELSE names[m]]
          /\ touched' = touched \cup {via[b]}
      BY <1>1, <2>2 DEF pullImage
    <3> QED
      BY <3>1
  <2> QED
    BY <2>1, <2>2
<1>2. CASE applyTag(b)
  <2>2. CASE names' = names
    BY <2>2
  <2>3. CASE names' # names
    <3>1. names' = SetNames(built[b], {file[b].tag}) /\ pc'[b] = "clean" /\ ok' = ok /\ file[b].tag # <<>>
      BY <1>2, <2>3 DEF applyTag
    <3> QED
      BY <1>2, <3>1 DEF SetNames
  <2> QED
    BY <2>2, <2>3
<1>3. CASE UNCHANGED <<names, touched>>
  BY <1>3
<1> QED
  BY <1>1, <1>2, <1>3 DEF Build, ResolveNext, newStageBuilders, prepare, stageBuild, finishStage, cleanup, ResolveName,
     FindImage, TryCandidate, NoCandidate, GetPulledImage, instantiatingImage, GetRWLayerByImageID, NewImageSource, commit

\* A step of a build keeps the tags of all builds.
LEMMA TagStep ==
  ASSUME Shape, NEW b \in Builds, Build(b), \A q \in Builds : TagInv(q)
  PROVE  \A q \in Builds : TagInv(q)'
<1> SUFFICES ASSUME NEW q \in Builds
             PROVE  TagInv(q)'
  OBVIOUS
<1>1. /\ \A c \in Builds : pc[c] \in Over => pc'[c] \in Over /\ ok'[c] = ok[c] /\ built'[c] = built[c]
      /\ pc'[b] \notin Over => ok'[b]
      /\ pc[b] \notin Over /\ pc'[b] \in Over /\ ok'[b] => applyTag(b)
  BY OverStays
<1>2. /\ file' = file
      /\ \A c \in Builds \ {b} : pc'[c] = pc[c] /\ ok'[c] = ok[c] /\ built'[c] = built[c]
  BY OwnStep
<1>3. pc'[q] \notin Over => ok'[q]
  BY <1>1, <1>2 DEF TagInv
<1>4. ASSUME pc'[q] \in Over, ok'[q], file[q].tag # <<>>, pc[q] \notin Over
      PROVE  Kept(q)'
  <2>1. q = b /\ applyTag(b)
    BY <1>1, <1>2, <1>4
  <2>2. names' = SetNames(built[b], {file[b].tag}) /\ built' = built
    BY <1>4, <2>1 DEF applyTag, Return, Shape
  <2> QED
    BY <1>2, <2>1, <2>2 DEF Kept, SetNames
<1>5. ASSUME pc[q] \in Over, ok'[q], file[q].tag # <<>>
      PROVE  Kept(q)'
  <2>1. built'[q] = built[q] /\ ok[q]
    BY <1>1, <1>5
  <2>2. Kept(q)
    BY <1>5, <2>1 DEF TagInv
  <2>3. CASE \E c \in Builds \ {q} :
                /\ pc[c] \in {"clean", "done"} /\ ok[c] /\ file[c].tag # <<>>
                /\ file[c].tag = file[q].tag \/ built[c] = built[q]
    BY <1>1, <1>2, <2>1, <2>3 DEF Kept, Over
  <2>4. touched \subseteq touched'
    BY TouchedGrows
  <2>5. CASE file[q].tag \in touched
    BY <1>2, <2>4, <2>5 DEF Kept
  <2>6. CASE file[q].tag \in DOMAIN names /\ names[file[q].tag] = built[q]
    <3>1. CASE file[q].tag \in DOMAIN names' /\ names'[file[q].tag] = names[file[q].tag]
      BY <1>2, <2>1, <2>6, <3>1 DEF Kept
    <3>2. CASE file[q].tag \in touched'
      BY <1>2, <3>2 DEF Kept
    <3>3. CASE /\ applyTag(b) /\ pc'[b] = "clean" /\ ok' = ok /\ file[b].tag # <<>>
               /\ file[q].tag = file[b].tag \/ names[file[q].tag] = built[b]
      <4>1. pc[b] = "tag" /\ built' = built
        BY <3>3 DEF applyTag
      <4>2. b # q /\ ok'[b]
        BY <1>5, <3>3, <4>1 DEF TagInv, Over
      <4> QED
        BY <1>2, <2>6, <3>3, <4>1, <4>2 DEF Kept
    <3> QED
      BY <2>6, <3>1, <3>2, <3>3, NamesKept
  <2> QED
    BY <2>2, <2>3, <2>5, <2>6 DEF Kept
<1> QED
  BY <1>2, <1>3, <1>4, <1>5 DEF TagInv

-----------------------------------------------------------------------------
\* A tag or a removal by another request.
LEMMA OtherStep ==
  ASSUME IInv, NEW n \in DOMAIN names, OtherRequest(n), UNCHANGED <<commitVars, stageVars>>
  PROVE  IInv'
<1>0. /\ Shape /\ ImagesInv
      /\ \A b \in Builds : BaseInv(b) /\ NameInv(b) /\ CopyInv(b) /\ TagInv(b)
  BY DEF IInv
<1>1. /\ UNCHANGED <<pc, word, cands, found, via, conf, cont, ok, stage, src, built, file>>
      /\ touched' = touched \cup {n}
      /\ moved' = [b \in Builds |-> moved[b] \/ (via[b] = n /\ pc[b] = "open")]
  BY DEF OtherRequest, commitVars, stageVars
<1>2. \A m \in DOMAIN names : m # n => m \in DOMAIN names' /\ names'[m] = names[m]
  BY DEF OtherRequest
<1>3. /\ images' \subseteq images
      /\ \A m \in DOMAIN names' : m \in DOMAIN names /\ (names'[m] = names[m] \/ names'[m] \in images)
  BY DEF OtherRequest
<1>4. Shape'
  BY <1>0, <1>1 DEF Shape
<1>5. ImagesInv'
  BY <1>0, <1>1, <1>3 DEF ImagesInv
<1> SUFFICES ASSUME NEW b \in Builds
             PROVE  BaseInv(b)' /\ NameInv(b)' /\ CopyInv(b)' /\ TagInv(b)'
  BY <1>4, <1>5 DEF IInv
<1>6. /\ moved[b] => moved'[b]
      /\ via[b] = n /\ pc[b] = "open" => moved'[b]
  BY <1>1
<1>7. BaseInv(b)'
  <2>1. pc[b] = "open" /\ via[b] # <<>> => moved'[b] \/ (via[b] \in DOMAIN names' /\ names'[via[b]] = found[b])
    BY <1>0, <1>2, <1>6 DEF BaseInv
  <2> QED
    BY <1>0, <1>1, <1>6, <2>1 DEF BaseInv
<1>8. NameInv(b)'
  BY <1>0, <1>1 DEF NameInv
<1>9. CopyInv(b)'
  <2>1. Layers(b)' = Layers(b) /\ (Committed(b)' <=> Committed(b))
    BY <1>1 DEF Layers, Committed
  <2> QED
    BY <1>0, <1>1, <2>1 DEF CopyInv
<1>10. TagInv(b)'
  <2>1. Kept(b) => Kept(b)'
    BY <1>1, <1>2 DEF Kept
  <2> QED
    BY <1>0, <1>1, <2>1 DEF TagInv
<1> QED
  BY <1>7, <1>8, <1>9, <1>10

\* A step of a build keeps the whole invariant.
LEMMA BuildStep ==
  ASSUME IInv, NEW b \in Builds, Build(b), Shape'
  PROVE  IInv'
<1>0. /\ Shape /\ ImagesInv
      /\ \A q \in Builds : BaseInv(q) /\ NameInv(q) /\ CopyInv(q) /\ TagInv(q)
  BY DEF IInv
<1>1. Layered(found[b])
  BY <1>0 DEF ImagesInv
<1>2. ImagesInv'
  BY <1>0, ImagesStep
<1>3. BaseInv(b)' /\ NameInv(b)' /\ CopyInv(b)'
  BY <1>0, <1>1, BaseOwn, NameOwn, CopyOwn
<1>4. \A q \in Builds \ {b} : BaseInv(q)' /\ NameInv(q)' /\ CopyInv(q)'
  BY <1>0, BaseOther, NameCopyOther
<1>5. \A q \in Builds : TagInv(q)'
  BY <1>0, TagStep
<1> QED
  BY <1>2, <1>3, <1>4, <1>5 DEF IInv

\* The invariant holds at the start.
LEMMA Begin == Init => IInv
<1> SUFFICES ASSUME Init
             PROVE  IInv
  OBVIOUS
<1>1. /\ names = Images0 /\ images = {Images0[n] : n \in DOMAIN Images0}
      /\ pc = [b \in Builds |-> IF file[b] = NoFile THEN "done" ELSE "start"]
      /\ ok = [b \in Builds |-> file[b] # NoFile]
      /\ found = [b \in Builds |-> NoImage] /\ via = [b \in Builds |-> <<>>] /\ conf = [b \in Builds |-> NoImage]
  BY DEF Init, Each
<1>2. Shape
  BY DEF Init, Each, Shape
<1>3. Layered(NoImage)
  <2>1. IsSequence(<<>>)
    BY SMT DEF IsSequence
  <2> QED
    BY <2>1 DEF Layered, LayersOf
<1>4. ImagesInv
  BY <1>1, <1>3, ImagesAssumption DEF ImagesInv
<1>5. ASSUME NEW b \in Builds
      PROVE  BaseInv(b) /\ NameInv(b) /\ CopyInv(b) /\ TagInv(b)
  <2>1. /\ pc[b] \in {"start", "done"} /\ (pc[b] = "done" <=> ~ok[b])
        /\ via[b] = <<>> /\ conf[b] = found[b]
    BY <1>1
  <2> QED
    BY <2>1 DEF BaseInv, NameInv, CopyInv, TagInv, Committed, OnContainer, Over
<1> QED
  BY <1>2, <1>4, <1>5 DEF IInv

\* The inductive invariant of builds of one stage.
THEOREM Invariance == Spec => []IInv
<1>1. IInv /\ [Next]_vars => IInv'
  <2> SUFFICES ASSUME IInv, [Next]_vars
               PROVE  IInv'
    OBVIOUS
  <2>1. CASE \E b \in Builds : Build(b)
    <3>1. Shape'
      BY <2>1, ShapeStep DEF IInv, Next
    <3> QED
      BY <2>1, <3>1, BuildStep
  <2>2. CASE \E n \in DOMAIN names : OtherRequest(n) /\ UNCHANGED <<commitVars, stageVars>>
    BY <2>2, OtherStep
  <2>3. CASE UNCHANGED vars
    <3>1. Shape' /\ ImagesInv'
      BY <2>3 DEF vars, IInv, Shape, ImagesInv
    <3>2. ASSUME NEW b \in Builds
          PROVE  BaseInv(b)' /\ NameInv(b)' /\ CopyInv(b)' /\ TagInv(b)'
      <4>1. BaseInv(b)' /\ NameInv(b)'
        BY <2>3 DEF vars, IInv, BaseInv, NameInv
      <4>2. CopyInv(b)'
        BY <2>3 DEF vars, IInv, CopyInv, Layers, Committed
      <4>3. TagInv(b)'
        BY <2>3 DEF vars, IInv, TagInv, Kept
      <4> QED
        BY <4>1, <4>2, <4>3
    <3> QED
      BY <3>1, <3>2 DEF IInv
  <2> QED
    BY <2>1, <2>2, <2>3 DEF Next, Finished
<1> QED
  BY Begin, <1>1, PTL DEF Spec

\* BaseCoherent: a container is made on the layers of the image whose configuration was read,
\* unless its name was moved in between, and under a name that the word of FROM can mean,
\* whatever builds and requests run side by side.
THEOREM BaseCoherentCorrect == Spec => []BaseCoherent
<1>1. IInv => BaseCoherent
  <2> SUFFICES ASSUME IInv, NEW b \in Builds, pc[b] \in OnContainer
               PROVE  /\ conf[b] = cont[b] \/ moved[b]
                      /\ via[b] # <<>> /\ word[b] \notin DOMAIN Transported =>
                           via[b] \in Range(IF word[b] \in DOMAIN Qualified THEN <<Qualified[word[b]]>>
                                            ELSE tryResolveNameInRegistries(word[b]))
    BY DEF BaseCoherent, OnContainer
  <2>1. BaseInv(b) /\ NameInv(b)
    BY DEF IInv
  <2>2. word[b] \notin DOMAIN Transported =>
          CandidatesOf(word[b]) = IF word[b] \in DOMAIN Qualified THEN <<Qualified[word[b]]>>
                                  ELSE tryResolveNameInRegistries(word[b])
    BY DEF CandidatesOf
  <2>3. conf[b] = cont[b] \/ moved[b]
    BY <2>1 DEF BaseInv
  <2> QED
    BY <2>1, <2>2, <2>3 DEF NameInv
<1> QED
  BY Invariance, <1>1, PTL

\* CommitComplete: an image is committed with all layers of its base and its own on top, and
\* with one entry of history for each, although a layer that cannot be stored is not noticed
\* until the copy.
THEOREM CommitCompleteCorrect == Spec => []CommitComplete
<1>1. IInv => CommitComplete
  BY DEF IInv, CopyInv, Layers, CommitComplete
<1> QED
  BY Invariance, <1>1, PTL

\* TagsStay: the tag a build gave stays with its image until a pull, another request or
\* another build takes it.
THEOREM TagsStayCorrect == Spec => []TagsStay
<1>1. IInv => TagsStay
  BY DEF IInv, TagInv, Kept, Over, TagsStay
<1> QED
  BY Invariance, <1>1, PTL
=============================================================================
