---------------------------- MODULE LayerCommit ----------------------------
(***************************************************************************)
(* Committing the container of a stage: the container is read as the       *)
(* source of an image, layer by layer, and copied into the store.          *)
(*                                                                         *)
(* A layer is what was done to it, and stands for its digest as well.      *)
(***************************************************************************)
EXTENDS Instructions, ImageResolve

CONSTANTS
    NoDigest,       \* model value: the empty digest
    FixedTime       \* builds with a fixed build time (--build-static)

VARIABLES
    stage,          \* per build: the stage being built: cfg, shell and top
    src,            \* per build: the containerImageSource: layers and blobs
    built           \* per build: the image built

commitVars == <<stage, src, built>>

LayersOf(img) == IF img = NoImage THEN <<>> ELSE img.layers

(* An image has a sequence of layers, as those of the store and of the     *)
(* registry do.                                                            *)
IsSequence(s) == s \in Seq(Range(s))
Layered(img) == IsSequence(LayersOf(img))

ASSUME ImagesAssumption ==
    /\ Registries \in Seq(STRING)
    /\ \A n \in DOMAIN Images0 : Layered(Images0[n])
    /\ \A n \in DOMAIN Remote : Layered(Remote[n])

(* From the root layer up to the container's own.                          *)
getContainerLayers(b) == Append(LayersOf(cont[b]), stage[b].top)

isFromImageExist(b) == cont[b] # NoImage /\ cont[b] \in images

(* A layer that is in the store with the base image is taken by its        *)
(* digest; the top layer, and all layers when there is no base image, are  *)
(* written as blobs.  storeLayer can fail for each of them: the error is   *)
(* dropped and the layer has no digest.                                    *)
saveLayerToStorage(layer, fails) == IF fails THEN NoDigest ELSE layer

analyzeLayer(b, i, fails) ==
    LET ls == getContainerLayers(b)
    IN  IF isFromImageExist(b) /\ i # Len(ls) THEN ls[i]
        ELSE saveLayerToStorage(ls[i], i \in fails)

(* The history of the base image, and of this commit.                      *)
appendHistory(cfg) == [cfg EXCEPT !.history = @ + 1]

(* Any other error, as of a layer that cannot be read, ends the build.     *)
NewImageSource(b) ==
    LET ls == getContainerLayers(b)
        saved == {i \in DOMAIN ls : i = Len(ls) \/ ~isFromImageExist(b)}
    IN  /\ pc[b] = "commit"
        /\ \/ \E fails \in SUBSET saved :
                 /\ appendHistory(stage[b].cfg).history = Len(ls)
                 /\ src' = [src EXCEPT ![b] =
                       [layers |-> [i \in DOMAIN ls |-> analyzeLayer(b, i, fails)],
                        blobs |-> {ls[i] : i \in saved \ fails}]]
                 /\ pc' = [pc EXCEPT ![b] = "copy"]
                 /\ UNCHANGED ok
           \/ Return(b) /\ UNCHANGED src
        /\ UNCHANGED <<names, images, word, cands, found, via, conf, cont, moved, touched, others, stage, built>>

(* Mutant: a layer without a digest is passed over.                        *)
GetBlobAny(b, d) ==
    d = NoDigest \/ d \in src[b].blobs \/ \E img \in images : d \in Range(img.layers)

(* A layer the store has is reused, but not one without a digest; any      *)
(* other is read from the blob directory, where its file must be.          *)
GetBlob(b, d) ==
    /\ d # NoDigest
    /\ d \in src[b].blobs \/ \E img \in images : d \in Range(img.layers)

(* Of a build with a fixed time, the image is determined by its content.   *)
newContainerReference(b) == IF b \in FixedTime THEN "fixed" ELSE b

createConfigsAndManifests(b) ==
    [uid |-> newContainerReference(b), cfg |-> appendHistory(stage[b].cfg),
     layers |-> src[b].layers]

(* cp.Image, GetStoreImage and the removal of the temporary name.  The     *)
(* races of that removal are those of ImageNames.  The copy can always     *)
(* fail.  Close removes the blobs in either case.                          *)
commit(b) ==
    /\ pc[b] = "copy"
    /\ src' = [src EXCEPT ![b] = [layers |-> <<>>, blobs |-> {}]]
    /\ \/ /\ \A i \in DOMAIN src[b].layers : GetBlob(b, src[b].layers[i])
          /\ images' = images \cup {createConfigsAndManifests(b)}
          /\ built' = [built EXCEPT ![b] = createConfigsAndManifests(b)]
          /\ pc' = [pc EXCEPT ![b] = "tag"]
          /\ UNCHANGED ok
       \/ Return(b) /\ UNCHANGED <<images, built>>
    /\ UNCHANGED <<names, word, cands, found, via, conf, cont, moved, touched, others, stage>>
=============================================================================
