---------------------------- MODULE ImageResolve ----------------------------
(***************************************************************************)
(* From the word of FROM to the container of a stage: the local store is   *)
(* asked for the name, then the places the name may mean are tried one by  *)
(* one, in the store and in the registry; the image found is opened for    *)
(* its configuration and a container is made on its layers.  Other         *)
(* requests move and remove names between any two of these steps.          *)
(*                                                                         *)
(* A name in the store is <<host, name>>; the host is "" for a name that   *)
(* has none, which is what a build gives to its images.                    *)
(***************************************************************************)
EXTENDS Integers, Sequences, FiniteSets, TLC

CONSTANTS
    Builds,         \* builds in progress
    NoImage,        \* model value: no image, the base of FROM scratch
    NoContainer,    \* model value: the build has no container
    Registries,     \* search registries that are not blocked, in order
    Qualified,      \* from words with a host to the name in the store
    Transported,    \* from words that begin with "docker:" to the rest
    Remote,         \* from names in the store to the images of the registry
    Images0         \* from names in the store to images, at the beginning

VARIABLES
    names,          \* from the names in use to images
    images,         \* the images in the store
    pc,             \* per build: the next step
    word,           \* per build: the base image FROM asks for
    cands,          \* per build: the candidates left to try
    found,          \* per build: the image found, its storage.Image
    via,            \* per build: the name it was found by, <<>> for its ID
    conf,           \* per build: the image whose configuration was read
    cont,           \* per build: the base of its container
    ok,             \* per build: no step has failed
    moved,          \* history, per build: the name changed after the image was found
    touched,        \* history: names that a pull or another request gave or took
    others          \* bound: moves and removals by other requests still to come

InUse(img) == \E b \in Builds : cont[b] = img

(* store.SetNames: the names go to img, and img has no other.              *)
SetNames(img, ns) ==
    [n \in {m \in DOMAIN names : names[m] # img} \cup ns |->
        IF n \in ns THEN img ELSE names[n]]

(* An error return: the build goes to its cleanup.                         *)
Return(b) == pc' = [pc EXCEPT ![b] = "clean"] /\ ok' = [ok EXCEPT ![b] = FALSE]

-----------------------------------------------------------------------------
tryResolveNameInRegistries(w) ==
    [i \in 1..(Len(Registries) + 1) |->
        <<IF i = 1 THEN "localhost" ELSE Registries[i - 1], w>>]

(* The candidates of a name the store does not have.                       *)
CandidatesOf(w) ==
    CASE w \in DOMAIN Transported -> <<Transported[w]>>
      [] w \in DOMAIN Qualified   -> <<Qualified[w]>>
      [] OTHER                    -> tryResolveNameInRegistries(w)

(* The name as it is written, in the store.                                *)
StoreName(w) == IF w \in DOMAIN Qualified THEN Qualified[w] ELSE <<"", w>>

ResolveName(b) ==
    LET n == StoreName(word[b])
    IN  /\ pc[b] = "name"
        /\ IF n \in DOMAIN names
           THEN /\ found' = [found EXCEPT ![b] = names[n]]
                /\ pc' = [pc EXCEPT ![b] = "find"]
                /\ UNCHANGED cands
           ELSE /\ cands' = [cands EXCEPT ![b] = CandidatesOf(word[b])]
                /\ pc' = [pc EXCEPT ![b] = "try"]
                /\ UNCHANGED found
        /\ UNCHANGED <<names, images, word, via, conf, cont, ok, moved, touched, others>>

(* The ID that ResolveName returned is looked up again.                    *)
FindImage(b) ==
    /\ pc[b] = "find"
    /\ IF found[b] \in images
       THEN pc' = [pc EXCEPT ![b] = "open"] /\ UNCHANGED ok
       ELSE Return(b)
    /\ UNCHANGED <<names, images, word, cands, found, via, conf, cont, moved, touched, others>>

(* GetStoreImage: the candidate's name is looked up in the store.          *)
TryCandidate(b) ==
    /\ pc[b] = "try"
    /\ cands[b] # <<>>
    /\ via' = [via EXCEPT ![b] = Head(cands[b])]
    /\ IF Head(cands[b]) \in DOMAIN names
       THEN found' = [found EXCEPT ![b] = names[Head(cands[b])]]
            /\ pc' = [pc EXCEPT ![b] = "open"]
       ELSE pc' = [pc EXCEPT ![b] = "pull"] /\ UNCHANGED found
    /\ UNCHANGED <<names, images, word, cands, conf, cont, ok, moved, touched, others>>

NoCandidate(b) ==
    /\ pc[b] = "try"
    /\ cands[b] = <<>>
    /\ Return(b)
    /\ UNCHANGED <<names, images, word, cands, found, via, conf, cont, moved, touched, others>>

(* cp.Image gives the image of the registry the candidate's name.  The     *)
(* copy fails when the registry has no such image, or for any reason of    *)
(* its own; the next candidate is tried.                                   *)
pullImage(b) ==
    /\ pc[b] = "pull"
    /\ \/ /\ via[b] \in DOMAIN Remote
          /\ images' = images \cup {Remote[via[b]]}
          /\ names' = [n \in DOMAIN names \cup {via[b]} |->
                IF n = via[b] THEN Remote[n] ELSE names[n]]
          /\ moved' = [c \in Builds |-> moved[c] \/ (c # b /\ via[c] = via[b] /\ pc[c] = "open")]
          /\ touched' = touched \cup {via[b]}
          /\ pc' = [pc EXCEPT ![b] = "pulled"]
          /\ UNCHANGED cands
       \/ /\ pc' = [pc EXCEPT ![b] = "try"]
          /\ cands' = [cands EXCEPT ![b] = Tail(@)]
          /\ UNCHANGED <<names, images, moved, touched>>
    /\ UNCHANGED <<word, found, via, conf, cont, ok, others>>

(* GetStoreImage again: the name may be gone already.                      *)
GetPulledImage(b) ==
    /\ pc[b] = "pulled"
    /\ IF via[b] \in DOMAIN names
       THEN /\ found' = [found EXCEPT ![b] = names[via[b]]]
            /\ pc' = [pc EXCEPT ![b] = "open"]
            /\ UNCHANGED cands
       ELSE /\ pc' = [pc EXCEPT ![b] = "try"]
            /\ cands' = [cands EXCEPT ![b] = Tail(@)]
            /\ UNCHANGED found
    /\ UNCHANGED <<names, images, word, via, conf, cont, ok, moved, touched, others>>

(* Mutant: an image that was found by its ID is opened by its name.        *)
instantiatingImageByName(b) ==
    LET n == IF via[b] = <<>> THEN StoreName(word[b]) ELSE via[b]
    IN  /\ pc[b] = "open"
        /\ IF n \in DOMAIN names
           THEN /\ conf' = [conf EXCEPT ![b] = names[n]]
                /\ pc' = [pc EXCEPT ![b] = "layer"]
                /\ UNCHANGED ok
           ELSE Return(b) /\ UNCHANGED conf
        /\ UNCHANGED <<names, images, word, cands, found, via, cont, moved, touched, others>>

(* The reference is resolved once more, by name when it was found by name. *)
instantiatingImage(b) ==
    LET img == IF via[b] = <<>> THEN found[b]
               ELSE IF via[b] \in DOMAIN names THEN names[via[b]] ELSE NoImage
    IN  /\ pc[b] = "open"
        /\ IF img \in images
           THEN /\ conf' = [conf EXCEPT ![b] = img]
                /\ pc' = [pc EXCEPT ![b] = "layer"]
                /\ UNCHANGED ok
           ELSE Return(b) /\ UNCHANGED conf
        /\ UNCHANGED <<names, images, word, cands, found, via, cont, moved, touched, others>>

(* The container of an image that is gone cannot be made.  A container     *)
(* that cannot be mounted is deleted again.                                *)
GetRWLayerByImageID(b) ==
    /\ pc[b] = "layer"
    /\ \/ /\ found[b] \in images \cup {NoImage}
          /\ cont' = [cont EXCEPT ![b] = found[b]]
          /\ pc' = [pc EXCEPT ![b] = "spec"]
          /\ UNCHANGED ok
       \/ Return(b) /\ UNCHANGED cont
    /\ UNCHANGED <<names, images, word, cands, found, via, conf, moved, touched, others>>

-----------------------------------------------------------------------------
(* A tag request moves a name to another image, or a removal takes it away *)
(* together with an image that has no other name and no container.         *)
OtherRequest(n) ==
    /\ others > 0
    /\ n \in DOMAIN names
    /\ \/ \E img \in images \ {names[n]} :
             names' = [names EXCEPT ![n] = img] /\ UNCHANGED images
       \/ LET img == names[n]
              last == \A m \in DOMAIN names : names[m] = img => m = n
          IN  /\ last => ~InUse(img)
              /\ names' = [m \in (DOMAIN names) \ {n} |-> names[m]]
              /\ images' = IF last THEN images \ {img} ELSE images
    /\ others' = others - 1
    /\ touched' = touched \cup {n}
    /\ moved' = [b \in Builds |-> moved[b] \/ (via[b] = n /\ pc[b] = "open")]
    /\ UNCHANGED <<pc, word, cands, found, via, conf, cont, ok>>

ResolveNext(b) ==
    \/ ResolveName(b) \/ FindImage(b) \/ TryCandidate(b) \/ NoCandidate(b)
    \/ pullImage(b) \/ GetPulledImage(b) \/ instantiatingImage(b) \/ GetRWLayerByImageID(b)
=============================================================================
