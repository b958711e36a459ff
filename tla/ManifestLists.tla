---------------------------- MODULE ManifestLists ----------------------------
(***************************************************************************)
(* Manifest lists.  A list is an image of the local store with two pieces  *)
(* of data: the manifest (man), which gives a platform for each digest,    *)
(* and the instances (inst), which give the name each digest was found by. *)
(* Create, Annotate and Inspect are requests, and nothing is locked while  *)
(* one of them runs: the two pieces are read one after the other, changed, *)
(* and written one after the other.                                        *)
(*                                                                         *)
(* An image is its digest.  A list that a request creates has the request  *)
(* for its ID.  Meanwhile other requests remove lists and move the names   *)
(* of images.                                                              *)
(***************************************************************************)
EXTENDS Naturals, Sequences, FiniteSets

CONSTANTS Clients,    \* requests
          Requests,   \* what they may ask for: a set of functions
          InitLocal,  \* names of the images in the store, with their digests
          Remote,     \* the same, in the registry
          InitLists,  \* lists in the store
          Moves,      \* <<name, digest>>: names that move to other images
          Removable,  \* lists that somebody removes
          NoList, NoName, NoData,
          Own         \* the platform an image says it is for

\* An annotation is of one image; the lists in the store were saved whole.
ASSUME ListsAssumption ==
  /\ \A r \in Requests, c \in Clients : r[c].op = "annotate" => r[c].images = <<r[c].images[1]>>
  /\ \A l \in DOMAIN InitLists :
       /\ DOMAIN InitLists[l] = {"name", "man", "inst"}
       /\ DOMAIN InitLists[l].man \subseteq DOMAIN InitLists[l].inst
       /\ IsFiniteSet(DOMAIN InitLists[l].inst)

VARIABLES
  local,    \* names of the images in the store
  lists,    \* lists, by their ID: [name, man, inst]
  req,      \* what a request asks for
  pc,       \* where it is
  id,       \* the list it works on
  mem,      \* the list as it has it in memory, and the digest added last: [man, inst, last]
  todo,     \* images it has still to add
  made,     \* it has created the image of its list
  crashed,  \* the daemon has died
  want,     \* what the lists should say: each request applied to the last one (history)
  stale,    \* the list changed while the request had it in memory (history)
  tainted   \* lists written by such a request, or left half written by a crash (history)

listVars == <<local, lists, req, id, mem, todo, made, want, stale, tainted>>

Put(f, k, v) == [x \in DOMAIN f \cup {k} |-> IF x = k THEN v ELSE f[x]]
Without(f, k) == [x \in DOMAIN f \ {k} |-> f[x]]
Nothing == [x \in {} |-> x]

NewManifestList == [man |-> Nothing, inst |-> Nothing, last |-> NoName]

ListInit ==
  /\ local = InitLocal
  /\ lists = InitLists
  /\ req \in Requests
  /\ pc = [c \in Clients |-> "start"]
  /\ id = [c \in Clients |-> NoList]
  /\ mem = [c \in Clients |-> NewManifestList]
  /\ todo = [c \in Clients |-> <<>>]
  /\ made = [c \in Clients |-> FALSE]
  /\ crashed = FALSE
  /\ want = [l \in DOMAIN InitLists |-> InitLists[l].man]
  /\ stale = [c \in Clients |-> FALSE]
  /\ tainted = {}

At(c, op, place) == ~crashed /\ req[c].op = op /\ pc[c] = place
Go(c, place) == pc' = [pc EXCEPT ![c] = place]
Done(c) == pc[c] \in {"ok", "err"}

\* FindImage, for the name of a list.
FindList(n) ==
  IF \E l \in DOMAIN lists : lists[l].name = n
  THEN CHOOSE l \in DOMAIN lists : lists[l].name = n
  ELSE NoList

\* The list is there, and the piece of data was written.
HasData(l, piece) == l \in DOMAIN lists /\ lists[l][piece] # NoData

-----------------------------------------------------------------------------
(* What a request does to a list.                                          *)

\* addInstance: an entry that is there for the digest is replaced.
addInstance(man, d) == Put(man, d, Own)

\* Mutant: a platform is only set where the image gave none.
UpdateImagePlatformOnce(man, d, platform) ==
  IF platform = Own \/ man[d] # Own THEN man ELSE [e \in DOMAIN man |-> platform]

\* Without a platform in the request, the one of the image stays.
UpdateImagePlatform(man, d, platform) ==
  IF platform = Own THEN man ELSE [man EXCEPT ![d] = platform]

\* Mutant: the instance is recorded with the first image only.
AddImageFirst(l, n, d) ==
  [man |-> addInstance(l.man, d), last |-> d,
   inst |-> IF l.inst # Nothing THEN l.inst ELSE Put(l.inst, d, n)]

\* AddImage: the name an instance was first found by is kept.
AddImage(l, n, d) ==
  [man |-> addInstance(l.man, d), last |-> d,
   inst |-> IF d \in DOMAIN l.inst THEN l.inst ELSE Put(l.inst, d, n)]

\* The image is added, and its platform set.
AddWithPlatform(l, n, d, platform) ==
  [AddImage(l, n, d) EXCEPT !.man = UpdateImagePlatform(@, d, platform)]

\* What the request c makes of a manifest, whatever is in it.
Meant(c, man) ==
  IF req[c].op = "create" THEN mem[c].man
  ELSE Put(man, mem[c].last, req[c].platform)

-----------------------------------------------------------------------------
(* ManifestCreate and ManifestAnnotate.                                    *)

Receive(c, l, place) ==
  /\ id' = [id EXCEPT ![c] = l]
  /\ todo' = [todo EXCEPT ![c] = req[c].images]
  /\ Go(c, place)
  /\ UNCHANGED <<local, lists, req, mem, made, want, stale, tainted>>

Fails(c) == Go(c, "err") /\ UNCHANGED listVars

\* Manifest commands are refused if the daemon is not experimental, or if the command
\* has not the arguments it needs.
RefuseManifest(c) ==
  /\ \E op \in {"create", "annotate", "inspect", "mpush"} : At(c, op, "start")
  /\ Fails(c)

ManifestCreate(c) == At(c, "create", "start") /\ Receive(c, c, "add")

ManifestAnnotate(c) ==
  /\ At(c, "annotate", "start")
  /\ LET l == FindList(req[c].list) IN IF l = NoList THEN Fails(c) ELSE Receive(c, l, "load")

\* LoadListFromImage reads the manifest, then the instances.
LoadManifest(c) ==
  /\ At(c, "annotate", "load")
  /\ IF ~HasData(id[c], "man") THEN Fails(c)
     ELSE /\ mem' = [mem EXCEPT ![c].man = lists[id[c]].man]
          /\ Go(c, "loadInst")
          /\ UNCHANGED <<local, lists, req, id, todo, made, want, stale, tainted>>

LoadInstances(c) ==
  /\ At(c, "annotate", "loadInst")
  /\ IF ~HasData(id[c], "inst") THEN Fails(c)
     ELSE /\ mem' = [mem EXCEPT ![c].inst = lists[id[c]].inst]
          /\ Go(c, "add")
          /\ UNCHANGED <<local, lists, req, id, todo, made, want, stale, tainted>>

\* The next image is found in the store, or pulled, and added; an annotation changes
\* its platform.
AddNext(c) ==
  /\ ~crashed /\ pc[c] = "add" /\ todo[c] # <<>>
  /\ LET n == Head(todo[c]) IN
     IF n \notin DOMAIN local \cup DOMAIN Remote THEN Fails(c)
     ELSE LET d == IF n \in DOMAIN local THEN local[n] ELSE Remote[n] IN
          /\ local' = Put(local, n, d)
          /\ mem' = [mem EXCEPT ![c] = AddWithPlatform(@, n, d, req[c].platform)]
          /\ todo' = [todo EXCEPT ![c] = Tail(@)]
          /\ UNCHANGED <<lists, req, pc, id, made, want, stale, tainted>>

\* SaveListToImage: the image of the list is created; for an annotation it is normally
\* there, and if it was removed it comes back, without a name.
CreateImage(c) ==
  LET name == IF req[c].op = "create" THEN req[c].list ELSE NoName IN
  /\ ~crashed /\ pc[c] = "add" /\ todo[c] = <<>>
  /\ IF id[c] \in DOMAIN lists
     THEN Go(c, "man") /\ UNCHANGED listVars
     ELSE IF FindList(name) # NoList \/ name \in DOMAIN local THEN Fails(c)
     ELSE /\ lists' = Put(lists, id[c], [name |-> name, man |-> NoData, inst |-> NoData])
          /\ made' = [made EXCEPT ![c] = TRUE]
          /\ Go(c, "man")
          /\ UNCHANGED <<local, req, id, mem, todo, want, stale, tainted>>

\* Requests that have the list of c in memory, and are not c.
Holders(c) == {q \in Clients \ {c} : id[q] = id[c] /\ pc[q] \in {"load", "loadInst", "add", "man", "inst"}}

\* c has changed its list.
Touched(c) == stale' = [q \in Clients |-> stale[q] \/ q \in Holders(c)]
Wrote(c) == Touched(c) /\ tainted' = tainted \cup (IF stale[c] THEN {id[c]} ELSE {})

WriteManifest(c) ==
  /\ ~crashed /\ pc[c] = "man" /\ id[c] \in DOMAIN lists
  /\ lists' = [lists EXCEPT ![id[c]].man = mem[c].man]
  /\ want' = Put(want, id[c], Meant(c, IF id[c] \in DOMAIN want THEN want[id[c]] ELSE Nothing))
  /\ Wrote(c)
  /\ Go(c, "inst")
  /\ UNCHANGED <<local, req, id, mem, todo, made>>

WriteInstances(c) ==
  /\ ~crashed /\ pc[c] = "inst" /\ id[c] \in DOMAIN lists
  /\ lists' = [lists EXCEPT ![id[c]].inst = mem[c].inst]
  /\ Wrote(c)
  /\ Go(c, "ok")
  /\ UNCHANGED <<local, req, id, mem, todo, made, want>>

\* A write fails: the image is deleted if the request has created it.  If the image was
\* there before, there is none to delete: the nil pointer ends the daemon.
SaveFails(c) ==
  /\ ~crashed /\ pc[c] \in {"man", "inst"}
  /\ IF made[c]
     THEN /\ lists' = Without(lists, id[c])
          /\ Touched(c)
          /\ Go(c, "err")
          /\ UNCHANGED <<crashed, tainted>>
     ELSE /\ crashed' = TRUE
          /\ tainted' = tainted \cup {id[c]}
          /\ UNCHANGED <<lists, pc, stale>>
  /\ UNCHANGED <<local, req, id, mem, todo, made, want>>

\* ManifestInspect: the manifest is read once the image is found.
ManifestInspect(c) ==
  \/ /\ At(c, "inspect", "start")
     /\ LET l == FindList(req[c].list) IN IF l = NoList THEN Fails(c) ELSE Receive(c, l, "read")
  \/ /\ At(c, "inspect", "read")
     /\ IF ~HasData(id[c], "man") THEN Fails(c)
        ELSE /\ mem' = [mem EXCEPT ![c].man = lists[id[c]].man]
             /\ Go(c, "ok")
             /\ UNCHANGED <<local, lists, req, id, todo, made, want, stale, tainted>>

ListStep(c) ==
  \/ (RefuseManifest(c) \/ ManifestCreate(c) \/ ManifestAnnotate(c) \/ LoadManifest(c) \/ LoadInstances(c)
      \/ AddNext(c) \/ CreateImage(c) \/ WriteManifest(c) \/ WriteInstances(c) \/ ManifestInspect(c))
     /\ UNCHANGED crashed
  \/ SaveFails(c)

\* Another request removes a list, or gives the name of an image to another image.
OtherRequest ==
  /\ ~crashed
  /\ \/ \E l \in Removable \cap DOMAIN lists :
          /\ lists' = Without(lists, l)
          /\ stale' = [q \in Clients |-> stale[q] \/ (id[q] = l /\ ~Done(q))]
          /\ UNCHANGED local
     \/ /\ \E m \in Moves : local' = Put(local, m[1], m[2])
        /\ UNCHANGED <<lists, stale>>
  /\ UNCHANGED <<req, pc, id, mem, todo, made, crashed, want, tainted>>

-----------------------------------------------------------------------------
\* Somebody is between the two writes of a list.
HalfWritten(l) == \E c \in Clients : id[c] = l /\ pc[c] \in {"man", "inst"}

\* Every digest that a list names has an instance, by which a push will find it: the two
\* writes of SaveListToImage agree, unless two requests had the list in memory at the
\* same time or the daemon died while writing it.
ListsComplete ==
  \A l \in DOMAIN lists \ tainted :
    HalfWritten(l) \/ DOMAIN lists[l].man \subseteq DOMAIN lists[l].inst

\* A list says what the requests on it asked for, as if each of them had been done at
\* once, with the same exception: nothing is lost that ManifestAnnotate acknowledged, a
\* digest that is added again takes the new platform, and the others keep theirs.
AnnotationsKept ==
  \A l \in DOMAIN lists \ tainted : lists[l].man # NoData => lists[l].man = want[l]
=============================================================================
