------------------------------ MODULE Separator ------------------------------
(***************************************************************************)
(* Saving images in parts and loading them back (ctr-img save -b/-l/-d,    *)
(* ctr-img load -d).  A save exports the images into one docker archive,   *)
(* unpacks it, splits the layers of every image into base, lib and app,    *)
(* packs each part into a tarball of the destination directory, sharing    *)
(* the base and lib tarballs, and writes a manifest with the checksum of   *)
(* every tarball.  A load puts the three tarballs of a name together.      *)
(*                                                                         *)
(* A layer is its diff ID, an image the sequence of its layers.  A name is *)
(* <<prefix, last element, tag>>, an empty tag is no tag.  A path in a     *)
(* destination is <<directory, file>>; the directory itself is             *)
(* <<directory, NoTar>>.  A checksum stands for what it was taken of.      *)
(***************************************************************************)
EXTENDS Naturals, Sequences, FiniteSets, SequencesExt

CONSTANTS
  Savers, Loaders,   \* requests
  SaveReqs,          \* of each saver: [images, base, lib, dest, rename]
  LoadReqs,          \* [app, dir, base, lib, skip]
  Images,            \* the layers of an image ID
  InitNames,         \* the image of a name in the store
  Moves,             \* <<name, image>>: names that others move meanwhile
  NameOrder,         \* the tagged names in the order of sort.Strings
  Dests,             \* destination directories
  NoName, NoTar, NoImage, NoPath, NoConf, Absent

VARIABLES
  names,    \* names in the store
  save,     \* the saves
  load,     \* the loads
  dest,     \* content of a directory: tarballs and manifest, or Absent
  tmp,      \* requests with a directory under the data root
  meant,    \* <<directory, name, image>> of finished saves (history)
  moved,    \* saves during which a name of the store was moved (history)
  lost      \* saves that ignored a failed rename (history)

vars == <<names, save, load, dest, tmp, meant, moved, lost>>

Empty == [x \in {} |-> x]
Put(f, x, v) == [y \in DOMAIN f \cup {x} |-> IF y = x THEN v ELSE f[y]]
SHA256Sum(c) == [sum |-> c]

-----------------------------------------------------------------------------
(* Names. *)

Tagged(n) == IF n[3] = "" THEN <<n[1], n[2], "latest">> ELSE n

(* name:latest is tried first; a name with a tag cannot have a second one. *)
tryResolveNameInStore(n) ==
  IF n \in DOMAIN Images THEN n
  ELSE IF Tagged(n) \in DOMAIN names THEN names[Tagged(n)] ELSE NoImage

FindImage(n) == tryResolveNameInStore(n)

(* The prefix of the repository is dropped. *)
processTarName(n, part) == <<n[2], n[3], part>>

getRename(rename, tar) == IF tar \in DOMAIN rename THEN rename[tar] ELSE tar

TarNameOf(req, n, part) == getRename(req.rename, processTarName(n, part))

-----------------------------------------------------------------------------
(* The archive.  A directory of it stands for a layer with all those below *)
(* it, and for the image when it is the top one; it links to a file that   *)
(* every directory with the same diff ID links to.                         *)

LayerDir(id, i) ==
  [chain |-> SubSeq(Images[id], 1, i), conf |-> IF i = Len(Images[id]) THEN id ELSE NoConf]

ArchiveDirs(final) ==
  UNION {{LayerDir(final[k].id, i) : i \in DOMAIN Images[final[k].id]} : k \in DOMAIN final}

Top(chain) == chain[Len(chain)]

(* The file is renamed into the directory, so it must still be there. *)
constructLayerMap(dirs) ==
  \A d, e \in dirs : d # e => Top(d.chain) # Top(e.chain)

(* The layers of an image in the adjusted manifest. *)
adjustLayers(id, dirs) ==
  [i \in DOMAIN Images[id] |-> CHOOSE d \in dirs : Top(d.chain) = Images[id][i]]

(* The tags of each image, in the order in which images are first named. *)
filterImageName(imgs) ==
  LET Add(f, n) ==
        LET id == FindImage(n)
            at == {k \in DOMAIN f : f[k].id = id}
        IN  IF at = {} THEN Append(f, [id |-> id, tags |-> <<Tagged(n)>>])
            ELSE [k \in DOMAIN f |->
                    IF k \in at /\ Tagged(n) \notin ToSet(f[k].tags)
                    THEN [f[k] EXCEPT !.tags = Append(@, Tagged(n))] ELSE f[k]]
  IN  FoldLeft(Add, <<>>, imgs)

getLayerHashFromStorage(n) == IF n = NoName THEN <<>> ELSE Images[FindImage(n)]

(* The layers of lib and base have to be among those of the image, not     *)
(* necessarily at its bottom.                                              *)
checkLayersHash(id, req) ==
  LET Hash(n) == getLayerHashFromStorage(n)
  IN  /\ \A n \in {req.base, req.lib} \ {NoName} : FindImage(n) # NoImage
      /\ Len(Hash(req.base)) <= 1
      /\ Len(Hash(req.base)) < Len(Images[id])
      /\ Len(Hash(req.lib)) < Len(Images[id])
      /\ ToSet(Hash(req.lib)) \cup ToSet(Hash(req.base)) \subseteq ToSet(Images[id])

constructSingleImgInfo(item, req, dirs) ==
  LET b == Len(getLayerHashFromStorage(req.base))
      l == Len(getLayerHashFromStorage(req.lib))
      all == adjustLayers(item.id, dirs)
      cut == IF l # 0 THEN l ELSE b
  IN  [id |-> item.id, tags |-> item.tags,
       base |-> SubSeq(all, 1, b), lib |-> SubSeq(all, b + 1, cut),
       app |-> SubSeq(all, cut + 1, Len(all))]

-----------------------------------------------------------------------------
(* Packing. *)

PackFiles(layers, conf) == [layers |-> layers, conf |-> conf]

(* Mutant: the directory of the part is emptied after each layer. *)
PackPartOneLayer(layers, tar, packedIn, tars) ==
  LET Step(a, d) ==
        LET fresh == d \notin DOMAIN a.packedIn
            moves == IF fresh THEN {d} ELSE {}
            name == IF fresh THEN tar ELSE a.packedIn[d]
            now == IF fresh THEN Put(a.tars, tar, PackFiles(moves, NoConf)) ELSE a.tars
        IN  [moves |-> a.moves \cup moves, tars |-> now, name |-> name, sum |-> SHA256Sum(now[name]),
             packedIn |-> Put(a.packedIn, d, name)]
  IN  FoldLeft(Step, [moves |-> {}, tars |-> tars, name |-> NoTar, sum |-> NoConf,
                      packedIn |-> packedIn], layers)

(* The loop of processBaseImg and of processLibImg: a layer that is not in *)
(* a tarball yet is moved to the directory of the part, which is packed    *)
(* again; the tarball of the last layer is the one recorded.               *)
PackPart(layers, tar, packedIn, tars) ==
  LET Step(a, d) ==
        LET fresh == d \notin DOMAIN a.packedIn
            moves == IF fresh THEN a.moves \cup {d} ELSE a.moves
            name == IF fresh THEN tar ELSE a.packedIn[d]
            now == IF fresh THEN Put(a.tars, tar, PackFiles(moves, NoConf)) ELSE a.tars
        IN  [moves |-> moves, tars |-> now, name |-> name, sum |-> SHA256Sum(now[name]),
             packedIn |-> Put(a.packedIn, d, name)]
  IN  FoldLeft(Step, [moves |-> {}, tars |-> tars, name |-> NoTar, sum |-> NoConf,
                      packedIn |-> packedIn], layers)

(* processAppImg: the layers that are left go into the app tarball along   *)
(* with the manifest, the repositories and the config of the image.        *)
AppContent(info, there) ==
  PackFiles(ToSet(info.app) \cap there,
            [id |-> info.id, tags |-> info.tags, layers |-> info.base \o info.lib \o info.app])

-----------------------------------------------------------------------------
NewSave == [pc |-> "idle", req |-> NoName, final |-> <<>>, dirs |-> {}, next |-> 1, infos |-> Empty,
            inBase |-> Empty, inLib |-> Empty, inApp |-> {}, done |-> Empty]
NewLoad == [pc |-> "idle", req |-> NoName, info |-> NoConf, content |-> NoConf, got |-> NoImage]
NewDir == [tars |-> Empty, man |-> Empty]

Init ==
  /\ names = InitNames
  /\ save = [s \in Savers |-> NewSave]
  /\ load = [l \in Loaders |-> NewLoad]
  /\ dest = [d \in Dests |-> Absent]
  /\ tmp = {}
  /\ meant = {}
  /\ moved = {}
  /\ lost = {}

SaveAt(s, pc) == save[s].pc = pc
SaveTo(s, pc) == save' = [save EXCEPT ![s].pc = pc]
Running(s) == save[s].pc \notin {"idle", "refused", "failed", "ok"}

(* The command's checks: a base, a lib that differs, a new directory. *)
checkSaveOpts(r) == r.base # NoName /\ r.lib # r.base /\ dest[r.dest] = Absent

StartSave(s) ==
  /\ SaveAt(s, "idle")
  /\ \E r \in SaveReqs[s] :
       save' = [save EXCEPT ![s].req = r, ![s].pc = IF checkSaveOpts(r) THEN "sent" ELSE "refused"]
  /\ UNCHANGED <<names, load, dest, tmp, meant, moved, lost>>

(* All names are there and none is an ID; the images are put in order, and *)
(* the rename file, if any, is read.                                       *)
manage(s) ==
  /\ SaveAt(s, "sent")
  /\ LET r == save[s].req
         asked == ToSet(r.images) \cup ({r.base, r.lib} \ {NoName})
     IN  IF \A n \in asked : FindImage(n) # NoImage /\ n \notin DOMAIN Images
         THEN \/ save' = [save EXCEPT ![s].pc = "managed", ![s].final = filterImageName(r.images)]
              \/ r.rename # Empty /\ SaveTo(s, "refused")
         ELSE SaveTo(s, "refused")
  /\ UNCHANGED <<names, load, dest, tmp, meant, moved, lost>>

(* The archive of all images is written below the data root.  When that    *)
(* fails, only the archive itself is removed.                              *)
exportHandler(s) ==
  /\ SaveAt(s, "managed")
  /\ \/ SaveTo(s, "exported") /\ tmp' = tmp \cup {s}
     \/ SaveTo(s, "failed") /\ tmp' \in {tmp, tmp \cup {s}}
  /\ UNCHANGED <<names, load, dest, meant, moved, lost>>

(* Mutant: the directory is kept. *)
AbandonKeepsDest(s) ==
  /\ SaveTo(s, "failed")
  /\ tmp' = tmp \ {s}
  /\ UNCHANGED <<names, load, dest, meant, moved, lost>>

(* The deferred function of SeparateImage after an error. *)
Abandon(s) ==
  /\ SaveTo(s, "failed")
  /\ dest' = [dest EXCEPT ![save[s].req.dest] = Absent]
  /\ tmp' = tmp \ {s}
  /\ UNCHANGED <<names, load, meant, moved, lost>>

(* The destination cannot be made: nothing is deferred yet. *)
NoDestination(s) ==
  /\ SaveAt(s, "exported")
  /\ SaveTo(s, "failed")
  /\ UNCHANGED <<names, load, dest, tmp, meant, moved, lost>>

UnpackArchive(s) ==
  /\ SaveAt(s, "exported")
  /\ LET dirs == ArchiveDirs(save[s].final)
     IN  \/ /\ constructLayerMap(dirs)
            /\ save' = [save EXCEPT ![s].pc = "unpacked", ![s].dirs = dirs]
            /\ dest' = [dest EXCEPT ![save[s].req.dest] = IF @ = Absent THEN NewDir ELSE @]
            /\ UNCHANGED <<names, load, tmp, meant, moved, lost>>
         \/ ~constructLayerMap(dirs) /\ Abandon(s)

(* One image of the archive's manifest; base and lib are looked up each    *)
(* time.  Images are kept by their first tag.                              *)
constructImageInfos(s) ==
  /\ SaveAt(s, "unpacked")
  /\ LET v == save[s]
         item == v.final[v.next]
         n == item.tags[1]
     IN  IF checkLayersHash(item.id, v.req)
         THEN /\ save' = [save EXCEPT ![s].next = @ + 1,
                            ![s].pc = IF v.next = Len(v.final) THEN "packing" ELSE @,
                            ![s].infos = IF n \in DOMAIN @ THEN @
                                         ELSE Put(@, n, constructSingleImgInfo(item, v.req, v.dirs))]
              /\ UNCHANGED <<names, load, dest, tmp, meant, moved, lost>>
         ELSE Abandon(s)

(* One round of processImageLayers.  A rename of an app layer that fails   *)
(* is an error only if the layer is in an earlier app tarball.             *)
processImageLayers(s) ==
  /\ SaveAt(s, "packing")
  /\ LET v == save[s]
         r == v.req
         n == SelectSeq(NameOrder, LAMBDA x : x \in DOMAIN v.infos \ DOMAIN v.done)[1]
         info == v.infos[n]
         base == PackPart(info.base, TarNameOf(r, n, "base"), v.inBase, dest[r.dest].tars)
         lib == PackPart(info.lib, TarNameOf(r, n, "lib"), v.inLib, base.tars)
         left == v.dirs \ (base.moves \cup lib.moves)
         appTar == TarNameOf(r, n, "app")
     IN  /\ DOMAIN v.infos # DOMAIN v.done
         /\ IF dest[r.dest] = Absent \/ (ToSet(info.app) \ left) \cap v.inApp # {}
            THEN Abandon(s)
            ELSE \E miss \in {{}} \cup {{d} : d \in ToSet(info.app) \cap left} :
                   LET app == AppContent(info, left \ miss)
                   IN  /\ dest' = [dest EXCEPT ![r.dest].tars = Put(lib.tars, appTar, app)]
                       /\ save' = [save EXCEPT ![s].dirs = left \ app.layers,
                             ![s].inBase = base.packedIn, ![s].inLib = lib.packedIn,
                             ![s].inApp = @ \cup ToSet(info.app),
                             ![s].done = Put(@, n,
                               [base |-> base.name, baseHash |-> base.sum,
                                lib |-> lib.name, libHash |-> lib.sum,
                                app |-> appTar, appHash |-> SHA256Sum(app)])]
                       /\ lost' = IF miss = {} THEN lost ELSE lost \cup {s}
                       /\ UNCHANGED <<names, load, tmp, meant, moved>>

WriteManifest(s) ==
  /\ SaveAt(s, "packing")
  /\ LET v == save[s]
         d == v.req.dest
     IN  /\ DOMAIN v.infos = DOMAIN v.done
         /\ IF dest[d] = Absent THEN Abandon(s)
            ELSE /\ dest' = [dest EXCEPT ![d].man = v.done]
                 /\ meant' = meant \cup {<<d, n, v.infos[n].id>> : n \in DOMAIN v.done}
                 /\ SaveTo(s, "ok")
                 /\ tmp' = tmp \ {s}
                 /\ UNCHANGED <<names, load, moved, lost>>

(* Any file operation of the separation may fail. *)
SeparationFails(s) == save[s].pc \in {"exported", "unpacked", "packing"} /\ Abandon(s)

(* Others move a name of the store while the daemon saves. *)
MoveName ==
  /\ \E m \in Moves : names[m[1]] # m[2] /\ names' = Put(names, m[1], m[2])
  /\ moved' = moved \cup {s \in Savers : Running(s)}
  /\ UNCHANGED <<save, load, dest, tmp, meant, lost>>

-----------------------------------------------------------------------------
(* Loading. *)

Exists(path) == dest[path[1]] # Absent /\ path[2] \in DOMAIN dest[path[1]].tars
FileAt(path) == dest[path[1]].tars[path[2]]
UnpackFile(path) == FileAt(path)

(* A directory is not a tarball, and its checksum is not an empty one. *)
CheckSum(path, hash) == Exists(path) /\ SHA256Sum(FileAt(path)) = hash

joinPath(given, dir, tar) == IF given # NoPath THEN given ELSE <<dir, tar>>

(* The paths of the base, lib and app tarballs. *)
constructLayerPath(r, i) ==
  <<joinPath(r.base, r.dir, i.base), joinPath(r.lib, r.dir, i.lib), <<r.dir, i.app>>>>

(* Mutant: the app tarball is not checked. *)
tarballCheckSumNoApp(r, i) ==
  LET p == constructLayerPath(r, i)
  IN  r.skip \/ (CheckSum(p[1], i.baseHash) /\ CheckSum(p[2], i.libHash))

(* Unless it is skipped, all three must match. *)
tarballCheckSum(r, i) ==
  LET p == constructLayerPath(r, i)
  IN  r.skip \/ (CheckSum(p[1], i.baseHash) /\ CheckSum(p[2], i.libHash) /\ CheckSum(p[3], i.appHash))

LoadAt(l, pc) == load[l].pc = pc
LoadFails(l) ==
  /\ load' = [load EXCEPT ![l].pc = "failed"]
  /\ tmp' = tmp \ {l}
  /\ UNCHANGED <<names, save, dest, meant, moved, lost>>

(* The command's checks. *)
checkLoadOpts(r) ==
  /\ r.app \notin DOMAIN Images
  /\ r.base # NoPath => r.base # r.lib /\ Exists(r.base)
  /\ r.lib # NoPath => Exists(r.lib)
  /\ dest[r.dir] # Absent

(* The name, with its tag, has a base and an app tarball in the manifest. *)
getTarballInfo(l) ==
  /\ LoadAt(l, "idle")
  /\ \E r \in LoadReqs :
       LET n == Tagged(r.app)
           known == checkLoadOpts(r) /\ n \in DOMAIN dest[r.dir].man /\ dest[r.dir].man[n].base # NoTar
       IN  load' = [load EXCEPT ![l].req = r, ![l].pc = IF known THEN "checking" ELSE "failed",
                                ![l].info = IF known THEN dest[r.dir].man[n] ELSE NoConf]
  /\ UNCHANGED <<names, save, dest, tmp, meant, moved, lost>>

CheckTarballs(l) ==
  /\ LoadAt(l, "checking")
  /\ IF tarballCheckSum(load[l].req, load[l].info)
     THEN /\ load' = [load EXCEPT ![l].pc = "unpacking"]
          /\ UNCHANGED <<names, save, dest, tmp, meant, moved, lost>>
     ELSE LoadFails(l)

(* What is unpacked: layers of two tarballs may not meet, and the manifest *)
(* of a later one replaces that of an earlier one.                         *)
reconstructImage(base, lib, app) ==
  [layers |-> base.layers \cup lib.layers \cup app.layers,
   conf |-> CHOOSE c \in {base.conf, lib.conf, app.conf} :
              \/ c = lib.conf /\ c # NoConf
              \/ c = app.conf /\ lib.conf = NoConf]

Disjoint(base, lib, app) ==
  base.layers \cap (app.layers \cup lib.layers) = {} /\ app.layers \cap lib.layers = {}

unpackTarballs(l) ==
  /\ LoadAt(l, "unpacking")
  /\ LET p == constructLayerPath(load[l].req, load[l].info)
     IN  IF /\ \A k \in 1 .. 3 : Exists(p[k])
            /\ Disjoint(UnpackFile(p[1]), UnpackFile(p[2]), UnpackFile(p[3]))
         THEN /\ load' = [load EXCEPT ![l].pc = "unpacked",
                    ![l].content = reconstructImage(UnpackFile(p[1]), UnpackFile(p[2]), UnpackFile(p[3]))]
              /\ tmp' = tmp \cup {l}
              /\ UNCHANGED <<names, save, dest, meant, moved, lost>>
         ELSE LoadFails(l)

(* The archive is read: its manifest must name an image whose layers are   *)
(* all there.                                                              *)
checkManifestIsValid(c) == ToSet(c.conf.layers) \subseteq c.layers
tryToParseImageFormatFromTarball(c) == c.conf # NoConf /\ checkManifestIsValid(c)

(* The image is stored under its config's ID and gets its tags. *)
RegisterImage(l) ==
  /\ LoadAt(l, "unpacked")
  /\ LET c == load[l].content
     IN  IF tryToParseImageFormatFromTarball(c)
         THEN /\ load' = [load EXCEPT ![l].pc = "ok", ![l].got = c.conf.id]
              /\ names' = [n \in DOMAIN names \cup ToSet(c.conf.tags) |->
                             IF n \in ToSet(c.conf.tags) THEN c.conf.id ELSE names[n]]
              /\ moved' = moved \cup {s \in Savers : Running(s)}
              /\ tmp' = tmp \ {l}
              /\ UNCHANGED <<save, dest, meant, lost>>
         ELSE LoadFails(l)

Next ==
  \/ \E s \in Savers : \/ StartSave(s) \/ manage(s) \/ exportHandler(s) \/ NoDestination(s)
                       \/ UnpackArchive(s) \/ constructImageInfos(s) \/ processImageLayers(s)
                       \/ WriteManifest(s) \/ SeparationFails(s)
  \/ \E l \in Loaders : getTarballInfo(l) \/ CheckTarballs(l) \/ unpackTarballs(l) \/ RegisterImage(l)
  \/ MoveName

Spec == Init /\ [][Next]_vars

-----------------------------------------------------------------------------
(* Two saves were given one directory; the manual forbids it. *)
Shared(d) ==
  \E s, t \in Savers : /\ s # t
                       /\ \A x \in {s, t} : /\ save[x].pc \notin {"idle", "refused"}
                                            /\ save[x].req.dest = d

(* Every tarball of the save has a name of its own. *)
OwnTarNames(s) ==
  LET r == save[s].req
      parts == (DOMAIN save[s].infos) \X {"base", "lib", "app"}
  IN  \A p, q \in parts : TarNameOf(r, p[1], p[2]) = TarNameOf(r, q[1], q[2]) => p = q

(* What loading a name from a directory would give, all checks included. *)
LoadResult(d, n) ==
  LET r == [app |-> n, dir |-> d, base |-> NoPath, lib |-> NoPath, skip |-> FALSE]
      i == dest[d].man[n]
      p == constructLayerPath(r, i)
      c == reconstructImage(UnpackFile(p[1]), UnpackFile(p[2]), UnpackFile(p[3]))
  IN  IF i.base # NoTar /\ tarballCheckSum(r, i) /\ Disjoint(UnpackFile(p[1]), UnpackFile(p[2]), UnpackFile(p[3]))
         /\ tryToParseImageFormatFromTarball(c)
      THEN c.conf.id ELSE NoImage

(* Every image of a save that succeeded can be loaded from its directory,  *)
(* also when it shares its base and lib tarballs with the images packed    *)
(* before it, or its layers lie in another order than those of lib.  The   *)
(* exceptions are the ones the code has: no lib layer to pack              *)
(* (daemon/separator/load.go:130), two tarballs with one name              *)
(* (image_info.go:49), a name of the store that moved between two images   *)
(* of the save, and a failed rename that processAppImg ignored.            *)
SeparatedLoadsBack ==
  \A s \in Savers :
    LET d == save[s].req.dest
    IN  SaveAt(s, "ok") /\ ~Shared(d) /\ s \notin moved \cup lost /\ OwnTarNames(s) =>
          \A k \in DOMAIN save[s].final :
            LET item == save[s].final[k]
            IN  dest[d].man[item.tags[1]].lib # NoTar => LoadResult(d, item.tags[1]) = item.id

(* A load with the checksums on that succeeds gives the image that the     *)
(* save of that name meant, whatever tarballs were overwritten, lost a     *)
(* layer or were given by path.                                            *)
CheckedLoadExact ==
  \A l \in Loaders :
    LET r == load[l].req
    IN  LoadAt(l, "ok") /\ ~r.skip /\ ~Shared(r.dir) => <<r.dir, Tagged(r.app), load[l].got>> \in meant

(* A failed separated save leaves neither a directory nor temporary files, *)
(* unless it failed before SeparateImage had deferred its clean-up, and a  *)
(* load never leaves any.                                                  *)
SeparationLeavesNothing ==
  /\ \A s \in Savers : SaveAt(s, "failed") =>
       /\ Shared(save[s].req.dest) \/ dest[save[s].req.dest] = Absent
       /\ s \in tmp => save[s].dirs = {}
  /\ \A s \in Savers : save[s].pc \in {"ok", "refused"} => s \notin tmp
  /\ \A l \in Loaders : load[l].pc \in {"ok", "failed"} => l \notin tmp

=============================================================================
