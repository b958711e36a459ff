---------------------------- MODULE ExporterProofs ----------------------------
(***************************************************************************)
(* Proofs about manifest lists and exports, for any number of requests,    *)
(* lists, images and exporters' destinations: first the invariant of the   *)
(* lists, which the steps of ManifestLists keep, then that of the exports. *)
(***************************************************************************)
EXTENDS Exporter, TLAPS

\* A leaf is one for Zenon unless it names another prover.
USE Zenon

ExportOps == {"build", "save", "push", "mpush"}
ListOps == {"create", "annotate"}

\* Every variable that is kept for each request is a function of the requests, and lists
\* and lists in memory have their fields.
ListShape ==
  /\ DOMAIN pc = Clients /\ DOMAIN id = Clients /\ DOMAIN mem = Clients
  /\ DOMAIN todo = Clients /\ DOMAIN made = Clients /\ DOMAIN stale = Clients
  /\ req \in Requests
  /\ \A c \in Clients : DOMAIN mem[c] = {"man", "inst", "last"}
  /\ \A l \in DOMAIN lists : DOMAIN lists[l] = {"name", "man", "inst"}

\* Which requests may be at work on a list.
ListPlace(c) ==
  /\ pc[c] \in {"load", "loadInst"} => req[c].op = "annotate"
  /\ pc[c] \in {"add", "man", "inst"} => req[c].op \in ListOps
  /\ pc[c] = "read" => req[c].op = "inspect"

Holding == {"load", "loadInst", "add", "man", "inst"}

Writing(l) == \E q \in Clients : id[q] = l /\ pc[q] = "inst"

\* A list names a digest without an instance only while somebody is about to write the
\* instances, or when its image was just created.
CompleteInv(l) ==
  l \in DOMAIN lists \ tainted =>
    \/ Writing(l)
    \/ lists[l].man = NoData /\ \E q \in Clients : id[q] = l /\ pc[q] = "man"
    \/ DOMAIN lists[l].man \subseteq DOMAIN lists[l].inst

KeptInv(l) ==
  l \in DOMAIN lists \ tainted /\ lists[l].man # NoData => l \in DOMAIN want /\ lists[l].man = want[l]

\* What a request that nobody interfered with has in memory.
MemInv(c) ==
  LET l == id[c] man == mem[c].man IN
  /\ pc[c] = "start" => mem[c] = NewManifestList
  /\ ~stale[c] /\ pc[c] \in {"loadInst", "inst"} => l \in DOMAIN lists /\ lists[l].man = man
  /\ pc[c] = "loadInst" => man # NoData
  /\ ~stale[c] /\ l \notin tainted /\ pc[c] \in {"add", "man", "inst"} =>
       (\E q \in Clients \ {c} : id[q] = l /\ pc[q] = "inst") \/ DOMAIN man \subseteq DOMAIN mem[c].inst

\* What an annotation that nobody interfered with makes of the list.
MeantInv(c) ==
  req[c].op = "annotate" =>
    /\ pc[c] \in {"load", "loadInst"} => todo[c] = req[c].images
    /\ pc[c] = "add" => todo[c] \in {req[c].images, <<>>}
    /\ ~stale[c] /\ id[c] \notin tainted /\ (pc[c] = "man" \/ (pc[c] = "add" /\ todo[c] = <<>>)) =>
         id[c] \in DOMAIN want /\ mem[c].man = Meant(c, want[id[c]])
    /\ ~stale[c] /\ id[c] \notin tainted /\ pc[c] = "add" /\ todo[c] # <<>> =>
         id[c] \in DOMAIN want /\ mem[c].man = want[id[c]]

ListInv ==
  /\ \A l \in DOMAIN lists : CompleteInv(l) /\ KeptInv(l)
  /\ \A c \in Clients : MemInv(c) /\ MeantInv(c)

-----------------------------------------------------------------------------
\* The shapes of the variables stay.
LEMMA ShapeList ==
  ASSUME ListShape, NEW c \in Clients, ListStep(c)
  PROVE  ListShape'
<1> USE DEF ListShape, Go, listVars, Fails, Receive, Touched, Wrote, Without, Put
<1>1. CASE RefuseManifest(c) \/ ManifestCreate(c) \/ ManifestAnnotate(c)
  BY <1>1 DEF RefuseManifest, ManifestCreate, ManifestAnnotate
<1>2. CASE LoadManifest(c) \/ LoadInstances(c)
  BY <1>2 DEF LoadManifest, LoadInstances
<1>3. CASE AddNext(c)
  BY <1>3, SMT DEF AddNext, AddWithPlatform, AddImage
<1>4. CASE CreateImage(c)
  BY <1>4, SMT DEF CreateImage
<1>5. CASE WriteManifest(c)
  BY <1>5 DEF WriteManifest
<1>6. CASE WriteInstances(c)
  BY <1>6 DEF WriteInstances
<1>7. CASE SaveFails(c)
  BY <1>7, SMT DEF SaveFails
<1>8. CASE ManifestInspect(c)
  BY <1>8 DEF ManifestInspect
<1> QED
  BY <1>1, <1>2, <1>3, <1>4, <1>5, <1>6, <1>7, <1>8 DEF ListStep

\* Where a step on a list takes a request; the others stay where they are.
LEMMA ListMoves ==
  ASSUME ListShape, NEW c \in Clients, ListPlace(c), ListStep(c)
  PROVE  /\ req' = req /\ ListPlace(c)'
         /\ pc[c] \in {"start", "load", "loadInst", "add", "man", "inst", "read"}
         /\ pc'[c] \in {"load", "loadInst", "add", "man", "inst", "read", "ok", "err"}
         /\ req[c].op \in ExportOps => pc'[c] = "err"
         /\ \A q \in Clients \ {c} : /\ pc'[q] = pc[q] /\ id'[q] = id[q]
                                     /\ mem'[q] = mem[q] /\ todo'[q] = todo[q]
<1>0. DOMAIN pc = Clients /\ DOMAIN id = Clients /\ DOMAIN mem = Clients /\ DOMAIN todo = Clients
  BY DEF ListShape
<1> USE <1>0 DEF ListPlace, ExportOps, ListOps, At, Go, Fails, Receive, listVars
<1>1. CASE RefuseManifest(c) \/ ManifestCreate(c) \/ ManifestAnnotate(c)
  BY <1>1 DEF RefuseManifest, ManifestCreate, ManifestAnnotate
<1>2. CASE LoadManifest(c) \/ LoadInstances(c)
  BY <1>2 DEF LoadManifest, LoadInstances
<1>3. CASE AddNext(c)
  BY <1>3 DEF AddNext
<1>4. CASE CreateImage(c)
  BY <1>4 DEF CreateImage
<1>5. CASE WriteManifest(c) \/ WriteInstances(c)
  BY <1>5 DEF WriteManifest, WriteInstances
<1>6. CASE SaveFails(c)
  BY <1>6 DEF SaveFails
<1>7. CASE ManifestInspect(c)
  BY <1>7 DEF ManifestInspect
<1> QED
  BY <1>1, <1>2, <1>3, <1>4, <1>5, <1>6, <1>7 DEF ListStep


\* Who holds no list may move, and is to keep the invariant of lists.
LEMMA ListsKept ==
  ASSUME ListInv, UNCHANGED <<lists, req, id, mem, want, stale, tainted>>,
         \A q \in Clients :
           \/ pc'[q] = pc[q] /\ todo'[q] = todo[q]
           \/ pc[q] \notin Holding /\ pc'[q] \notin Holding /\ pc'[q] # "start"
  PROVE  ListInv'
<1>1. ASSUME NEW l \in DOMAIN lists
      PROVE  CompleteInv(l)' /\ KeptInv(l)'
  BY DEF ListInv, CompleteInv, KeptInv, Writing, Holding
<1>2. ASSUME NEW q \in Clients
      PROVE  MemInv(q)'
  BY DEF ListInv, MemInv, Holding
<1>3. ASSUME NEW q \in Clients
      PROVE  MeantInv(q)'
  BY DEF ListInv, MeantInv, Holding, Meant
<1> QED
  BY <1>1, <1>2, <1>3 DEF ListInv

\* What is left, for a request q that has a list in memory, of a step of another one:
\* if q is not stale after it, its list is as it was, and nobody has finished writing it.
Spared(q) ==
  /\ stale[q] => stale'[q]
  /\ pc[q] \in Holding /\ ~stale'[q] =>
       /\ id[q] \in DOMAIN lists => id[q] \in DOMAIN lists' /\ lists'[id[q]] = lists[id[q]]
       /\ id[q] \in DOMAIN want => id[q] \in DOMAIN want' /\ want'[id[q]] = want[id[q]]
       /\ \A p \in Clients : id[p] = id[q] /\ pc[p] = "inst" => pc'[p] = "inst" /\ id'[p] = id[p]

\* A step of one request spares the lists that another has in memory and nobody else has.
LEMMA OthersSpared ==
  ASSUME ListShape, NEW c \in Clients, ListPlace(c), ListStep(c), NEW q \in Clients \ {c}
  PROVE  Spared(q) /\ tainted \subseteq tainted'
<1>0. /\ DOMAIN pc = Clients /\ DOMAIN id = Clients /\ DOMAIN stale = Clients
      /\ \A p \in Clients \ {c} : pc'[p] = pc[p] /\ id'[p] = id[p]
  BY ListMoves DEF ListShape
<1>1. CASE UNCHANGED <<lists, want, stale, tainted>> /\ pc[c] # "inst"
  BY <1>0, <1>1 DEF Spared
<1>2. CASE CreateImage(c)
  BY <1>0, <1>2, SMT DEF CreateImage, Spared, Fails, listVars, Put
<1>3. ASSUME Touched(c), id' = id,
             \A l \in DOMAIN lists \ {id[c]} : l \in DOMAIN lists' /\ lists'[l] = lists[l],
             \A l \in DOMAIN want \ {id[c]} : l \in DOMAIN want' /\ want'[l] = want[l]
      PROVE  Spared(q)
  <2>1. (stale[q] => stale'[q]) /\ (id[q] = id[c] /\ pc[q] \in Holding => stale'[q])
    BY <1>3 DEF Touched, Holders, Holding
  <2>2. CASE id[q] # id[c]
    BY <1>0, <1>3, <2>1, <2>2 DEF Spared
  <2> QED
    BY <2>1, <2>2 DEF Spared
<1>4. CASE WriteManifest(c) \/ WriteInstances(c)
  <2>1. CASE WriteManifest(c)
    BY <1>3, <2>1 DEF WriteManifest, Wrote, Put
  <2>2. CASE WriteInstances(c)
    BY <1>3, <2>2 DEF WriteInstances, Wrote
  <2> QED
    BY <1>4, <2>1, <2>2
<1>5. CASE SaveFails(c)
  <2>1. CASE made[c]
    BY <1>3, <1>5, <2>1 DEF SaveFails, Without
  <2>2. CASE ~made[c]
    BY <1>5, <2>2 DEF SaveFails, Spared
  <2> QED
    BY <2>1, <2>2
<1>6. CASE RefuseManifest(c) \/ ManifestCreate(c) \/ ManifestAnnotate(c) \/ LoadManifest(c) \/ LoadInstances(c)
           \/ AddNext(c) \/ ManifestInspect(c)
  BY <1>1, <1>6 DEF RefuseManifest, ManifestCreate, ManifestAnnotate, LoadManifest, LoadInstances, AddNext,
                    ManifestInspect, At, Fails, Receive, listVars
<1> QED
  BY <1>2, <1>4, <1>5, <1>6 DEF ListStep

\* So does a removal or a tag by another request.
LEMMA OtherSpares ==
  ASSUME ListShape, OtherRequest, NEW q \in Clients
  PROVE  Spared(q)
BY DEF ListShape, OtherRequest, Spared, Holding, Without, Done

\* A request that is spared keeps its invariants.
LEMMA SparedKeeps ==
  ASSUME NEW q \in Clients, MemInv(q), MeantInv(q), Spared(q), tainted \subseteq tainted', req' = req,
         pc'[q] = pc[q], id'[q] = id[q], mem'[q] = mem[q], todo'[q] = todo[q]
  PROVE  MemInv(q)' /\ MeantInv(q)'
<1>1. MemInv(q)'
  BY DEF MemInv, Spared, Holding
<1>2. MeantInv(q)'
  BY DEF MeantInv, Meant, Spared, Holding
<1> QED
  BY <1>1, <1>2

\* Adding an image and setting its platform does what is meant, and keeps a list complete.
LEMMA AddImageMeant ==
  ASSUME NEW m, NEW n, NEW d, NEW platform
  PROVE  /\ DOMAIN AddWithPlatform(m, n, d, platform) = {"man", "inst", "last"}
         /\ AddWithPlatform(m, n, d, platform).last = d
         /\ AddWithPlatform(m, n, d, platform).man = Put(m.man, d, platform)
         /\ DOMAIN AddWithPlatform(m, n, d, platform).man = DOMAIN m.man \cup {d}
         /\ DOMAIN AddWithPlatform(m, n, d, platform).inst = DOMAIN m.inst \cup {d}
<1> DEFINE l == AddImage(m, n, d)
           e == AddWithPlatform(m, n, d, platform)
<1>1. /\ DOMAIN l = {"man", "inst", "last"} /\ l.last = d /\ l.man = Put(m.man, d, Own)
      /\ l.inst = IF d \in DOMAIN m.inst THEN m.inst ELSE Put(m.inst, d, n)
  BY DEF AddImage, addInstance
<1>2. /\ DOMAIN e = {"man", "inst", "last"} /\ e.last = d /\ e.inst = l.inst
      /\ e.man = UpdateImagePlatform(Put(m.man, d, Own), d, platform)
  BY <1>1 DEF AddWithPlatform
<1>3. UpdateImagePlatform(Put(m.man, d, Own), d, platform) = Put(m.man, d, platform)
  BY DEF UpdateImagePlatform, Put
<1>4. DOMAIN Put(m.man, d, platform) = DOMAIN m.man \cup {d}
  BY DEF Put
<1>5. DOMAIN l.inst = DOMAIN m.inst \cup {d}
  BY <1>1 DEF Put
<1> QED
  BY <1>2, <1>3, <1>4, <1>5

\* A step on a list keeps what the request has in memory.
LEMMA MemStep ==
  ASSUME ListShape, ListInv, NEW c \in Clients, ListPlace(c), ListStep(c)
  PROVE  MemInv(c)'
<1>0. /\ DOMAIN pc = Clients /\ DOMAIN id = Clients /\ DOMAIN mem = Clients /\ DOMAIN stale = Clients
      /\ DOMAIN mem[c] = {"man", "inst", "last"}
      /\ \A l \in DOMAIN lists : DOMAIN lists[l] = {"name", "man", "inst"} /\ CompleteInv(l)
      /\ MemInv(c) /\ pc'[c] # "start"
      /\ \A q \in Clients \ {c} : pc'[q] = pc[q] /\ id'[q] = id[q]
  BY ListMoves DEF ListShape, ListInv
<1>1. CASE pc'[c] \notin {"loadInst", "add", "man", "inst"}
  BY <1>0, <1>1 DEF MemInv
<1>2. CASE ManifestCreate(c)
  BY <1>0, <1>2, SMT DEF ManifestCreate, Receive, Go, At, MemInv, NewManifestList, Nothing
<1>3. CASE LoadManifest(c)
  BY <1>0, <1>1, <1>3, SMT DEF LoadManifest, HasData, Fails, Go, MemInv
<1>4. CASE LoadInstances(c)
  <2>1. CASE ~HasData(id[c], "inst")
    BY <1>0, <1>1, <1>4, <2>1 DEF LoadInstances, Fails, Go
  <2>2. CASE HasData(id[c], "inst")
    <3>1. /\ pc[c] = "loadInst" /\ pc'[c] = "add" /\ id' = id /\ lists' = lists
          /\ stale' = stale /\ tainted' = tainted
          /\ mem'[c].man = mem[c].man /\ mem'[c].inst = lists[id[c]].inst
      BY <1>0, <1>4, <2>2, SMT DEF LoadInstances, Go, At
    <3>2. ASSUME ~stale[c], id[c] \notin tainted
          PROVE  \/ \E q \in Clients \ {c} : id[q] = id[c] /\ pc[q] = "inst"
                 \/ DOMAIN mem[c].man \subseteq DOMAIN lists[id[c]].inst
      BY <1>0, <3>1, <3>2 DEF MemInv, CompleteInv, Writing
    <3> QED
      BY <1>0, <3>1, <3>2 DEF MemInv
  <2> QED
    BY <2>1, <2>2
<1>5. CASE AddNext(c)
  <2>1. CASE Fails(c)
    BY <1>0, <1>1, <2>1 DEF Fails, Go
  <2>2. ASSUME ~Fails(c)
        PROVE  \E d, n : mem'[c] = AddWithPlatform(mem[c], n, d, req[c].platform)
    BY <1>0, <1>5, <2>2, SMT DEF AddNext
  <2>3. ASSUME ~Fails(c)
        PROVE  pc[c] = "add" /\ UNCHANGED <<lists, pc, id, stale, tainted>>
    BY <1>5, <2>3 DEF AddNext
  <2>4. ASSUME ~Fails(c), NEW d, NEW n, mem'[c] = AddWithPlatform(mem[c], n, d, req[c].platform)
        PROVE  MemInv(c)'
    <3>1. DOMAIN mem'[c].man = DOMAIN mem[c].man \cup {d} /\ DOMAIN mem'[c].inst = DOMAIN mem[c].inst \cup {d}
      BY <2>4, AddImageMeant, SMT
    <3> QED
      BY <1>0, <2>3, <2>4, <3>1 DEF MemInv
  <2> QED
    BY <2>1, <2>2, <2>4
<1>6. CASE CreateImage(c)
  BY <1>0, <1>1, <1>6, SMT DEF CreateImage, Fails, Go, listVars, MemInv
<1>7. CASE WriteManifest(c)
  BY <1>0, <1>7, SMT DEF WriteManifest, Wrote, Touched, Holders, Go, MemInv
<1>8. CASE SaveFails(c)
  BY <1>0, <1>1, <1>8 DEF SaveFails, Go, MemInv
<1>9. CASE RefuseManifest(c) \/ ManifestAnnotate(c) \/ WriteInstances(c) \/ ManifestInspect(c)
  BY <1>0, <1>1, <1>9 DEF RefuseManifest, ManifestAnnotate, WriteInstances, ManifestInspect, Fails, Receive, Go
<1> QED
  BY <1>2, <1>3, <1>4, <1>5, <1>6, <1>7, <1>8, <1>9 DEF ListStep

\* An annotation adds its image to what the list should say.
LEMMA MeantStep ==
  ASSUME ListShape, ListInv, NEW c \in Clients, ListPlace(c), ListStep(c)
  PROVE  MeantInv(c)'
<1> SUFFICES ASSUME req[c].op = "annotate"
             PROVE  MeantInv(c)'
  BY ListMoves DEF MeantInv
<1>0. /\ DOMAIN pc = Clients /\ DOMAIN id = Clients /\ DOMAIN mem = Clients /\ DOMAIN todo = Clients
      /\ DOMAIN mem[c] = {"man", "inst", "last"}
      /\ MemInv(c) /\ MeantInv(c) /\ req' = req
      /\ \A l \in DOMAIN lists : KeptInv(l)
  BY ListMoves DEF ListShape, ListInv
<1>1. PICK n : req[c].images = <<n>>
  BY ListsAssumption DEF ListShape
<1>2. CASE pc'[c] \notin {"load", "loadInst", "add", "man"}
  BY <1>0, <1>2 DEF MeantInv
<1>3. CASE ManifestAnnotate(c)
  BY <1>0, <1>2, <1>3 DEF ManifestAnnotate, Fails, Receive, Go, MeantInv
<1>4. CASE LoadManifest(c)
  BY <1>0, <1>2, <1>4 DEF LoadManifest, Fails, Go, At, MeantInv
<1>5. CASE LoadInstances(c)
  <2>1. CASE Fails(c)
    BY <1>0, <1>2, <2>1 DEF Fails, Go
  <2>2. CASE ~Fails(c)
    <3>1. /\ pc[c] = "loadInst" /\ pc'[c] = "add" /\ UNCHANGED <<lists, id, todo, want, stale, tainted>>
          /\ mem'[c].man = mem[c].man
      BY <1>0, <1>5, <2>2, SMT DEF LoadInstances, Go, At
    <3>2. todo[c] = <<n>>
      BY <1>0, <1>1, <3>1 DEF MeantInv
    <3>3. ~stale[c] /\ id[c] \notin tainted => id[c] \in DOMAIN want /\ mem[c].man = want[id[c]]
      BY <1>0, <3>1 DEF MemInv, KeptInv
    <3> QED
      BY <1>0, <1>1, <3>1, <3>2, <3>3, SMT DEF MeantInv
  <2> QED
    BY <2>1, <2>2
<1>6. CASE AddNext(c)
  <2>1. CASE Fails(c)
    BY <1>0, <1>2, <2>1 DEF Fails, Go
  <2>2. CASE ~Fails(c)
    <3>1. /\ pc[c] = "add" /\ todo[c] # <<>> /\ todo'[c] = Tail(todo[c])
          /\ UNCHANGED <<lists, pc, id, want, stale, tainted>>
      BY <1>0, <1>6, <2>2 DEF AddNext
    <3>2. PICK d, k : mem'[c] = AddWithPlatform(mem[c], k, d, req[c].platform)
      BY <1>0, <1>6, <2>2, SMT DEF AddNext
    <3>3. mem'[c].last = d /\ mem'[c].man = Put(mem[c].man, d, req[c].platform)
      BY <3>2, AddImageMeant, SMT
    <3>4. todo[c] = <<n>>
      BY <1>0, <1>1, <3>1 DEF MeantInv
    <3>5. todo'[c] = <<>>
      BY <3>1, <3>4, SMT
    <3> QED
      BY <1>0, <3>1, <3>3, <3>4, <3>5 DEF MeantInv, Meant
  <2> QED
    BY <2>1, <2>2
<1>7. CASE CreateImage(c)
  <2>1. \/ pc'[c] = "err"
        \/ /\ pc[c] = "add" /\ todo[c] = <<>> /\ pc'[c] = "man"
           /\ UNCHANGED <<id, mem, todo, want, stale, tainted>>
    BY <1>0, <1>7 DEF CreateImage, Fails, Go, listVars
  <2>2. CASE pc'[c] # "err"
    BY <1>0, <2>1, <2>2, SMT DEF MeantInv, Meant
  <2> QED
    BY <1>2, <2>2
<1>8. CASE SaveFails(c)
  <2>1. CASE made[c]
    BY <1>0, <1>2, <1>8, <2>1 DEF SaveFails, Go
  <2>2. CASE ~made[c]
    <3>1. /\ UNCHANGED <<pc, id, mem, todo>> /\ pc[c] \in {"man", "inst"}
          /\ id'[c] \in tainted'
      BY <1>8, <2>2 DEF SaveFails
    <3> QED
      BY <1>0, <3>1 DEF MeantInv
  <2> QED
    BY <2>1, <2>2
<1>9. CASE RefuseManifest(c) \/ ManifestCreate(c) \/ WriteManifest(c) \/ WriteInstances(c) \/ ManifestInspect(c)
  BY <1>0, <1>2, <1>9 DEF RefuseManifest, ManifestCreate, WriteManifest, WriteInstances, ManifestInspect,
                          At, Fails, Receive, Go
<1> QED
  BY <1>3, <1>4, <1>5, <1>6, <1>7, <1>8, <1>9 DEF ListStep

\* Lists stay complete, or somebody is about to complete them.
LEMMA CompleteStep ==
  ASSUME ListShape, ListInv, NEW c \in Clients, ListPlace(c), ListStep(c), NEW l \in DOMAIN lists'
  PROVE  CompleteInv(l)'
<1>0. /\ DOMAIN pc = Clients /\ DOMAIN id = Clients /\ DOMAIN mem = Clients
      /\ \A k \in DOMAIN lists : DOMAIN lists[k] = {"name", "man", "inst"} /\ CompleteInv(k)
      /\ MemInv(c)
      /\ \A q \in Clients \ {c} : pc'[q] = pc[q] /\ id'[q] = id[q]
  BY ListMoves DEF ListShape, ListInv
<1>1. CASE lists' = lists /\ tainted' = tainted /\ pc[c] \notin {"man", "inst"}
  BY <1>0, <1>1, SMT DEF CompleteInv, Writing
<1>2. CASE CreateImage(c)
  <2>1. CASE lists' = lists
    BY <1>1, <1>2, <2>1 DEF CreateImage, Fails, listVars
  <2>2. CASE lists' # lists
    BY <1>0, <1>2, <2>2, SMT DEF CreateImage, Fails, listVars, Put, Go, CompleteInv, Writing
  <2> QED
    BY <2>1, <2>2
<1>3. CASE WriteManifest(c)
  BY <1>0, <1>3 DEF WriteManifest, Wrote, Go, CompleteInv, Writing
<1>4. CASE WriteInstances(c)
  <2>1. /\ pc[c] = "inst" /\ id[c] \in DOMAIN lists /\ id' = id /\ DOMAIN lists' = DOMAIN lists
        /\ lists'[id[c]].man = lists[id[c]].man /\ lists'[id[c]].inst = mem[c].inst
        /\ \A k \in DOMAIN lists \ {id[c]} : lists'[k] = lists[k]
        /\ tainted \subseteq tainted' /\ (stale[c] => id[c] \in tainted')
    BY <1>0, <1>4 DEF WriteInstances, Wrote
  <2>2. CASE l = id[c]
    BY <1>0, <2>1, <2>2 DEF MemInv, CompleteInv, Writing
  <2>3. CASE l # id[c]
    BY <1>0, <2>1, <2>3, SMT DEF CompleteInv, Writing
  <2> QED
    BY <2>2, <2>3
<1>5. CASE SaveFails(c)
  BY <1>0, <1>5, SMT DEF SaveFails, Without, Go, CompleteInv, Writing
<1>6. CASE RefuseManifest(c) \/ ManifestCreate(c) \/ ManifestAnnotate(c) \/ LoadManifest(c) \/ LoadInstances(c)
           \/ AddNext(c) \/ ManifestInspect(c)
  BY <1>1, <1>6 DEF RefuseManifest, ManifestCreate, ManifestAnnotate, LoadManifest, LoadInstances, AddNext,
                    ManifestInspect, At, Fails, Receive, listVars
<1> QED
  BY <1>2, <1>3, <1>4, <1>5, <1>6 DEF ListStep

\* Lists say what they should.
LEMMA KeptStep ==
  ASSUME ListShape, ListInv, NEW c \in Clients, ListPlace(c), ListStep(c), NEW l \in DOMAIN lists'
  PROVE  KeptInv(l)'
<1>0. /\ DOMAIN mem = Clients
      /\ \A k \in DOMAIN lists : DOMAIN lists[k] = {"name", "man", "inst"} /\ KeptInv(k)
      /\ MeantInv(c) /\ (pc[c] = "man" => req[c].op \in ListOps)
  BY DEF ListShape, ListInv, ListPlace
<1>1. CASE UNCHANGED <<lists, want, tainted>>
  BY <1>0, <1>1 DEF KeptInv
<1>2. CASE CreateImage(c)
  BY <1>0, <1>1, <1>2, SMT DEF CreateImage, Fails, listVars, Put, KeptInv
<1>3. CASE WriteManifest(c)
  <2>1. /\ pc[c] = "man" /\ id[c] \in DOMAIN lists /\ DOMAIN lists' = DOMAIN lists
        /\ lists'[id[c]].man = mem[c].man
        /\ \A k \in DOMAIN lists \ {id[c]} : lists'[k] = lists[k]
        /\ tainted \subseteq tainted' /\ (stale[c] => id[c] \in tainted')
    BY <1>0, <1>3 DEF WriteManifest, Wrote
  <2>2. /\ DOMAIN want' = DOMAIN want \cup {id[c]}
        /\ \A k \in DOMAIN want \ {id[c]} : want'[k] = want[k]
        /\ want'[id[c]] = Meant(c, IF id[c] \in DOMAIN want THEN want[id[c]] ELSE Nothing)
    BY <1>3 DEF WriteManifest, Put
  <2>3. CASE l = id[c]
    <3>1. CASE req[c].op = "create"
      BY <2>1, <2>2, <2>3, <3>1 DEF Meant, KeptInv
    <3>2. CASE req[c].op = "annotate"
      BY <1>0, <2>1, <2>2, <2>3, <3>2 DEF MeantInv, KeptInv
    <3> QED
      BY <1>0, <2>1, <3>1, <3>2 DEF ListOps
  <2>4. CASE l # id[c]
    BY <1>0, <2>1, <2>2, <2>4 DEF KeptInv
  <2> QED
    BY <2>3, <2>4
<1>4. CASE WriteInstances(c)
  BY <1>0, <1>4 DEF WriteInstances, Wrote, KeptInv
<1>5. CASE SaveFails(c)
  BY <1>0, <1>5 DEF SaveFails, Without, KeptInv
<1>6. CASE RefuseManifest(c) \/ ManifestCreate(c) \/ ManifestAnnotate(c) \/ LoadManifest(c) \/ LoadInstances(c)
           \/ AddNext(c) \/ ManifestInspect(c)
  BY <1>1, <1>6 DEF RefuseManifest, ManifestCreate, ManifestAnnotate, LoadManifest, LoadInstances, AddNext,
                    ManifestInspect, Fails, Receive, listVars
<1> QED
  BY <1>2, <1>3, <1>4, <1>5, <1>6 DEF ListStep

\* A step on a list keeps the invariant of lists.
LEMMA ListsList ==
  ASSUME ListShape, ListInv, NEW c \in Clients, ListPlace(c), ListStep(c)
  PROVE  ListInv'
<1>1. ASSUME NEW q \in Clients \ {c}
      PROVE  MemInv(q)' /\ MeantInv(q)'
  <2>1. /\ MemInv(q) /\ MeantInv(q) /\ Spared(q) /\ tainted \subseteq tainted' /\ req' = req
        /\ pc'[q] = pc[q] /\ id'[q] = id[q] /\ mem'[q] = mem[q] /\ todo'[q] = todo[q]
    BY ListMoves, OthersSpared DEF ListInv
  <2> QED
    BY <2>1, SparedKeeps
<1> QED
  BY <1>1, MemStep, MeantStep, CompleteStep, KeptStep DEF ListInv

\* So does a request that removes a list or moves a name.
LEMMA ListsOther ==
  ASSUME ListShape, ListInv, OtherRequest
  PROVE  ListInv'
<1>0. /\ UNCHANGED <<req, pc, id, mem, todo, want, tainted>>
      /\ lists' = lists \/ \E l \in DOMAIN lists : lists' = Without(lists, l)
  BY DEF OtherRequest
<1>1. ASSUME NEW q \in Clients
      PROVE  MemInv(q)' /\ MeantInv(q)'
  <2>1. MemInv(q) /\ MeantInv(q) /\ Spared(q)
    BY OtherSpares DEF ListInv
  <2> QED
    BY <1>0, <2>1, SparedKeeps
<1>2. ASSUME NEW l \in DOMAIN lists'
      PROVE  CompleteInv(l)' /\ KeptInv(l)'
  <2>1. l \in DOMAIN lists /\ lists'[l] = lists[l] /\ CompleteInv(l) /\ KeptInv(l)
    BY <1>0 DEF Without, ListInv
  <2> QED
    BY <1>0, <2>1 DEF CompleteInv, KeptInv, Writing
<1> QED
  BY <1>1, <1>2 DEF ListInv


\* The lists in the store satisfy it to begin with.
LEMMA ListsBegin ==
  ASSUME ListInit
  PROVE  ListShape /\ ListInv /\ \A c \in Clients : ListPlace(c)
<1>0. /\ lists = InitLists /\ req \in Requests /\ pc = [c \in Clients |-> "start"]
      /\ mem = [c \in Clients |-> NewManifestList] /\ tainted = {}
      /\ want = [l \in DOMAIN InitLists |-> InitLists[l].man]
  BY DEF ListInit
<1>1. ListShape
  BY ListsAssumption DEF ListInit, ListShape, NewManifestList
<1>2. ListInv
  BY <1>0, ListsAssumption DEF ListInv, CompleteInv, KeptInv, MemInv, MeantInv
<1> QED
  BY <1>0, <1>1, <1>2 DEF ListPlace

\* It says that the lists are complete and keep what was asked for.
LEMMA ListsRight ==
  ASSUME ListInv
  PROVE  ListsComplete /\ AnnotationsKept
<1>1. ListsComplete
  BY DEF ListInv, CompleteInv, Writing, ListsComplete, HalfWritten
<1>2. AnnotationsKept
  BY DEF ListInv, KeptInv, AnnotationsKept
<1> QED
  BY <1>1, <1>2

-----------------------------------------------------------------------------
\* Every variable of an export is a function of the requests, and references have their
\* fields.
ExportShape ==
  /\ DOMAIN ref = Clients /\ DOMAIN list = Clients /\ DOMAIN open = Clients
  /\ DOMAIN failed = Clients /\ DOMAIN asked = Clients /\ DOMAIN delivered = Clients
  /\ DOMAIN overwritten = Clients /\ DOMAIN unclosed = Clients
  /\ \A c \in Clients : DOMAIN ref[c] = {"src", "dest"} /\ DOMAIN list[c] = {"man", "sources", "sent"}

Shape == ListShape /\ ExportShape

\* Which requests may be exporting.
ExportPlace(c) ==
  /\ pc[c] \in {"init", "close"} \cup Exporting => req[c].op \in ExportOps
  /\ pc[c] = "source" => req[c].op = "mpush"
  /\ pc[c] = "isulad" => req[c].ex = "isulad" /\ req[c].op # "mpush"

PlaceInv(c) == ListPlace(c) /\ ExportPlace(c)

DestRef(c) == IF req[c].ex = "isulad" THEN [tarOf |-> req[c].dest] ELSE req[c].dest

\* What the exports of a request have copied, the open archive included.
Got(c) == delivered[c] \cup (IF ExportID(c) \in DOMAIN writers THEN writers[ExportID(c)] ELSE {})

\* The image that is being exported is the one of s.
Current(c, s) ==
  /\ asked[c] = Got(c) \cup {<<s, req[c].dest>>}
  /\ Key(c) \in DOMAIN items => items[Key(c)].src.of = s /\ items[Key(c)].dest = DestRef(c)
  /\ pc[c] \in {"copy", "source", "isulad"} => ref[c].src.of = s
  /\ pc[c] \in {"copy", "source", "isulad"} \/ (pc[c] = "src" /\ ref[c].dest # NoRef) => ref[c].dest = DestRef(c)

OwnInv(c) ==
  ~overwritten[c] =>
    /\ Got(c) \subseteq asked[c]
    /\ pc[c] \in Exporting => asked[c] # {}
    /\ pc[c] \in {"dest", "src", "source", "copy", "isulad"} => \E p \in asked[c] : Current(c, p[1])
    /\ ~failed[c] /\ pc[c] \in {"init", "remove", "close"} => asked[c] = Got(c)
    /\ ~failed[c] /\ pc[c] = "close" => asked[c] # {}
    /\ pc[c] = "ok" /\ ~unclosed[c] /\ req[c].op \in ExportOps => delivered[c] = asked[c] /\ asked[c] # {}

\* Where writers are, and whose items are there.
KeepInv(c) ==
  /\ pc[c] = "start" => asked[c] = {} /\ delivered[c] = {} /\ ~failed[c]
  /\ pc[c] \in {"init", "dest", "src", "source", "copy", "isulad", "ok"} /\ req[c].op \in ExportOps => ~failed[c]
  /\ req[c].op # "mpush" /\ pc[c] \in Exporting => Key(c) \in DOMAIN items
  /\ req[c].ex = "docker-archive" /\ pc[c] \in Exporting /\ req[c].op # "mpush" => c \in DOMAIN writers
  
\* What a push of a list sends, and what it leaves open.
SourceInv(c) ==
  /\ req[c].op = "mpush" /\ pc[c] \in {"init"} \cup Exporting => todo[c] = req[c].images
  /\ pc[c] \in {"start", "init", "dest", "src", "source"} \/ req[c].op # "mpush" =>
       list[c] = NothingSent /\ open[c] = 0
  /\ pc[c] = "source" => IsFiniteSet(ref[c].src.refs)
  /\ pc[c] = "copy" /\ req[c].op = "mpush" =>
       /\ open[c] = Cardinality(ref[c].src.refs) /\ open[c] \in Nat
       /\ Cardinality(list[c].sources) \in 0..open[c]
  /\ pc[c] \notin {"copy", "source", "isulad"} => open[c] = 0 \/ (failed[c] /\ list[c] = NothingSent)
       \/ Cardinality(list[c].sources) < Cardinality(ref[c].src.refs)
  /\ req[c].op = "mpush" /\ ~failed[c] /\ pc[c] \in {"remove", "close", "ok"} =>
       list[c].sent = DOMAIN list[c].man

FiniteInv ==
  /\ \A l \in DOMAIN lists : lists[l].inst # NoData => IsFiniteSet(DOMAIN lists[l].inst)
  /\ \A c \in Clients : IsFiniteSet(DOMAIN mem[c].inst)
  /\ \A c \in Clients : req[c].op = "mpush" /\ Key(c) \in DOMAIN items => IsFiniteSet(items[Key(c)].src.refs)

ExportInv ==
  /\ \A k \in DOMAIN items : \E c \in Clients : Key(c) = k /\ pc[c] \in Exporting
  /\ \A w \in DOMAIN writers : \E c \in Clients : ExportID(c) = w /\ pc[c] \in Exporting \cup {"init", "close"}
  /\ NoID \notin DOMAIN writers
  /\ \A c \in Clients : OwnInv(c) /\ KeepInv(c) /\ SourceInv(c)
  /\ FiniteInv

IInv == Shape /\ (\A c \in Clients : PlaceInv(c)) /\ ListInv /\ ExportInv

-----------------------------------------------------------------------------
(* Shapes and places.                                                      *)

\* What an export step leaves alone.
LEMMA ExportFrame ==
  ASSUME NEW c \in Clients, ExportStep(c)
  PROVE  UNCHANGED <<local, lists, req, id, mem, made, crashed, want, stale, tainted>>
BY DEF ExportStep, RefusePush, StartExports, InitExporter, InitFails, GetDestRef, GetSrcRef, NewImageSource,
       CopyImage, exportToIsulad, ExportFails, RemoveItem, CloseWriter, Advance


\* The shapes of the variables stay.
LEMMA ShapeExport ==
  ASSUME Shape, NEW c \in Clients, ExportStep(c)
  PROVE  Shape'
<1>0. UNCHANGED <<local, lists, req, id, mem, made, crashed, want, stale, tainted>>
  BY ExportFrame
<1> USE <1>0 DEF Shape, ListShape, ExportShape, Advance, Go, exportVars
<1>1. CASE RefusePush(c) \/ StartExports(c)
  BY <1>1 DEF RefusePush, StartExports
<1>2. CASE InitExporter(c)
  BY <1>2 DEF InitExporter
<1>3. CASE InitFails(c) \/ ExportFails(c)
  BY <1>3 DEF InitFails, ExportFails
<1>4. CASE GetDestRef(c) \/ GetSrcRef(c)
  BY <1>4 DEF GetDestRef, GetSrcRef
<1>5. CASE NewImageSource(c)
  BY <1>5 DEF NewImageSource
<1>6. CASE CopyImage(c)
  BY <1>6 DEF CopyImage
<1>7. CASE exportToIsulad(c) \/ RemoveItem(c) \/ CloseWriter(c)
  BY <1>7 DEF exportToIsulad, RemoveItem, CloseWriter
<1> QED
  BY <1>1, <1>2, <1>3, <1>4, <1>5, <1>6, <1>7 DEF ExportStep

\* Every step keeps the shape of the state.
LEMMA ShapeStep ==
  ASSUME Shape, [Next]_vars
  PROVE  Shape'
<1>1. ASSUME UNCHANGED exportVars
      PROVE  ExportShape'
  BY <1>1 DEF Shape, ExportShape, exportVars
<1>2. CASE OtherRequest /\ UNCHANGED exportVars
  BY <1>1, <1>2 DEF OtherRequest, Shape, ListShape, Without
<1>3. CASE UNCHANGED vars
  BY <1>1, <1>3 DEF vars, listVars, Shape, ListShape
<1>4. ASSUME NEW c \in Clients, ListStep(c), UNCHANGED exportVars
      PROVE  Shape'
  BY <1>1, <1>4, ShapeList DEF Shape
<1> QED
  BY <1>2, <1>3, <1>4, ShapeExport DEF Next

\* Where an export step takes a request.
LEMMA ExportMoves ==
  ASSUME Shape, NEW c \in Clients, PlaceInv(c), ExportStep(c)
  PROVE  /\ req[c].op \in ExportOps /\ PlaceInv(c)'
         /\ pc[c] \in {"start", "init", "close"} \cup Exporting
         /\ pc'[c] \in {"init", "close", "ok", "err"} \cup Exporting
         /\ \A q \in Clients \ {c} : pc'[q] = pc[q] /\ todo'[q] = todo[q]
<1>0. /\ req' = req /\ (req[c].op = "mpush" => req[c].ex = "manifest")
      /\ DOMAIN pc = Clients /\ DOMAIN todo = Clients
  BY ExportFrame, ExportsAssumption DEF Shape, ListShape
<1> USE <1>0 DEF PlaceInv, ListPlace, ExportPlace, ExportOps, Exporting, Advance, Go
<1>1. CASE RefusePush(c) \/ StartExports(c)
  BY <1>1 DEF RefusePush, StartExports
<1>2. CASE InitExporter(c) \/ InitFails(c)
  BY <1>2 DEF InitExporter, InitFails
<1>3. CASE GetDestRef(c) \/ GetSrcRef(c)
  BY <1>3 DEF GetDestRef, GetSrcRef
<1>4. CASE NewImageSource(c) \/ ExportFails(c)
  BY <1>4 DEF NewImageSource, ExportFails
<1>5. CASE CopyImage(c) \/ exportToIsulad(c)
  BY <1>5 DEF CopyImage, exportToIsulad
<1>6. CASE RemoveItem(c) \/ CloseWriter(c)
  BY <1>6 DEF RemoveItem, CloseWriter
<1> QED
  BY <1>1, <1>2, <1>3, <1>4, <1>5, <1>6 DEF ExportStep


\* Exports leave lists alone.
LEMMA ListsExport ==
  ASSUME Shape, ListInv, NEW c \in Clients, PlaceInv(c), ExportStep(c)
  PROVE  ListInv'
<1>1. /\ UNCHANGED <<lists, req, id, mem, want, stale, tainted>>
      /\ pc[c] \notin Holding /\ pc'[c] \notin Holding /\ pc'[c] # "start"
      /\ \A q \in Clients \ {c} : pc'[q] = pc[q] /\ todo'[q] = todo[q]
  BY ExportFrame, ExportMoves DEF Holding, Exporting
<1> QED
  BY <1>1, ListsKept

-----------------------------------------------------------------------------
(* Exports.                                                                *)

\* Two requests share an item or a writer only if both push lists.
LEMMA KeysDiffer ==
  ASSUME NEW c \in Clients, NEW q \in Clients \ {c}, req[c].op # "mpush" \/ req[q].op # "mpush"
  PROVE  Key(q) # Key(c) /\ ExportID(q) # ExportID(c)
BY ExportsAssumption DEF Key, ExportID

\* What the requests have, the items and writers of the exporters left aside, stays when
\* no export goes on.
LEMMA ExportsKept ==
  ASSUME ExportInv, UNCHANGED exportVars, req' = req,
         \A q \in Clients :
           \/ pc'[q] = pc[q] /\ todo'[q] = todo[q]
           \/ /\ pc[q] \notin {"init", "close"} \cup Exporting
              /\ pc'[q] \notin {"start", "init", "close"} \cup Exporting
              /\ req[q].op \in ExportOps => pc'[q] = "err",
         FiniteInv'
  PROVE  ExportInv'
<1>0. \A q \in Clients : /\ Key(q)' = Key(q) /\ ExportID(q)' = ExportID(q) /\ Got(q)' = Got(q)
                         /\ DestRef(q)' = DestRef(q)
  BY DEF exportVars, Key, ExportID, Got, DestRef
<1> USE <1>0
<1>1. /\ \A k \in DOMAIN items' : \E c \in Clients : Key(c)' = k /\ pc'[c] \in Exporting
      /\ \A w \in DOMAIN writers' : \E c \in Clients : ExportID(c)' = w /\ pc'[c] \in Exporting \cup {"init", "close"}
      /\ NoID \notin DOMAIN writers'
  BY DEF ExportInv, exportVars
<1>2. ASSUME NEW q \in Clients
      PROVE  OwnInv(q)' /\ KeepInv(q)' /\ SourceInv(q)'
  <2>0. /\ OwnInv(q) /\ KeepInv(q) /\ SourceInv(q)
        /\ UNCHANGED <<items, writers, ref, list, open, failed, asked, delivered, overwritten, unclosed>>
    BY DEF ExportInv, exportVars
  <2> USE <2>0
  <2>1. OwnInv(q)'
    BY DEF OwnInv, Current, Exporting
  <2>2. KeepInv(q)'
    BY DEF KeepInv, Exporting
  <2>3. SourceInv(q)'
    BY DEF SourceInv, Exporting, ExportOps
  <2> QED
    BY <2>1, <2>2, <2>3
<1> QED
  BY <1>1, <1>2 DEF ExportInv


\* What an export step of c leaves to the other requests.
LeavesOthers(c) ==
  /\ \A q \in Clients \ {c} :
       /\ UNCHANGED <<pc[q], todo[q], ref[q], list[q], open[q], failed[q], asked[q], delivered[q], unclosed[q]>>
       /\ overwritten[q] => overwritten'[q]
  /\ \A k : k # Key(c) => (k \in DOMAIN items' <=> k \in DOMAIN items) /\ (k \in DOMAIN items => items'[k] = items[k])
  /\ \A w : w # ExportID(c) =>
       (w \in DOMAIN writers' <=> w \in DOMAIN writers) /\ (w \in DOMAIN writers => writers'[w] = writers[w])
  /\ NoID \notin DOMAIN writers'
  /\ \/ InitExporter(c)
     \/ Key(c) \in DOMAIN items' => Key(c) \in DOMAIN items /\ items'[Key(c)] = items[Key(c)]

\* A step of one export leaves what the others have.
LEMMA ExportLeavesOthers ==
  ASSUME Shape, NEW c \in Clients, PlaceInv(c), ExportStep(c), NoID \notin DOMAIN writers
  PROVE  LeavesOthers(c)
<1>0. /\ \A q \in Clients \ {c} : pc'[q] = pc[q] /\ todo'[q] = todo[q]
      /\ DOMAIN ref = Clients /\ DOMAIN list = Clients /\ DOMAIN open = Clients /\ DOMAIN failed = Clients
      /\ DOMAIN asked = Clients /\ DOMAIN delivered = Clients /\ DOMAIN overwritten = Clients
      /\ DOMAIN unclosed = Clients
  BY ExportMoves DEF Shape, ListShape, ExportShape
<1>1. req[c].ex = "docker-archive" => ExportID(c) # NoID
  BY ExportsAssumption DEF Shape, ListShape, ExportShape, ExportID
<1> USE <1>0 DEF LeavesOthers
<1>2. CASE RefusePush(c) \/ StartExports(c)
  BY <1>2 DEF RefusePush, StartExports, exportVars
<1>3. CASE InitExporter(c)
  BY <1>1, <1>3 DEF InitExporter, GetArchiveWriter, Put
<1>4. CASE InitFails(c)
  <2>1. CASE writers' = writers
    BY <1>4, <2>1 DEF InitFails
  <2>2. CASE writers' = GetArchiveWriter(c)
    BY <1>1, <1>4, <2>2 DEF InitFails, GetArchiveWriter, Put
  <2> QED
    BY <1>4, <2>1, <2>2 DEF InitFails
<1>5. CASE GetDestRef(c) \/ GetSrcRef(c)
  BY <1>5 DEF GetDestRef, GetSrcRef
<1>6. CASE NewImageSource(c)
  BY <1>6 DEF NewImageSource
<1>7. CASE CopyImage(c)
  BY <1>7 DEF CopyImage
<1>8. CASE exportToIsulad(c) \/ ExportFails(c)
  BY <1>8, SMT DEF exportToIsulad, ExportFails
<1>9. CASE RemoveItem(c)
  BY <1>9 DEF RemoveItem, Without
<1>10. CASE CloseWriter(c)
  BY <1>10 DEF CloseWriter, Without
<1> QED
  BY <1>2, <1>3, <1>4, <1>5, <1>6, <1>7, <1>8, <1>9, <1>10 DEF ExportStep

\* A request keeps its invariants when another one exports.
LEMMA OthersExport ==
  ASSUME Shape, ExportInv, NEW c \in Clients, PlaceInv(c), ExportStep(c), NEW q \in Clients \ {c}
  PROVE  OwnInv(q)' /\ KeepInv(q)' /\ SourceInv(q)'
<1>0. /\ LeavesOthers(c) /\ req' = req
      /\ OwnInv(q) /\ KeepInv(q) /\ SourceInv(q) /\ NoID \notin DOMAIN writers
  BY ExportFrame, ExportLeavesOthers DEF ExportInv
<1> USE <1>0
<1>1. /\ UNCHANGED <<pc[q], todo[q], ref[q], list[q], open[q], failed[q], asked[q], delivered[q], unclosed[q]>>
      /\ overwritten[q] => overwritten'[q]
  BY DEF LeavesOthers
<1> USE <1>1
<1>2. Key(q)' = Key(q) /\ ExportID(q)' = ExportID(q) /\ DestRef(q)' = DestRef(q)
  BY DEF Key, ExportID, DestRef
<1> USE <1>2
<1>3. Got(q)' = Got(q) /\ (ExportID(q) \in DOMAIN writers' <=> ExportID(q) \in DOMAIN writers)
  <2>1. CASE req[c].op = "mpush" /\ req[q].op = "mpush"
    BY <2>1 DEF Got, LeavesOthers, ExportID
  <2>2. CASE ~(req[c].op = "mpush" /\ req[q].op = "mpush")
    <3>1. ExportID(q) # ExportID(c)
      BY <2>2, KeysDiffer
    <3> QED
      BY <3>1, SMT DEF Got, LeavesOthers
  <2> QED
    BY <2>1, <2>2
<1> USE <1>3
<1>4. \/ overwritten'[q] \/ pc[q] \notin Exporting
      \/ Key(q) \in DOMAIN items' => Key(q) \in DOMAIN items /\ items'[Key(q)] = items[Key(q)]
  <2>1. CASE req[c].op = "mpush" /\ req[q].op = "mpush" /\ InitExporter(c)
    BY <2>1 DEF InitExporter
  <2>2. CASE req[c].op = "mpush" /\ req[q].op = "mpush" /\ ~InitExporter(c)
    <3>1. Key(q) = Key(c) \/ Key(q) # Key(c)
      OBVIOUS
    <3> QED
      BY <2>2, <3>1 DEF LeavesOthers
  <2>3. CASE ~(req[c].op = "mpush" /\ req[q].op = "mpush")
    BY <2>3, KeysDiffer DEF LeavesOthers
  <2> QED
    BY <2>1, <2>2, <2>3
<1>5. OwnInv(q)'
  <2>1. ASSUME ~overwritten'[q], pc[q] \in Exporting, NEW s, Current(q, s)
        PROVE  Current(q, s)'
    BY <1>4, <2>1 DEF Current
  <2>2. ~overwritten'[q] => ~overwritten[q]
    OBVIOUS
  <2> QED
    BY <2>1, <2>2 DEF OwnInv, Exporting
<1>6. KeepInv(q)'
  <2>1. req[q].op # "mpush" => (Key(q) \in DOMAIN items' <=> Key(q) \in DOMAIN items)
    BY KeysDiffer DEF LeavesOthers
  <2>2. req[q].op # "mpush" => ExportID(q) = q
    BY DEF ExportID
  <2> QED
    BY <2>1, <2>2 DEF KeepInv
<1>7. SourceInv(q)'
  BY DEF SourceInv
<1> QED
  BY <1>5, <1>6, <1>7

\* The references each Init makes: the destination is the one that was asked for, and
\* those of a list are finitely many.
LEMMA ParsedDest ==
  ASSUME Shape, NEW c \in Clients, req[c].op \in ExportOps
  PROVE  parseExporter(c).dest = DestRef(c)
<1>1. req[c].ex \in {"docker", "docker-daemon", "oci", "oci-archive", "docker-archive", "isulad", "manifest"}
  BY ExportsAssumption DEF Shape, ListShape, ExportShape, ExportOps
<1>2. CASE req[c].ex = "isulad"
  BY <1>2 DEF parseExporter, isuladInit, DestRef
<1>3. CASE req[c].ex = "manifest"
  BY <1>3 DEF parseExporter, manifestInit, DestRef
<1>4. CASE req[c].ex \in {"docker", "docker-daemon", "oci"}
  BY <1>4 DEF parseExporter, dockerInit, dockerDaemonInit, ociInit, DestRef
<1>5. CASE req[c].ex \in {"oci-archive", "docker-archive"}
  BY <1>5 DEF parseExporter, ociArchiveInit, dockerArchiveInit, DestRef
<1> QED
  BY <1>1, <1>2, <1>3, <1>4, <1>5

\* An export keeps to its own pair, from Init to the end.
LEMMA OwnStep ==
  ASSUME Shape, ExportInv, NEW c \in Clients, PlaceInv(c), ExportStep(c)
  PROVE  OwnInv(c)'
<1>0. /\ DOMAIN pc = Clients /\ DOMAIN ref = Clients /\ DOMAIN failed = Clients /\ DOMAIN asked = Clients
      /\ DOMAIN delivered = Clients /\ DOMAIN overwritten = Clients /\ DOMAIN unclosed = Clients
      /\ DOMAIN ref[c] = {"src", "dest"}
      /\ OwnInv(c) /\ KeepInv(c) /\ NoID \notin DOMAIN writers
      /\ req' = req /\ req[c].op \in ExportOps
  BY ExportFrame, ExportMoves DEF Shape, ListShape, ExportShape, ExportInv
<1> USE <1>0
<1>1. /\ Key(c)' = Key(c) /\ ExportID(c)' = ExportID(c) /\ DestRef(c)' = DestRef(c)
      /\ req[c].ex = "docker-archive" \/ req[c].ex = "isulad" => req[c].op # "mpush" /\ ExportID(c) = c
  BY ExportsAssumption DEF Shape, ListShape, ExportShape, Key, ExportID, DestRef
<1> USE <1>1
<1> SUFFICES ASSUME ~overwritten'[c]
             PROVE  OwnInv(c)'
  BY DEF OwnInv
<1>2. CASE RefusePush(c)
  <2>1. UNCHANGED exportVars /\ pc'[c] = "err" /\ Got(c)' = Got(c)
    BY <1>2 DEF RefusePush, Advance, Go, Got, exportVars
  <2> QED
    BY <2>1 DEF OwnInv, Exporting, exportVars
<1>3. CASE StartExports(c)
  <2>1. UNCHANGED exportVars /\ pc[c] = "start" /\ pc'[c] = "init" /\ Got(c)' = Got(c)
    BY <1>3 DEF StartExports, Advance, Go, Got, exportVars
  <2> USE <2>1
  <2>2. ExportID(c) \notin DOMAIN writers
    <3>1. CASE req[c].op = "mpush"
      BY <3>1 DEF ExportID
    <3>2. CASE req[c].op # "mpush"
      <4>1. ASSUME NEW q \in Clients, ExportID(q) = ExportID(c)
            PROVE  q = c
        BY <3>2, <4>1, KeysDiffer
      <4> QED
        BY <4>1 DEF ExportInv, Exporting
    <3> QED
      BY <3>1, <3>2
  <2>3. Got(c) = {} /\ asked[c] = {}
    BY <2>2 DEF KeepInv, Got
  <2> QED
    BY <2>3 DEF OwnInv, Exporting, exportVars
<1>4. CASE InitExporter(c)
  <2>0. PICK s : s = parseExporter(c).src.of
    OBVIOUS
  <2>1. /\ pc[c] = "init" /\ pc'[c] = "dest" /\ items' = Put(items, Key(c), parseExporter(c))
        /\ writers' = GetArchiveWriter(c) /\ asked'[c] = asked[c] \cup {<<s, req[c].dest>>}
        /\ delivered' = delivered /\ ~overwritten[c]
    BY <1>4, <2>0 DEF InitExporter, Advance, Go
  <2> USE <2>1
  <2>2. Got(c)' = Got(c)
    BY DEF Got, GetArchiveWriter, Put
  <2>3. asked[c] = Got(c)
    BY DEF OwnInv, KeepInv
  <2>4. Key(c) \in DOMAIN items' /\ items'[Key(c)] = parseExporter(c) /\ parseExporter(c).dest = DestRef(c)
    BY ParsedDest DEF Put
  <2>5. Current(c, s)'
    BY <2>0, <2>2, <2>3, <2>4 DEF Current
  <2>6. <<s, req[c].dest>> \in asked'[c] /\ <<s, req[c].dest>>[1] = s
    OBVIOUS
  <2>7. \E p \in asked'[c] : Current(c, p[1])'
    BY <2>5, <2>6
  <2> QED
    BY <2>2, <2>3, <2>6, <2>7 DEF OwnInv, Exporting
<1>5. CASE InitFails(c)
  <2>1. /\ pc'[c] = "close" /\ failed'[c] /\ UNCHANGED <<asked, delivered, overwritten>>
        /\ writers' = writers \/ writers' = GetArchiveWriter(c)
    BY <1>5 DEF InitFails, Advance, Go
  <2>2. Got(c)' = Got(c)
    BY <2>1 DEF Got, GetArchiveWriter, Put
  <2> QED
    BY <2>1, <2>2 DEF OwnInv, Exporting
<1>6. CASE GetDestRef(c)
  <2>1. /\ pc[c] = "dest" /\ pc'[c] = "src" /\ ref'[c].dest = Item(c).dest /\ Got(c)' = Got(c)
        /\ UNCHANGED <<items, writers, failed, asked, delivered, overwritten, unclosed>>
    BY <1>6 DEF GetDestRef, Advance, Go, Got
  <2>2. ASSUME NEW s, Current(c, s)
        PROVE  Current(c, s)'
    BY <2>1, <2>2 DEF Current, Item
  <2> QED
    BY <2>1, <2>2 DEF OwnInv, Exporting
<1>7. CASE GetSrcRef(c)
  <2>1. /\ pc[c] = "src" /\ Got(c)' = Got(c)
        /\ UNCHANGED <<items, writers, asked, delivered, overwritten, unclosed>>
    BY <1>7 DEF GetSrcRef, Advance, Got
  <2> USE <2>1
  <2>2. CASE Item(c).src = NoRef \/ ref[c].dest = NoRef
    <3>1. pc'[c] = "remove" /\ failed'[c]
      BY <1>7, <2>2 DEF GetSrcRef, Advance, Go
    <3> QED
      BY <3>1 DEF OwnInv, Exporting
  <2>3. CASE ~(Item(c).src = NoRef \/ ref[c].dest = NoRef)
    <3>1. /\ pc'[c] \in {"source", "copy"} /\ ref'[c].src = Item(c).src /\ ref'[c].dest = ref[c].dest
      BY <1>7, <2>3 DEF GetSrcRef, Advance, Go
    <3>2. ASSUME NEW s, Current(c, s)
          PROVE  Current(c, s)'
      BY <2>3, <3>1, <3>2 DEF Current, Item
    <3> QED
      BY <3>1, <3>2 DEF OwnInv, Exporting
  <2> QED
    BY <2>2, <2>3
<1>8. CASE NewImageSource(c)
  <2>1. /\ pc[c] = "source" /\ pc'[c] \in {"copy", "remove"} /\ (pc'[c] = "remove" => failed'[c])
        /\ UNCHANGED <<items, writers, ref, asked, delivered, overwritten, unclosed>>
    BY <1>8 DEF NewImageSource, Advance, Go
  <2> USE <2>1
  <2>2. Got(c)' = Got(c)
    BY DEF Got
  <2>3. ASSUME NEW s, Current(c, s)
        PROVE  Current(c, s)'
    BY <2>2, <2>3 DEF Current
  <2> QED
    BY <2>2, <2>3 DEF OwnInv, Exporting
<1>9. CASE CopyImage(c)
  <2>1. /\ pc[c] = "copy" /\ pc'[c] = (IF req[c].ex = "isulad" THEN "isulad" ELSE "remove")
        /\ UNCHANGED <<items, ref, failed, asked, overwritten, unclosed>>
    BY <1>9 DEF CopyImage, Advance, Go
  <2> USE <2>1
  <2>2. PICK s : Current(c, s) /\ asked[c] # {}
    BY DEF OwnInv, Exporting
  <2> USE <2>2
  <2>3. <<s, req[c].dest>> \in asked[c] /\ asked[c] = Got(c) \cup {<<s, req[c].dest>>}
    BY DEF Current
  <2> USE <2>3
  <2>4. CASE req[c].ex = "isulad"
    <3>1. Got(c)' = Got(c) /\ pc'[c] = "isulad"
      BY <1>9, <2>4 DEF CopyImage, Got
    <3>2. Current(c, s)' /\ <<s, req[c].dest>>[1] = s
      BY <3>1 DEF Current
    <3>3. \E p \in asked'[c] : Current(c, p[1])'
      BY <3>2
    <3> QED
      BY <3>1, <3>3 DEF OwnInv, Exporting
  <2>5. CASE req[c].ex # "isulad"
    <3>1. ref[c].src.of = s /\ ref[c].dest = req[c].dest
      BY <2>5 DEF Current, DestRef
    <3>2. Got(c)' = Got(c) \cup {<<s, req[c].dest>>}
      <4>1. CASE req[c].ex = "docker-archive"
        <5>1. ExportID(c) \in DOMAIN writers
          BY <4>1 DEF KeepInv, Exporting
        <5>2. /\ delivered' = delivered
              /\ writers' = [writers EXCEPT ![ExportID(c)] = @ \cup {<<s, req[c].dest>>}]
          BY <1>9, <3>1, <4>1 DEF CopyImage
        <5> QED
          BY <5>1, <5>2 DEF Got
      <4>2. CASE req[c].ex # "docker-archive"
        <5>1. delivered'[c] = delivered[c] \cup {<<s, req[c].dest>>} /\ writers' = writers
          BY <1>9, <2>5, <3>1, <4>2, SMT DEF CopyImage
        <5> QED
          BY <5>1 DEF Got
      <4> QED
        BY <4>1, <4>2
    <3> QED
      BY <2>5, <3>2 DEF OwnInv, Exporting
  <2> QED
    BY <2>4, <2>5
<1>10. CASE exportToIsulad(c)
  <2>1. /\ pc[c] = "isulad" /\ pc'[c] = "remove"
        /\ UNCHANGED <<items, writers, ref, failed, asked, overwritten, unclosed>>
        /\ delivered'[c] = delivered[c] \cup {<<ref[c].src.of, Item(c).dest.tarOf>>}
    BY <1>10 DEF exportToIsulad, Advance, Go
  <2> USE <2>1
  <2>2. PICK s : Current(c, s) /\ asked[c] # {}
    BY DEF OwnInv, Exporting
  <2> USE <2>2
  <2>3. req[c].ex = "isulad" /\ Key(c) \in DOMAIN items
    BY DEF PlaceInv, ExportPlace, KeepInv, Exporting
  <2>4. ref[c].src.of = s /\ Item(c).dest.tarOf = req[c].dest
    BY <2>3, SMT DEF Current, Item, DestRef
  <2>5. Got(c)' = Got(c) \cup {<<s, req[c].dest>>}
    BY <2>4 DEF Got
  <2>6. asked[c] = Got(c) \cup {<<s, req[c].dest>>}
    BY DEF Current
  <2> QED
    BY <2>5, <2>6 DEF OwnInv, Exporting
<1>11. CASE ExportFails(c)
  <2>1. /\ pc[c] \in Exporting /\ pc'[c] = "remove" /\ failed'[c]
        /\ UNCHANGED <<asked, overwritten>> /\ Got(c)' = Got(c)
    BY <1>11 DEF ExportFails, Advance, Go, Got, Exporting
  <2> QED
    BY <2>1 DEF OwnInv, Exporting
<1>12. CASE RemoveItem(c)
  <2>1. /\ pc[c] = "remove" /\ pc'[c] \in {"close", "init"}
        /\ UNCHANGED <<asked, failed, overwritten>> /\ Got(c)' = Got(c)
    BY <1>12 DEF RemoveItem, Advance, Go, Got
  <2> QED
    BY <2>1 DEF OwnInv, Exporting
<1>13. CASE CloseWriter(c)
  <2>1. /\ pc[c] = "close" /\ pc'[c] = (IF failed[c] THEN "err" ELSE "ok")
        /\ UNCHANGED <<asked, overwritten>> /\ writers' = Without(writers, ExportID(c))
        /\ IF ExportID(c) \in DOMAIN writers
           THEN delivered'[c] = delivered[c] \cup writers[ExportID(c)] \/ (unclosed'[c] /\ delivered' = delivered)
           ELSE delivered' = delivered
    BY <1>13 DEF CloseWriter, Advance, Go
  <2> USE <2>1
  <2>2. Got(c)' = delivered'[c]
    BY DEF Got, Without
  <2>3. delivered'[c] \subseteq Got(c) /\ (unclosed'[c] \/ delivered'[c] = Got(c))
    BY DEF Got
  <2> QED
    BY <2>2, <2>3 DEF OwnInv, Exporting
<1> QED
  BY <1>2, <1>3, <1>4, <1>5, <1>6, <1>7, <1>8, <1>9, <1>10, <1>11, <1>12, <1>13 DEF ExportStep

\* While an export goes on its item is there, and its writer.
LEMMA KeepStep ==
  ASSUME Shape, ExportInv, NEW c \in Clients, PlaceInv(c), ExportStep(c)
  PROVE  KeepInv(c)'
<1>0. /\ DOMAIN pc = Clients /\ DOMAIN failed = Clients
      /\ KeepInv(c) /\ req' = req /\ pc'[c] # "start" /\ Key(c)' = Key(c) /\ ExportID(c)' = ExportID(c)
      /\ req[c].op # "mpush" => ExportID(c) = c
  BY ExportFrame, ExportMoves DEF Shape, ListShape, ExportShape, ExportInv, Exporting, Key, ExportID
<1> USE <1>0 DEF KeepInv, Advance, Go, Exporting
<1>1. CASE RefusePush(c) \/ StartExports(c)
  BY <1>1 DEF RefusePush, StartExports, exportVars, ExportOps
<1>2. CASE InitExporter(c)
  BY <1>2 DEF InitExporter, GetArchiveWriter, Put
<1>3. CASE InitFails(c) \/ ExportFails(c)
  BY <1>3 DEF InitFails, ExportFails
<1>4. CASE GetDestRef(c) \/ GetSrcRef(c)
  BY <1>4 DEF GetDestRef, GetSrcRef
<1>5. CASE NewImageSource(c)
  BY <1>5 DEF NewImageSource
<1>6. CASE CopyImage(c) \/ exportToIsulad(c)
  BY <1>6 DEF CopyImage, exportToIsulad
<1>7. CASE RemoveItem(c)
  BY <1>7 DEF RemoveItem
<1>8. CASE CloseWriter(c)
  BY <1>8 DEF CloseWriter
<1> QED
  BY <1>1, <1>2, <1>3, <1>4, <1>5, <1>6, <1>7, <1>8 DEF ExportStep


\* What is used of finite sets and their sizes; FiniteFacts proves it.
Finite ==
  /\ IsFiniteSet({}) /\ Cardinality({}) = 0
  /\ \A S, x : IsFiniteSet(S) => IsFiniteSet(S \cup {x})
  /\ \A f, S : IsFiniteSet(S) =>
       /\ IsFiniteSet({f[x] : x \in S})
       /\ Cardinality(S) \in Nat /\ Cardinality({f[x] : x \in S}) \in 0..Cardinality(S)

\* One more element keeps a set finite.
LEMMA FiniteAdd ==
  ASSUME Finite, NEW S, IsFiniteSet(S), NEW x
  PROVE  IsFiniteSet(S \cup {x})
BY DEF Finite

\* Adding an image adds its digest to the instances.
LEMMA AddInstances ==
  \A m, n, d, platform : DOMAIN AddWithPlatform(m, n, d, platform).inst = DOMAIN m.inst \cup {d}
BY AddImageMeant, SMT

\* Instances in memory and in the store are finite.
LEMMA FiniteList ==
  ASSUME Finite, Shape, FiniteInv, NEW c \in Clients, ListStep(c), UNCHANGED exportVars
  PROVE  FiniteInv'
<1>0. /\ DOMAIN mem = Clients /\ \A q \in Clients : DOMAIN mem[q] = {"man", "inst", "last"}
      /\ \A l \in DOMAIN lists : DOMAIN lists[l] = {"name", "man", "inst"}
  BY DEF Shape, ListShape
<1> USE <1>0
<1>1. UNCHANGED <<items, req>>
  BY DEF ListStep, RefuseManifest, ManifestCreate, ManifestAnnotate, LoadManifest, LoadInstances, AddNext, CreateImage,
         WriteManifest, WriteInstances, SaveFails, ManifestInspect, Fails, Receive, listVars, exportVars
<1>2. \A q \in Clients : req'[q].op = "mpush" /\ Key(q)' \in DOMAIN items' => IsFiniteSet(items'[Key(q)'].src.refs)
  BY <1>1 DEF FiniteInv, Key, ExportID
<1> USE <1>2
<1>3. CASE AddNext(c)
  <2>1. CASE Fails(c)
    BY <2>1 DEF Fails, listVars, FiniteInv
  <2>2. CASE ~Fails(c)
    <3>1. lists' = lists /\ \A q \in Clients \ {c} : mem'[q] = mem[q]
      BY <1>3, <2>2 DEF AddNext
    <3>2. PICK d, n : mem'[c] = AddWithPlatform(mem[c], n, d, req[c].platform)
      BY <1>3, <2>2, SMT DEF AddNext
    <3>3. DOMAIN mem'[c].inst = DOMAIN mem[c].inst \cup {d}
      BY <3>2, AddInstances, SMT
    <3>4. IsFiniteSet(DOMAIN mem[c].inst)
      BY DEF FiniteInv
    <3>5. IsFiniteSet(DOMAIN mem'[c].inst)
      <4>1. IsFiniteSet(DOMAIN mem[c].inst \cup {d})
        BY <3>4, FiniteAdd
      <4> QED
        BY <3>3, <4>1
    <3> QED
      BY <3>1, <3>5 DEF FiniteInv
  <2> QED
    BY <2>1, <2>2
<1>4. CASE LoadManifest(c) \/ LoadInstances(c)
  BY <1>4, SMT DEF LoadManifest, LoadInstances, HasData, Fails, listVars, FiniteInv
<1>5. CASE CreateImage(c)
  BY <1>5, SMT DEF CreateImage, Fails, listVars, Put, FiniteInv
<1>6. CASE WriteManifest(c) \/ WriteInstances(c)
  BY <1>6, SMT DEF WriteManifest, WriteInstances, FiniteInv
<1>7. CASE SaveFails(c)
  BY <1>7, SMT DEF SaveFails, Without, FiniteInv
<1>8. CASE ManifestInspect(c)
  BY <1>8, SMT DEF ManifestInspect, Fails, Receive, listVars, FiniteInv
<1>9. CASE RefuseManifest(c) \/ ManifestCreate(c) \/ ManifestAnnotate(c)
  BY <1>9 DEF RefuseManifest, ManifestCreate, ManifestAnnotate, Fails, Receive, listVars, FiniteInv
<1> QED
  BY <1>3, <1>4, <1>5, <1>6, <1>7, <1>8, <1>9 DEF ListStep

\* Steps on lists keep the invariant of exports.
LEMMA ExportsList ==
  ASSUME Finite, Shape, ExportInv, NEW c \in Clients, PlaceInv(c), ListStep(c), UNCHANGED exportVars
  PROVE  ExportInv'
<1>1. FiniteInv'
  BY FiniteList DEF ExportInv
<1>2. /\ req' = req
      /\ pc[c] \notin {"init", "close"} \cup Exporting
      /\ pc'[c] \notin {"start", "init", "close"} \cup Exporting
      /\ req[c].op \in ExportOps => pc'[c] = "err"
      /\ \A q \in Clients \ {c} : pc'[q] = pc[q] /\ todo'[q] = todo[q]
  BY ListMoves DEF Shape, ListShape, ExportShape, PlaceInv, Exporting
<1> QED
  BY <1>1, <1>2, ExportsKept

\* So do requests that change names and lists.
LEMMA ExportsOther ==
  ASSUME ExportInv, OtherRequest, UNCHANGED exportVars
  PROVE  ExportInv'
<1>1. FiniteInv'
  BY DEF ExportInv, FiniteInv, OtherRequest, Without, exportVars, Key, ExportID
<1>2. req' = req /\ pc' = pc /\ todo' = todo
  BY DEF OtherRequest
<1> QED
  BY <1>1, <1>2, ExportsKept


\* What a push sends and leaves open.
LEMMA SourceStep ==
  ASSUME Finite, Shape, ExportInv, NEW c \in Clients, PlaceInv(c), ExportStep(c)
  PROVE  SourceInv(c)'
<1>0. /\ DOMAIN pc = Clients /\ DOMAIN ref = Clients /\ DOMAIN failed = Clients /\ DOMAIN list = Clients
      /\ DOMAIN open = Clients /\ DOMAIN todo = Clients
      /\ DOMAIN ref[c] = {"src", "dest"} /\ DOMAIN list[c] = {"man", "sources", "sent"}
      /\ SourceInv(c) /\ KeepInv(c) /\ req' = req /\ req[c].op \in ExportOps
  BY ExportFrame, ExportMoves DEF Shape, ListShape, ExportShape, ExportInv
<1> USE <1>0
<1>00. Cardinality({}) = 0 /\ NothingSent.sources = {} /\ DOMAIN NothingSent.man = {}
  BY DEF Finite, NothingSent, Nothing
<1>1. CASE RefusePush(c) \/ StartExports(c)
  BY <1>1 DEF RefusePush, StartExports, exportVars, Advance, Go, SourceInv, Exporting
<1>2. CASE InitExporter(c) \/ InitFails(c)
  BY <1>2 DEF InitExporter, InitFails, Advance, Go, SourceInv, Exporting
<1>3. CASE GetDestRef(c)
  BY <1>3 DEF GetDestRef, Advance, Go, SourceInv, Exporting
<1>4. CASE GetSrcRef(c)
  <2>1. /\ pc[c] = "src" /\ UNCHANGED <<todo, list, open>> /\ ref'[c].src = Item(c).src
        /\ pc'[c] \in {"remove", "source", "copy"} /\ (pc'[c] = "remove" => failed'[c])
        /\ pc'[c] = "source" => Item(c).src # NoRef
        /\ req[c].op = "mpush" => pc'[c] # "copy"
        /\ req[c].op # "mpush" => pc'[c] # "source"
    BY <1>4 DEF GetSrcRef, Advance, Go
  <2>2. pc'[c] = "source" => IsFiniteSet(ref'[c].src.refs)
    BY <2>1 DEF Item, ExportInv, FiniteInv
  <2> QED
    BY <2>1, <2>2 DEF SourceInv, Exporting
<1>5. CASE NewImageSource(c)
  <2>1. pc[c] = "source" /\ UNCHANGED <<todo, ref>> /\ req[c].op = "mpush" /\ ~failed[c]
    BY <1>5 DEF NewImageSource, PlaceInv, ExportPlace, KeepInv
  <2> USE <2>1
  <2>2. CASE pc'[c] = "remove"
    <3>1. failed'[c] /\ list' = list
      BY <1>5, <2>2 DEF NewImageSource, Advance, Go
    <3> QED
      BY <2>2, <3>1 DEF SourceInv, Exporting
  <2>3. CASE pc'[c] # "remove"
    <3>1. /\ pc'[c] = "copy" /\ open'[c] = Cardinality(ref[c].src.refs)
          /\ list'[c].sources = {local[n] : n \in ref[c].src.refs}
      BY <1>5, <2>3, SMT DEF NewImageSource, Advance, Go
    <3>2. /\ Cardinality(ref[c].src.refs) \in Nat
          /\ Cardinality({local[n] : n \in ref[c].src.refs}) \in 0..Cardinality(ref[c].src.refs)
      BY SMT DEF SourceInv, Finite
    <3> QED
      BY <3>1, <3>2 DEF SourceInv, Exporting
  <2> QED
    BY <2>2, <2>3
<1>6. CASE CopyImage(c)
  <2>1. /\ pc[c] = "copy" /\ pc'[c] \in {"isulad", "remove"} /\ UNCHANGED <<todo, ref, failed>>
        /\ list'[c].sent = Sent(c) /\ list'[c].sources = list[c].sources /\ list'[c].man = list[c].man
        /\ open'[c] = open[c] - Cardinality(list[c].sources) /\ NoRef \notin Sent(c)
        /\ list'[c] = [list[c] EXCEPT !.sent = Sent(c)]
    BY <1>6 DEF CopyImage, Advance, Go, Closed
  <2> USE <2>1
  <2>2. Sent(c) = DOMAIN list[c].man
    BY SMT DEF Sent, getImgSrc
  <2>3. CASE req[c].op = "mpush"
    BY <2>2, <2>3, SMT DEF SourceInv, Exporting
  <2>4. CASE req[c].op # "mpush"
    <3>1. list[c] = NothingSent /\ open[c] = 0
      BY <2>4 DEF SourceInv
    <3>2. open'[c] = 0 /\ list'[c] = [NothingSent EXCEPT !.sent = {}]
      BY <1>00, <2>2, <3>1, SMT
    <3>3. list'[c] = NothingSent
      BY <3>2 DEF NothingSent
    <3> QED
      BY <2>4, <3>2, <3>3 DEF SourceInv
  <2> QED
    BY <2>3, <2>4
<1>7. CASE exportToIsulad(c)
  BY <1>7 DEF exportToIsulad, PlaceInv, ExportPlace, Advance, Go, SourceInv
<1>8. CASE ExportFails(c)
  <2>1. /\ pc[c] \in {"dest", "copy", "isulad"} /\ pc'[c] = "remove" /\ UNCHANGED <<todo, ref, list>>
        /\ failed'[c] /\ open'[c] = open[c] - Cardinality(list[c].sources)
    BY <1>8 DEF ExportFails, Advance, Go, Closed
  <2> USE <2>1
  <2>2. CASE req[c].op = "mpush" /\ pc[c] = "copy"
    BY <2>2, SMT DEF SourceInv, Exporting
  <2>3. CASE ~(req[c].op = "mpush" /\ pc[c] = "copy")
    <3>1. list[c] = NothingSent /\ open[c] = 0
      BY <2>3 DEF SourceInv, PlaceInv, ExportPlace
    <3>2. open'[c] = 0
      BY <1>00, <3>1, SMT
    <3> QED
      BY <2>3, <3>1, <3>2 DEF SourceInv, PlaceInv, ExportPlace, Exporting
  <2> QED
    BY <2>2, <2>3
<1>9. CASE RemoveItem(c)
  <2>1. /\ pc[c] = "remove" /\ UNCHANGED <<ref, list, open, failed>>
        /\ pc'[c] = IF failed[c] \/ Len(todo[c]) = 1 THEN "close" ELSE "init"
    BY <1>9 DEF RemoveItem, Advance, Go
  <2>2. req[c].op = "mpush" => Len(todo[c]) = 1
    <3>1. ASSUME req[c].op = "mpush"
          PROVE  Len(todo[c]) = 1
      <4>1. PICK n : req[c].images = <<n>>
        BY <3>1, ExportsAssumption, SMT DEF Shape, ListShape, ExportShape
      <4>2. todo[c] = req[c].images
        BY <2>1, <3>1 DEF SourceInv, Exporting
      <4> QED
        BY <4>1, <4>2, SMT
    <3> QED
      BY <3>1
  <2> QED
    BY <2>1, <2>2 DEF SourceInv, Exporting
<1>10. CASE CloseWriter(c)
  BY <1>10 DEF CloseWriter, Advance, Go, SourceInv, Exporting
<1> QED
  BY <1>1, <1>2, <1>3, <1>4, <1>5, <1>6, <1>7, <1>8, <1>9, <1>10 DEF ExportStep


\* The references of a list that is being pushed are finitely many.
LEMMA FiniteExport ==
  ASSUME Finite, Shape, ExportInv, NEW c \in Clients, PlaceInv(c), ExportStep(c)
  PROVE  FiniteInv'
<1>0. UNCHANGED <<lists, req, mem>> /\ LeavesOthers(c) /\ FiniteInv
  BY ExportFrame, ExportLeavesOthers DEF ExportInv
<1> USE <1>0
<1>1. ASSUME NEW q \in Clients, req[q].op = "mpush", Key(q) \in DOMAIN items'
      PROVE  IsFiniteSet(items'[Key(q)].src.refs)
  <2>1. CASE Key(q) # Key(c) \/ ~InitExporter(c)
    BY <1>1, <2>1 DEF LeavesOthers, FiniteInv
  <2>2. CASE Key(q) = Key(c) /\ InitExporter(c)
    <3>1. req[c].op = "mpush" /\ req[c].ex = "manifest"
      <4>1. q = c \/ q \in Clients \ {c}
        OBVIOUS
      <4>2. req[c].op = "mpush"
        BY <1>1, <2>2, <4>1, KeysDiffer
      <4> QED
        BY <4>2, ExportsAssumption DEF Shape, ListShape
    <3> DEFINE l == FindList(Head(todo[c]))
    <3>2. items'[Key(q)] = parseExporter(c) /\ HasData(l, "inst")
      BY <2>2, <3>1 DEF InitExporter, Put
    <3>3. parseExporter(c).src.refs = Range(lists[l].inst)
      BY <3>1 DEF parseExporter, manifestInit, Reference
    <3>4. IsFiniteSet(DOMAIN lists[l].inst)
      BY <3>2 DEF HasData, FiniteInv
    <3>5. IsFiniteSet(Range(lists[l].inst))
      BY <3>4 DEF Range, Finite
    <3> QED
      BY <3>2, <3>3, <3>5
  <2> QED
    BY <2>1, <2>2
<1>2. \A q \in Clients : Key(q)' = Key(q)
  BY DEF Key, ExportID
<1> QED
  BY <1>1, <1>2 DEF FiniteInv


\* An export step keeps the invariant of exports.
LEMMA ExportsExport ==
  ASSUME Finite, Shape, ExportInv, NEW c \in Clients, PlaceInv(c), ExportStep(c)
  PROVE  ExportInv'
<1>0. /\ LeavesOthers(c) /\ req' = req
      /\ pc[c] \in {"start", "init", "close"} \cup Exporting
      /\ \A q \in Clients : Key(q)' = Key(q) /\ ExportID(q)' = ExportID(q)
  BY ExportFrame, ExportLeavesOthers, ExportMoves DEF ExportInv, Key, ExportID
<1> USE <1>0
<1>1. ASSUME NEW k \in DOMAIN items'
      PROVE  \E q \in Clients : Key(q)' = k /\ pc'[q] \in Exporting
  <2>1. CASE k # Key(c)
    <3>1. k \in DOMAIN items
      BY <1>1, <2>1 DEF LeavesOthers
    <3>2. PICK q \in Clients : Key(q) = k /\ pc[q] \in Exporting
      BY <3>1 DEF ExportInv
    <3>3. pc'[q] = pc[q]
      BY <2>1, <3>2 DEF LeavesOthers
    <3> QED
      BY <3>2, <3>3
  <2>2. CASE k = Key(c)
    <3>1. CASE InitExporter(c)
      BY <2>2, <3>1 DEF InitExporter, Advance, Go, Exporting, Shape, ListShape
    <3>2. CASE ~InitExporter(c)
      <4>1. k \in DOMAIN items
        BY <1>1, <2>2, <3>2 DEF LeavesOthers
      <4>2. PICK q \in Clients : Key(q) = k /\ pc[q] \in Exporting
        BY <4>1 DEF ExportInv
      <4> USE <4>2
      <4>3. CASE q # c
        BY <4>3 DEF LeavesOthers
      <4>4. CASE q = c
        <5>1. pc'[c] \in Exporting \/ RemoveItem(c)
          BY <4>4, <3>2 DEF ExportStep, RefusePush, StartExports, InitFails, GetDestRef, GetSrcRef,
                NewImageSource, CopyImage, exportToIsulad, ExportFails, CloseWriter, Advance, Go, Exporting, Shape, ListShape
        <5>2. ~RemoveItem(c)
          BY <1>1, <2>2 DEF RemoveItem, Without
        <5> QED
          BY <4>4, <5>1, <5>2
      <4> QED
        BY <4>3, <4>4
    <3> QED
      BY <3>1, <3>2
  <2> QED
    BY <2>1, <2>2
<1>2. ASSUME NEW w \in DOMAIN writers'
      PROVE  \E q \in Clients : ExportID(q)' = w /\ pc'[q] \in Exporting \cup {"init", "close"}
  <2>1. CASE w # ExportID(c)
    <3>1. w \in DOMAIN writers
      BY <1>2, <2>1 DEF LeavesOthers
    <3>2. PICK q \in Clients : ExportID(q) = w /\ pc[q] \in Exporting \cup {"init", "close"}
      BY <3>1 DEF ExportInv
    <3>3. pc'[q] = pc[q]
      BY <2>1, <3>2 DEF LeavesOthers
    <3> QED
      BY <3>2, <3>3
  <2>2. CASE w = ExportID(c)
    <3>1. ~CloseWriter(c)
      BY <1>2, <2>2 DEF CloseWriter, Without
    <3>2. CASE RefusePush(c)
      <4>1. w \in DOMAIN writers /\ req[c].op # "mpush" /\ pc[c] = "start"
        BY <1>2, <3>2 DEF RefusePush, exportVars
      <4> USE <4>1
      <4>2. PICK q \in Clients : ExportID(q) = w /\ pc[q] \in Exporting \cup {"init", "close"}
        BY DEF ExportInv
      <4>3. q \in Clients \ {c}
        BY <4>2 DEF Exporting
      <4> QED
        BY <2>2, <4>2, <4>3, KeysDiffer
    <3>3. CASE ~RefusePush(c)
      <4>1. pc'[c] \in Exporting \cup {"init", "close"}
        BY <3>1, <3>3 DEF ExportStep, StartExports, InitExporter, InitFails, GetDestRef, GetSrcRef, NewImageSource,
              CopyImage, exportToIsulad, ExportFails, RemoveItem, Advance, Go, Exporting, Shape, ListShape
      <4> QED
        BY <2>2, <4>1
    <3> QED
      BY <3>2, <3>3
  <2> QED
    BY <2>1, <2>2
<1>3. ASSUME NEW q \in Clients
      PROVE  OwnInv(q)' /\ KeepInv(q)' /\ SourceInv(q)'
  <2>1. CASE q = c
    BY <2>1, OwnStep, KeepStep, SourceStep
  <2>2. CASE q # c
    BY <2>2, OthersExport
  <2> QED
    BY <2>1, <2>2
<1> QED
  BY <1>1, <1>2, <1>3, FiniteExport DEF ExportInv, LeavesOthers


-----------------------------------------------------------------------------
(* Finite sets.                                                            *)

INSTANCE FiniteSetTheorems

\* The image of a finite set under a function.
LEMMA FiniteImage ==
  ASSUME NEW f, NEW S, IsFiniteSet(S)
  PROVE  /\ IsFiniteSet({f[x] : x \in S})
         /\ Cardinality(S) \in Nat /\ Cardinality({f[x] : x \in S}) \in Nat
         /\ Cardinality({f[x] : x \in S}) <= Cardinality(S)
<1> DEFINE T == {f[x] : x \in S}
           g == [x \in S |-> f[x]]
<1>1. g \in Surjection(S, T)
  BY DEF Surjection
<1>2. IsFiniteSet(T) /\ Cardinality(T) <= Cardinality(S)
  <2> HIDE DEF T, g
  <2> QED
    BY <1>1, FS_Surjection
<1>3. Cardinality(S) \in Nat /\ Cardinality(T) \in Nat
  <2> HIDE DEF T
  <2> QED
    BY <1>2, FS_CardinalityType
<1> QED
  BY <1>2, <1>3

\* The facts about finite sets.
LEMMA FiniteFacts == Finite
<1>1. IsFiniteSet({}) /\ Cardinality({}) = 0
  BY FS_EmptySet
<1>2. ASSUME NEW S, NEW x, IsFiniteSet(S)
      PROVE  IsFiniteSet(S \cup {x})
  BY <1>2, FS_AddElement
<1>3. ASSUME NEW f, NEW S, IsFiniteSet(S)
      PROVE  /\ IsFiniteSet({f[x] : x \in S})
             /\ Cardinality(S) \in Nat /\ Cardinality({f[x] : x \in S}) \in 0..Cardinality(S)
  BY <1>3, FiniteImage, SMT
<1> QED
  BY <1>1, <1>2, <1>3 DEF Finite

-----------------------------------------------------------------------------
(* The theorems.                                                           *)

\* IInv is an invariant.
THEOREM Invariance == Spec => []IInv
<1>1. Init => IInv
  <2> SUFFICES ASSUME Init
               PROVE  IInv
    OBVIOUS
  <2>0. /\ lists = InitLists /\ pc = [c \in Clients |-> "start"] /\ mem = [c \in Clients |-> NewManifestList]
        /\ ListShape /\ ListInv /\ \A c \in Clients : ListPlace(c)
    BY ListsBegin DEF Init, ListInit
  <2> USE <2>0
  <2>1. Shape
    BY DEF Init, Shape, ExportShape, NothingSent
  <2>2. \A c \in Clients : PlaceInv(c)
    BY DEF PlaceInv, ExportPlace, Exporting
  <2>4. FiniteInv
    <3>1. IsFiniteSet(DOMAIN NewManifestList.inst)
      BY FiniteFacts DEF Finite, NewManifestList, Nothing
    <3>2. DOMAIN items = {}
      BY DEF Init, Nothing
    <3> QED
      BY <3>1, <3>2, ListsAssumption DEF FiniteInv
  <2>5. ASSUME NEW c \in Clients
        PROVE  OwnInv(c) /\ KeepInv(c) /\ SourceInv(c)
    <3>1. Got(c) = {} /\ asked[c] = {} /\ delivered[c] = {} /\ ~failed[c] /\ open[c] = 0 /\ list[c] = NothingSent
      BY DEF Init, Got, Nothing
    <3> QED
      BY <3>1 DEF OwnInv, KeepInv, SourceInv, Exporting
  <2>6. ExportInv
    BY <2>4, <2>5 DEF ExportInv, Init, Nothing
  <2> QED
    BY <2>1, <2>2, <2>6 DEF IInv
<1>2. IInv /\ [Next]_vars => IInv'
  <2> SUFFICES ASSUME IInv, [Next]_vars
               PROVE  IInv'
    OBVIOUS
  <2>0. Shape /\ ListInv /\ ExportInv /\ \A c \in Clients : PlaceInv(c)
    BY DEF IInv
  <2> USE <2>0
  <2>1. Shape'
    BY ShapeStep
  <2> USE <2>1
  <2>2. ASSUME NEW c \in Clients, ExportStep(c)
        PROVE  IInv'
    <3>1. \A q \in Clients : PlaceInv(q)'
      BY <2>2, ExportMoves, ExportFrame, SMT DEF PlaceInv, ListPlace, ExportPlace
    <3> QED
      BY ZenonT(30), <2>2, <3>1, FiniteFacts, ListsExport, ExportsExport DEF IInv
  <2>3. ASSUME NEW c \in Clients, ListStep(c), UNCHANGED exportVars
        PROVE  IInv'
    <3>1. \A q \in Clients : PlaceInv(q)'
      BY <2>3, ListMoves, SMT DEF Shape, ListShape, ExportShape, PlaceInv, ListPlace, ExportPlace, Exporting
    <3> QED
      BY ZenonT(30), <2>3, <3>1, FiniteFacts, ListsList, ExportsList DEF Shape, ListShape, ExportShape, PlaceInv, IInv
  <2>4. CASE OtherRequest /\ UNCHANGED exportVars
    <3>1. \A q \in Clients : PlaceInv(q)'
      BY <2>4 DEF OtherRequest, PlaceInv, ListPlace, ExportPlace
    <3> QED
      BY <2>4, <3>1, ListsOther, ExportsOther DEF Shape, ListShape, ExportShape, IInv
  <2>5. CASE UNCHANGED vars
    <3>1. UNCHANGED <<lists, req, pc, id, mem, todo, want, stale, tainted>> /\ UNCHANGED exportVars
      BY <2>5 DEF vars, listVars
    <3> USE <3>1
    <3>2. \A q \in Clients : PlaceInv(q)'
      BY DEF PlaceInv, ListPlace, ExportPlace
    <3>3. ListInv'
      BY ListsKept
    <3>4. FiniteInv'
      BY DEF ExportInv, FiniteInv, Key, ExportID, exportVars
    <3>5. ExportInv'
      BY <3>4, ExportsKept
    <3> QED
      BY <3>2, <3>3, <3>5 DEF IInv
  <2> QED
    BY <2>2, <2>3, <2>4, <2>5 DEF Next
<1> QED
  BY <1>1, <1>2, PTL DEF Spec

\* The two writes of SaveListToImage agree for every list that no two requests had in
\* memory at the same time and no crash has left half written.
THEOREM ListsCompleteCorrect == Spec => []ListsComplete
<1>1. IInv => ListsComplete
  BY ListsRight DEF IInv
<1> QED
  BY <1>1, Invariance, PTL

\* Nothing that ManifestCreate or ManifestAnnotate wrote into such a list is lost.
THEOREM AnnotationsKeptCorrect == Spec => []AnnotationsKept
<1>1. IInv => AnnotationsKept
  BY ListsRight DEF IInv
<1> QED
  BY <1>1, Invariance, PTL

\* However exports share the exporters, an export copies its own source to its own
\* destination, or fails.
THEOREM ExportsOwnCorrect == Spec => []ExportsOwn
<1>1. IInv => ExportsOwn
  <2> SUFFICES ASSUME IInv, NEW c \in Clients, ~overwritten[c]
               PROVE  /\ delivered[c] \subseteq asked[c]
                      /\ pc[c] = "ok" /\ ~unclosed[c] /\ req[c].op \in ExportOps
                         => delivered[c] = asked[c] /\ asked[c] # {}
    BY DEF ExportsOwn, ExportOps
  <2> QED
    BY DEF IInv, ExportInv, OwnInv, Got
<1> QED
  BY <1>1, Invariance, PTL

\* Remove, RemoveArchiveWriter and Close leave nothing of an export that has ended.
THEOREM NothingKeptCorrect == Spec => []NothingKept
<1>1. IInv => NothingKept
  BY DEF IInv, ExportInv, SourceInv, NothingKept, Done
<1> QED
  BY <1>1, Invariance, PTL

\* A manifest list is pushed whole or not at all.
THEOREM PushedListWholeCorrect == Spec => []PushedListWhole
<1>1. IInv => PushedListWhole
  BY DEF IInv, ExportInv, KeepInv, SourceInv, ExportOps, PushedListWhole
<1> QED
  BY <1>1, Invariance, PTL
=============================================================================
