------------------------------ MODULE ImageNames ------------------------------
(***************************************************************************)
(* Requests that change the names of the images of the local store, each   *)
(* in several steps: an image is looked up, and the names it had then are  *)
(* written back with a change.  Nothing is locked in between: Tag, Remove  *)
(* and builds do not take the daemon's lock, and Load and Import only      *)
(* share it.                                                               *)
(*                                                                         *)
(* The store (containers/storage) does each call atomically; setting a     *)
(* name takes it away from the image that had it.  An import or a commit   *)
(* first stores its image under a random name of its own; the request      *)
(* stands for that name.  The same content has the same ID, so the image   *)
(* may be there already, with names.                                       *)
(***************************************************************************)
EXTENDS Naturals, FiniteSets

CONSTANTS Images,   \* image IDs
          Tags,     \* names users give
          Reqs,     \* requests
          Jobs,     \* what a request may ask for
          NoImage

(* A job: op, the image or name it refers to (ref), its new names (add).   *)
ASSUME JobsAssumption ==
  /\ NoImage \notin Images
  /\ Tags \cap Reqs = {}
  /\ Jobs \subseteq [op : {"tag", "remove", "prune", "all", "load", "import", "build", "buildFrom"},
                     ref : Images \cup Tags, add : SUBSET Tags]
  /\ \A j \in Jobs : j.op \in {"load", "import", "build", "buildFrom"} => j.ref \in Images

VARIABLES
  stored,  \* images in the store
  names,   \* names of an image
  job,     \* what a request asks for
  pc,      \* where a request is
  img,     \* the image it works on
  snap,    \* the names of that image when it was read
  todo,    \* what a Remove has still to remove
  cur,     \* what it removes now
  failed,  \* one of its removals has failed
  raced    \* somebody changed what it had read (history)

vars == <<stored, names, job, pc, img, snap, todo, cur, failed, raced>>
storeVars == <<stored, names>>
reqVars == <<img, snap>>
removeVars == <<todo, cur, failed>>

Names == Tags \cup Reqs

Init ==
  /\ stored \in SUBSET Images
  /\ names \in [Images -> SUBSET Tags]
  /\ \A i \in Images : names[i] # {} => i \in stored
  /\ \A i, j \in Images : names[i] \cap names[j] # {} => i = j
  /\ job \in [Reqs -> Jobs]
  /\ pc = [r \in Reqs |-> "start"]
  /\ img = [r \in Reqs |-> NoImage]
  /\ snap = [r \in Reqs |-> {}]
  /\ todo = [r \in Reqs |-> {}]
  /\ cur = [r \in Reqs |-> NoImage]
  /\ failed = [r \in Reqs |-> FALSE]
  /\ raced = [r \in Reqs |-> FALSE]

Go(r, next) == pc' = [pc EXCEPT ![r] = next]
Read(r, i) == img' = [img EXCEPT ![r] = i] /\ snap' = [snap EXCEPT ![r] = names[i]]

\* FindImage: by ID or by name.
FindImage(ref) ==
  IF ref \in stored THEN ref
  ELSE IF \E i \in stored : ref \in names[i] THEN CHOOSE i \in stored : ref \in names[i]
  ELSE NoImage

\* What a request has read and will still rely on.
Watched(q) ==
  (IF pc[q] \in {"write", "act"} THEN {img[q]} ELSE {}) \cup (todo[q] \cap Images)

\* r has changed the store.
Race(r) ==
  raced' = [q \in Reqs |-> raced[q] \/ (q # r /\ \E i \in Watched(q) :
                                          names'[i] # names[i] \/ (i \in stored) # (i \in stored'))]

\* SetNames of the store.
SetNames(i, ns) ==
  /\ i \in stored
  /\ names' = [j \in Images |-> IF j = i THEN ns ELSE names[j] \ ns]
  /\ UNCHANGED stored

DeleteImage(i) ==
  /\ i \in stored
  /\ stored' = stored \ {i}
  /\ names' = [names EXCEPT ![i] = {}]

\* The names are written, or the image is no longer there and the request fails.
WriteNames(r, ns, next) ==
  /\ \/ SetNames(img[r], ns) /\ Go(r, next)
     \/ img[r] \notin stored /\ UNCHANGED storeVars /\ Go(r, "err")
  /\ Race(r)
  /\ UNCHANGED <<job, reqVars, removeVars>>

-----------------------------------------------------------------------------
(* Tag.                                                                    *)

TagFind(r) ==
  /\ pc[r] = "start" /\ job[r].op = "tag"
  /\ LET i == FindImage(job[r].ref) IN
       IF i = NoImage THEN Go(r, "err") /\ UNCHANGED reqVars
                      ELSE Go(r, "write") /\ Read(r, i)
  /\ UNCHANGED <<storeVars, job, removeVars, raced>>

\* Mutant of TagWrite: the names that were read go to the image that has the name now.
TagWriteFresh(r) ==
  /\ pc[r] = "write" /\ job[r].op = "tag"
  /\ FindImage(job[r].ref) # NoImage
  /\ SetNames(FindImage(job[r].ref), snap[r] \cup job[r].add)
  /\ Go(r, "ok")
  /\ Race(r)
  /\ UNCHANGED <<job, reqVars, removeVars>>

TagWrite(r) ==
  /\ pc[r] = "write" /\ job[r].op = "tag"
  /\ WriteNames(r, snap[r] \cup job[r].add, "ok")

-----------------------------------------------------------------------------
(* Load, Import and Build.                                                 *)

\* The image is copied to the store, or is there; tmp is its name for the time being.
PutImage(r, tmp) ==
  LET i == job[r].ref IN
  /\ stored' = stored \cup {i}
  /\ names' = [names EXCEPT ![i] = @ \cup tmp]
  /\ img' = [img EXCEPT ![r] = i]
  /\ Go(r, "find")
  /\ Race(r)
  /\ UNCHANGED <<job, snap, removeVars>>

\* The copy fails.
CopyFails(r) ==
  /\ pc[r] = "start" /\ job[r].op \in {"load", "import", "build", "buildFrom"}
  /\ Go(r, "err")
  /\ UNCHANGED <<storeVars, job, reqVars, removeVars, raced>>

LoadCopy(r) == pc[r] = "start" /\ job[r].op = "load" /\ PutImage(r, {})

ImportCopy(r) == pc[r] = "start" /\ job[r].op = "import" /\ PutImage(r, {r})

CommitCopy(r) == pc[r] = "start" /\ job[r].op = "build" /\ PutImage(r, {r})

\* Load looks the image up by its ID, Import and commit by the name of the copy.
FindOwn(r) ==
  /\ pc[r] = "find"
  /\ IF img[r] \in stored /\ (job[r].op # "load" => r \in names[img[r]])
     THEN Go(r, "write") /\ Read(r, img[r])
     ELSE Go(r, "err") /\ UNCHANGED reqVars
  /\ UNCHANGED <<storeVars, job, removeVars, raced>>

LoadWrite(r) ==
  /\ pc[r] = "write" /\ job[r].op = "load"
  /\ WriteNames(r, snap[r] \cup job[r].add, "ok")

ImportWrite(r) ==
  /\ pc[r] = "write" /\ job[r].op = "import"
  /\ WriteNames(r, (snap[r] \cup job[r].add) \ {r}, "ok")

\* Mutant of CommitWrite: the name of the copy stays.
CommitWriteKeeps(r) ==
  /\ pc[r] = "write" /\ job[r].op = "build"
  /\ WriteNames(r, snap[r], "tag")

CommitWrite(r) ==
  /\ pc[r] = "write" /\ job[r].op = "build"
  /\ WriteNames(r, snap[r] \ {r}, "tag")

\* A last stage that is only a FROM commits nothing: the build's image is that of FROM,
\* which is in the store (or was pulled).
UseFromImage(r) ==
  /\ pc[r] = "start" /\ job[r].op = "buildFrom"
  /\ job[r].ref \in stored
  /\ img' = [img EXCEPT ![r] = job[r].ref]
  /\ Go(r, "tag")
  /\ UNCHANGED <<storeVars, job, snap, removeVars, raced>>

\* The tags of the build become the names of the image.
ApplyTag(r) ==
  /\ pc[r] = "tag"
  /\ IF job[r].add = {}
     THEN Go(r, "ok") /\ UNCHANGED <<storeVars, job, reqVars, removeVars, raced>>
     ELSE WriteNames(r, job[r].add, "ok")

-----------------------------------------------------------------------------
(* Remove.                                                                 *)

\* getImageIDs: prune lists the images without names.
RemoveList(r) ==
  /\ pc[r] = "start" /\ job[r].op \in {"remove", "prune", "all"}
  /\ todo' = [todo EXCEPT ![r] = CASE job[r].op = "remove" -> {job[r].ref}
                                   [] job[r].op = "prune" -> {i \in stored : names[i] = {}}
                                   [] job[r].op = "all" -> stored]
  /\ Go(r, "loop")
  /\ UNCHANGED <<storeVars, job, reqVars, cur, failed, raced>>

RemoveFind(r) ==
  /\ pc[r] = "loop"
  /\ \E ref \in todo[r] :
       /\ cur' = [cur EXCEPT ![r] = ref]
       /\ LET i == FindImage(ref) IN
            IF i = NoImage
            THEN /\ failed' = [failed EXCEPT ![r] = TRUE]
                 /\ todo' = [todo EXCEPT ![r] = @ \ {ref}]
                 /\ UNCHANGED <<pc, reqVars>>
            ELSE Read(r, i) /\ Go(r, "act") /\ UNCHANGED <<todo, failed>>
  /\ UNCHANGED <<storeVars, job, raced>>

\* An image that had several names only loses the one it was found by; otherwise the
\* image is deleted, which the store may refuse.
RemoveAct(r) ==
  /\ pc[r] = "act"
  /\ \/ /\ IF Cardinality(snap[r]) > 1 /\ cur[r] \in snap[r]
           THEN SetNames(img[r], snap[r] \ {cur[r]})
           ELSE DeleteImage(img[r])
        /\ UNCHANGED failed
     \/ /\ UNCHANGED storeVars
        /\ failed' = [failed EXCEPT ![r] = TRUE]
  /\ todo' = [todo EXCEPT ![r] = @ \ {cur[r]}]
  /\ Go(r, "loop")
  /\ Race(r)
  /\ UNCHANGED <<job, reqVars, cur>>

RemoveEnd(r) ==
  /\ pc[r] = "loop" /\ todo[r] = {}
  /\ Go(r, CASE failed[r] -> "err" [] ~failed[r] /\ job[r].op = "all" -> "reset" [] OTHER -> "ok")
  /\ UNCHANGED <<storeVars, job, reqVars, removeVars, raced>>

\* resetDataRoot empties the directories of the store, whatever has come there since.
ResetDataRoot(r) ==
  /\ pc[r] = "reset"
  /\ stored' = {}
  /\ names' = [i \in Images |-> {}]
  /\ Go(r, "ok")
  /\ Race(r)
  /\ UNCHANGED <<job, reqVars, removeVars>>

Step(r) ==
  \/ TagFind(r) \/ TagWrite(r)
  \/ LoadCopy(r) \/ ImportCopy(r) \/ CommitCopy(r) \/ CopyFails(r) \/ FindOwn(r)
  \/ LoadWrite(r) \/ ImportWrite(r) \/ CommitWrite(r) \/ UseFromImage(r) \/ ApplyTag(r)
  \/ RemoveList(r) \/ RemoveFind(r) \/ RemoveAct(r) \/ RemoveEnd(r) \/ ResetDataRoot(r)

Next == \E r \in Reqs : Step(r)

Spec == Init /\ [][Next]_vars

-----------------------------------------------------------------------------
Done(r) == pc[r] \in {"ok", "err"}

\* Types; names belong to stored images, and a name to one image only.
TypeOK ==
  /\ stored \subseteq Images
  /\ names \in [Images -> SUBSET Names]
  /\ job \in [Reqs -> Jobs]
  /\ pc \in [Reqs -> {"start", "find", "write", "tag", "loop", "act", "reset", "ok", "err"}]
  /\ img \in [Reqs -> Images \cup {NoImage}]
  /\ snap \in [Reqs -> SUBSET Names]
  /\ todo \in [Reqs -> SUBSET (Images \cup Tags)]
  /\ cur \in [Reqs -> Images \cup Tags \cup {NoImage}]
  /\ failed \in [Reqs -> BOOLEAN] /\ raced \in [Reqs -> BOOLEAN]
  /\ \A i \in Images : names[i] # {} => i \in stored
  /\ \A i, j \in Images : names[i] \cap names[j] # {} => i = j

\* A request has asked for n to be a name of image i.
Asked(i, n) == \E r \in Reqs : img[r] = i /\ (n \in job[r].add \/ n = r)

\* Races lose names, and bring back ones that were removed, but they never give an
\* image a name that nobody gave to it: a name is new on an image only by a request
\* that asked for it there, or because a request had read it there before.
NamesGiven ==
  [][\A i \in Images : \A n \in names'[i] \ names[i] :
       Asked(i, n)' \/ \E r \in Reqs : img[r] = i /\ n \in snap[r]]_vars

\* Names of copies do not outlive their request, unless some request was raced.
CopyNamesRemoved ==
  (\A q \in Reqs : ~raced[q]) => \A r \in Reqs : Done(r) => \A i \in Images : r \notin names[i]
=============================================================================
