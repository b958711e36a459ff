--------------------------- MODULE ImageNamesProofs ---------------------------
(* Proofs about the names of images, for any number of images, names and     *)
(* requests.                                                                 *)
EXTENDS ImageNames, TLAPS

\* Requests that have not begun have no copy yet.
FreshOf(r) ==
  pc[r] = "start" => /\ \A i \in Images : r \notin names[i]
                     /\ \A q \in Reqs : r \notin snap[q]

Copies(r) == job[r].op \in {"import", "build"}

\* The image a request has in hand, and the operations that pass through a place.
PlaceOf(r) ==
  /\ pc[r] \in {"find", "write", "tag", "act"} => img[r] \in Images
  /\ pc[r] \in {"loop", "act", "reset"} => ~Copies(r)

\* As long as nothing was raced, the name of a copy is where its request has put it,
\* until it is removed, and what a request has read is still so.
QuietOf(r) ==
  /\ \A i \in Images : r \in names[i] => pc[r] \in {"find", "write"} /\ img[r] = i /\ Copies(r)
  /\ pc[r] \in {"write", "act"} => snap[r] = names[img[r]]

Quiet == (\A q \in Reqs : ~raced[q]) => \A r \in Reqs : QuietOf(r)

IInv == TypeOK /\ (\A r \in Reqs : FreshOf(r) /\ PlaceOf(r)) /\ Quiet

\* The fields of a job.
LEMMA JobTypes ==
  ASSUME IInv, NEW r \in Reqs
  PROVE  /\ job[r].add \subseteq Tags
         /\ job[r].ref \in Images \cup Tags
         /\ job[r].op \in {"load", "import", "build", "buildFrom"} => job[r].ref \in Images
<1>1. job[r] \in Jobs
  BY DEF IInv, TypeOK
<1> QED
  BY <1>1, JobsAssumption

\* What FindImage gives is stored.
LEMMA FindStored ==
  ASSUME NEW ref, FindImage(ref) # NoImage
  PROVE  FindImage(ref) \in stored
  BY DEF FindImage

\* At the start no name of a copy is in the store.
LEMMA InitInv == Init => IInv
<1> SUFFICES ASSUME Init PROVE IInv
  OBVIOUS
<1>1. TypeOK
  BY JobsAssumption DEF Init, TypeOK, Names
<1>2. \A r \in Reqs, i \in Images : r \notin names[i]
  BY JobsAssumption DEF Init
<1> QED
  BY <1>1, <1>2 DEF Init, IInv, FreshOf, PlaceOf, Quiet, QuietOf

\* Nothing is raced after a step only if nothing was before.
LEMMA RaceKeeps ==
  ASSUME TypeOK, NEW r \in Reqs, Race(r), NEW q \in Reqs, ~raced'[q]
  PROVE  /\ ~raced[q]
         /\ q # r => \A i \in Watched(q) : names'[i] = names[i] /\ ((i \in stored') <=> (i \in stored))
  BY DEF Race, TypeOK

\* SetNames keeps names apart.
LEMMA SetNamesTypes ==
  ASSUME TypeOK, NEW i, NEW ns \in SUBSET Names, SetNames(i, ns)
  PROVE  /\ i \in Images
         /\ names' \in [Images -> SUBSET Names] /\ stored' \subseteq Images
         /\ \A j \in Images : names'[j] # {} => j \in stored'
         /\ \A j, k \in Images : names'[j] \cap names'[k] # {} => j = k
  BY DEF SetNames, TypeOK

\* The names a request writes are those it has read, and tags; the name of its copy is
\* not among them.
LEMMA WriteKeeps ==
  ASSUME IInv, NEW r \in Reqs, NEW ns, NEW next \in {"ok", "tag"},
         pc[r] \in {"write", "tag"},
         ns \subseteq Tags \cup (IF pc[r] = "write" THEN snap[r] ELSE {}),
         Copies(r) => r \notin ns,
         WriteNames(r, ns, next)
  PROVE  IInv'
<1> DEFINE i == img[r]
<1> USE JobsAssumption
<1>1. ns \in SUBSET Names /\ \A q \in Reqs : pc[q] = "start" => q \notin ns
  BY DEF IInv, TypeOK, Names, FreshOf
<1>2. pc'[r] \in {"ok", "tag", "err"} /\ \A q \in Reqs : q # r => pc'[q] = pc[q]
  BY DEF WriteNames, Go, IInv, TypeOK
<1>3. UNCHANGED <<job, img, snap, todo, cur, failed>>
  BY DEF WriteNames, reqVars, removeVars
<1>4. raced' \in [Reqs -> BOOLEAN] /\ pc' \in [Reqs -> {"start", "find", "write", "tag", "loop", "act", "reset", "ok", "err"}]
  BY SMTT(30) DEF WriteNames, Go, IInv, TypeOK, Race
<1>5. TypeOK'
  <2>1. CASE SetNames(i, ns)
    BY <2>1, <1>1, <1>3, <1>4, SetNamesTypes DEF IInv, TypeOK
  <2>2. CASE UNCHANGED storeVars
    BY <2>2, <1>3, <1>4 DEF IInv, TypeOK, storeVars
  <2> QED
    BY <2>1, <2>2 DEF WriteNames
<1>6. \A j \in Images : names'[j] \subseteq names[j] \cup (IF j = i THEN ns ELSE {})
  BY DEF WriteNames, SetNames, storeVars, IInv, TypeOK
<1>7. \A q \in Reqs : FreshOf(q)' /\ PlaceOf(q)'
  BY <1>1, <1>2, <1>3, <1>6 DEF IInv, FreshOf, PlaceOf, Copies
<1>8. Quiet'
  <2> SUFFICES ASSUME \A q \in Reqs : ~raced'[q], NEW q \in Reqs
               PROVE  QuietOf(q)'
    BY DEF Quiet
  <2>1. \A x \in Reqs : QuietOf(x)
    BY RaceKeeps DEF IInv, Quiet, WriteNames
  <2>2. ns \subseteq Tags \cup names[i]
    BY <2>1 DEF QuietOf
  <2>3. \A x \in Reqs, j \in Images : x \in names'[j] => x \in names[j]
    BY <2>2, <1>6
  <2>4. \A j \in Images : r \notin names'[j]
    <3>1. CASE i \notin stored /\ UNCHANGED storeVars
      BY <3>1, <2>1 DEF QuietOf, IInv, TypeOK, PlaceOf, storeVars
    <3>2. CASE SetNames(i, ns)
      BY <3>2, <2>1, <2>3 DEF SetNames, QuietOf, IInv, TypeOK, PlaceOf
    <3> QED
      BY <3>1, <3>2 DEF WriteNames
  <2>5. CASE q = r
    BY <2>4, <2>5, <1>2 DEF QuietOf
  <2>6. CASE q # r
    <3>1. pc[q] \in {"write", "act"} => names'[img[q]] = names[img[q]]
      BY <2>6, RaceKeeps DEF IInv, WriteNames, Watched
    <3> QED
      BY <2>1, <2>3, <2>6, <3>1, <1>2, <1>3 DEF QuietOf, Copies
  <2> QED
    BY <2>5, <2>6
<1> QED
  BY <1>5, <1>7, <1>8 DEF IInv

\* Tag, Load, Import, commit and applyTag write what WriteKeeps allows.
LEMMA NamingKeeps ==
  ASSUME IInv, NEW r \in Reqs,
         TagWrite(r) \/ LoadWrite(r) \/ ImportWrite(r) \/ CommitWrite(r) \/ ApplyTag(r)
  PROVE  IInv'
<1>1. CASE TagWrite(r)
  BY <1>1, WriteKeeps, JobTypes DEF TagWrite, Copies
<1>2. CASE LoadWrite(r)
  BY <1>2, WriteKeeps, JobTypes DEF LoadWrite, Copies
<1>3. CASE ImportWrite(r)
  BY <1>3, WriteKeeps, JobTypes DEF ImportWrite
<1>4. CASE CommitWrite(r)
  BY <1>4, WriteKeeps DEF CommitWrite
<1>5. CASE ApplyTag(r)
  <2>1. CASE job[r].add = {}
    <3>1. TypeOK'
      BY <1>5, <2>1 DEF ApplyTag, Go, IInv, TypeOK, storeVars, reqVars, removeVars
    <3> QED
      BY <1>5, <2>1, <3>1
      DEF ApplyTag, Go, IInv, TypeOK, FreshOf, PlaceOf, Quiet, QuietOf, Copies, storeVars, reqVars,
          removeVars
  <2>2. CASE job[r].add # {}
    BY <1>5, <2>2, WriteKeeps, JobTypes, JobsAssumption DEF ApplyTag
  <2> QED
    BY <2>1, <2>2
<1> QED
  BY <1>1, <1>2, <1>3, <1>4, <1>5

\* Steps that only read the store and change nothing but the place of their request
\* and what it has read.
LEMMA ReadKeeps ==
  ASSUME IInv, NEW r \in Reqs,
         TagFind(r) \/ CopyFails(r) \/ FindOwn(r) \/ UseFromImage(r)
         \/ RemoveList(r) \/ RemoveFind(r) \/ RemoveEnd(r)
  PROVE  IInv'
<1> USE JobsAssumption
<1>1. UNCHANGED <<stored, names, job, raced>>
  BY DEF TagFind, CopyFails, FindOwn, UseFromImage, RemoveList, RemoveFind, RemoveEnd, storeVars
<1>2. /\ pc'[r] # "start"
      /\ pc' \in [Reqs -> {"start", "find", "write", "tag", "loop", "act", "reset", "ok", "err"}]
      /\ \A q \in Reqs : q # r => pc'[q] = pc[q] /\ img'[q] = img[q] /\ snap'[q] = snap[q]
  <2>1. CASE RemoveFind(r)
    BY <2>1 DEF RemoveFind, Go, Read, reqVars, IInv, TypeOK
  <2>2. CASE RemoveEnd(r)
    <3>1. PICK next \in {"err", "reset", "ok"} : Go(r, next)
      BY <2>2 DEF RemoveEnd, IInv, TypeOK
    <3> QED
      BY <2>2, <3>1 DEF RemoveEnd, Go, reqVars, IInv, TypeOK
  <2>3. CASE TagFind(r) \/ FindOwn(r)
    BY <2>3 DEF TagFind, FindOwn, Go, Read, reqVars, IInv, TypeOK
  <2>4. CASE CopyFails(r) \/ UseFromImage(r) \/ RemoveList(r)
    BY <2>4 DEF CopyFails, UseFromImage, RemoveList, Go, reqVars, IInv, TypeOK
  <2> QED
    BY <2>1, <2>2, <2>3, <2>4
<1>3. /\ img' \in [Reqs -> Images \cup {NoImage}] /\ snap' \in [Reqs -> SUBSET Names]
      /\ snap'[r] = snap[r] \/ \E i \in Images : snap'[r] = names[i]
      /\ pc'[r] \in {"write", "act"} => img'[r] \in Images /\ snap'[r] = names[img'[r]]
      /\ pc'[r] = "tag" => img'[r] \in Images
      /\ pc'[r] # "find"
      /\ pc'[r] \in {"loop", "act", "reset"} => ~Copies(r)
  <2>1. CASE TagFind(r)
    BY <2>1, FindStored DEF TagFind, Go, Read, reqVars, IInv, TypeOK
  <2>2. CASE CopyFails(r) \/ UseFromImage(r)
    BY <2>2, JobTypes DEF CopyFails, UseFromImage, Go, reqVars, IInv, TypeOK
  <2>3. CASE FindOwn(r)
    BY <2>3 DEF FindOwn, Go, Read, reqVars, IInv, TypeOK, PlaceOf
  <2>4. CASE RemoveList(r)
    BY <2>4 DEF RemoveList, Go, reqVars, IInv, TypeOK, Copies
  <2>5. CASE RemoveFind(r)
    <3>1. PICK ref \in todo[r] :
            IF FindImage(ref) = NoImage THEN UNCHANGED <<pc, reqVars>>
            ELSE Read(r, FindImage(ref)) /\ Go(r, "act")
      BY <2>5 DEF RemoveFind
    <3>2. pc[r] = "loop" /\ ~Copies(r)
      BY <2>5 DEF RemoveFind, IInv, PlaceOf
    <3>3. CASE FindImage(ref) = NoImage
      BY <3>1, <3>2, <3>3 DEF reqVars, IInv, TypeOK
    <3>4. CASE FindImage(ref) # NoImage
      <4>1. FindImage(ref) \in Images
        BY <3>4, FindStored DEF IInv, TypeOK
      <4>2. /\ img' = [img EXCEPT ![r] = FindImage(ref)]
            /\ snap' = [snap EXCEPT ![r] = names[FindImage(ref)]]
            /\ pc' = [pc EXCEPT ![r] = "act"]
        BY <3>1, <3>4 DEF Read, Go
      <4>3. names[FindImage(ref)] \in SUBSET Names
        BY <4>1 DEF IInv, TypeOK
      <4>4. pc'[r] = "act" /\ img'[r] = FindImage(ref) /\ snap'[r] = names[FindImage(ref)]
        BY <4>2 DEF IInv, TypeOK
      <4> QED
        BY <3>2, <4>1, <4>2, <4>3, <4>4 DEF IInv, TypeOK
    <3> QED
      BY <3>3, <3>4
  <2>6. CASE RemoveEnd(r)
    BY <2>6 DEF RemoveEnd, Go, reqVars, IInv, TypeOK, PlaceOf, Copies
  <2> QED
    BY <2>1, <2>2, <2>3, <2>4, <2>5, <2>6
<1>4. /\ todo' \in [Reqs -> SUBSET (Images \cup Tags)]
      /\ cur' \in [Reqs -> Images \cup Tags \cup {NoImage}]
      /\ failed' \in [Reqs -> BOOLEAN]
  <2>1. CASE RemoveList(r)
    <3>1. todo' \in [Reqs -> SUBSET (Images \cup Tags)]
      BY <2>1, JobTypes DEF RemoveList, IInv, TypeOK
    <3> QED
      BY <2>1, <3>1 DEF RemoveList, IInv, TypeOK
  <2>2. CASE RemoveFind(r)
    <3>1. PICK ref \in todo[r] :
            /\ cur' = [cur EXCEPT ![r] = ref]
            /\ \/ failed' = [failed EXCEPT ![r] = TRUE] /\ todo' = [todo EXCEPT ![r] = @ \ {ref}]
               \/ UNCHANGED <<todo, failed>>
      BY <2>2 DEF RemoveFind
    <3>2. ref \in Images \cup Tags
      BY <3>1 DEF IInv, TypeOK
    <3>3. cur' \in [Reqs -> Images \cup Tags \cup {NoImage}]
      BY <3>1, <3>2 DEF IInv, TypeOK
    <3>4. todo' \in [Reqs -> SUBSET (Images \cup Tags)]
      BY <3>1 DEF IInv, TypeOK
    <3>5. failed' \in [Reqs -> BOOLEAN]
      BY <3>1 DEF IInv, TypeOK
    <3> QED
      BY <3>3, <3>4, <3>5
  <2> QED
    BY <2>1, <2>2 DEF TagFind, CopyFails, FindOwn, UseFromImage, RemoveEnd, removeVars, IInv, TypeOK
<1>5. TypeOK'
  BY <1>1, <1>2, <1>3, <1>4 DEF IInv, TypeOK
<1>6. \A q \in Reqs : FreshOf(q)' /\ PlaceOf(q)'
  BY <1>1, <1>2, <1>3 DEF IInv, FreshOf, PlaceOf, Copies
<1>7. (\A i \in Images : r \in names[i] => pc[r] \in {"find", "write"} /\ Copies(r))
      => \A i \in Images : r \in names[i] /\ img[r] = i => pc'[r] \in {"find", "write"} /\ img'[r] = i
  BY DEF TagFind, CopyFails, FindOwn, UseFromImage, RemoveList, RemoveFind, RemoveEnd, Copies,
         Go, Read, reqVars, IInv, TypeOK
<1>8. Quiet'
  BY <1>1, <1>2, <1>3, <1>7 DEF IInv, Quiet, QuietOf, Copies
<1> QED
  BY <1>5, <1>6, <1>8 DEF IInv

\* The name of a copy is new in the store.
LEMMA PutKeeps ==
  ASSUME IInv, NEW r \in Reqs, LoadCopy(r) \/ ImportCopy(r) \/ CommitCopy(r)
  PROVE  IInv'
<1> DEFINE i == job[r].ref
<1> USE JobsAssumption
<1>1. i \in Images /\ pc[r] = "start"
  BY JobTypes DEF LoadCopy, ImportCopy, CommitCopy
<1>2. PICK tmp \in SUBSET {r} : PutImage(r, tmp) /\ (tmp # {} => Copies(r))
  BY DEF LoadCopy, ImportCopy, CommitCopy, Copies
<1>3. /\ names' = [names EXCEPT ![i] = @ \cup tmp] /\ stored' = stored \cup {i}
      /\ img' = [img EXCEPT ![r] = i] /\ pc' = [pc EXCEPT ![r] = "find"]
      /\ UNCHANGED <<job, snap, todo, cur, failed>>
      /\ Race(r)
  BY <1>2 DEF PutImage, Go, removeVars
<1>4. \A j \in Images : names'[j] = IF j = i THEN names[i] \cup tmp ELSE names[j]
  BY <1>3 DEF IInv, TypeOK
<1>5. \A j \in Images : r \notin names[j]
  BY <1>1 DEF IInv, FreshOf
<1>6. TypeOK'
  <2>1. /\ names' \in [Images -> SUBSET Names]
        /\ \A j \in Images : names'[j] # {} => j \in stored'
    BY <1>1, <1>3, <1>4 DEF IInv, TypeOK, Names
  <2>2. \A j, k \in Images : names'[j] \cap names'[k] # {} => j = k
    BY <1>4, <1>5 DEF IInv, TypeOK
  <2>3. raced' \in [Reqs -> BOOLEAN]
    BY <1>3 DEF IInv, TypeOK, Race
  <2> QED
    BY <2>1, <2>2, <2>3, <1>1, <1>3 DEF IInv, TypeOK
<1>7. \A q \in Reqs : q # r => pc'[q] = pc[q] /\ img'[q] = img[q]
  BY <1>3 DEF IInv, TypeOK
<1>8. pc'[r] = "find" /\ img'[r] = i
  BY <1>3 DEF IInv, TypeOK
<1>9. \A q \in Reqs : FreshOf(q)' /\ PlaceOf(q)'
  BY <1>1, <1>3, <1>4, <1>7, <1>8 DEF IInv, FreshOf, PlaceOf, Copies
<1>10. Quiet'
  <2> SUFFICES ASSUME \A q \in Reqs : ~raced'[q], NEW q \in Reqs
               PROVE  QuietOf(q)'
    BY DEF Quiet
  <2>1. QuietOf(q)
    BY <1>3, RaceKeeps DEF IInv, Quiet
  <2>2. CASE q = r
    BY <2>2, <1>2, <1>3, <1>4, <1>5, <1>8 DEF QuietOf, Copies
  <2>3. CASE q # r
    <3>1. pc[q] \in {"write", "act"} => names'[img[q]] = names[img[q]]
      BY <2>3, <1>3, RaceKeeps DEF IInv, Watched
    <3> QED
      BY <2>1, <2>3, <3>1, <1>3, <1>4, <1>7 DEF QuietOf, Copies
  <2> QED
    BY <2>2, <2>3
<1> QED
  BY <1>6, <1>9, <1>10 DEF IInv

\* A removal brings back names that it has read, at most.
LEMMA RemovalKeeps ==
  ASSUME IInv, NEW r \in Reqs, RemoveAct(r) \/ ResetDataRoot(r)
  PROVE  IInv'
<1> USE JobsAssumption
<1>1. pc[r] \in {"act", "reset"} /\ ~Copies(r) /\ Race(r)
  BY DEF RemoveAct, ResetDataRoot, IInv, PlaceOf
<1>2. /\ pc'[r] \in {"loop", "ok"} /\ \A q \in Reqs : q # r => pc'[q] = pc[q]
      /\ UNCHANGED <<job, img, snap, cur>>
  BY DEF RemoveAct, ResetDataRoot, Go, reqVars, removeVars, IInv, TypeOK
<1>3. /\ pc' \in [Reqs -> {"start", "find", "write", "tag", "loop", "act", "reset", "ok", "err"}]
      /\ todo' \in [Reqs -> SUBSET (Images \cup Tags)]
      /\ failed' \in [Reqs -> BOOLEAN] /\ raced' \in [Reqs -> BOOLEAN]
  <2>1. raced' \in [Reqs -> BOOLEAN]
    BY <1>1 DEF Race, IInv, TypeOK
  <2>2. CASE RemoveAct(r)
    BY <2>1, <2>2 DEF RemoveAct, Go, IInv, TypeOK
  <2>3. CASE ResetDataRoot(r)
    BY <2>1, <2>3 DEF ResetDataRoot, Go, removeVars, IInv, TypeOK
  <2> QED
    BY <2>2, <2>3
<1>4. /\ stored' \subseteq Images /\ names' \in [Images -> SUBSET Names]
      /\ \A j \in Images : names'[j] # {} => j \in stored'
      /\ \A j, k \in Images : names'[j] \cap names'[k] # {} => j = k
      /\ \A j \in Images : names'[j] \subseteq names[j] \cup
                             (IF j = img[r] /\ pc[r] = "act" THEN snap[r] ELSE {})
  <2>1. CASE SetNames(img[r], snap[r] \ {cur[r]}) /\ pc[r] = "act"
    <3>1. snap[r] \ {cur[r]} \in SUBSET Names
      BY DEF IInv, TypeOK
    <3>2. \A j \in Images : names'[j] \subseteq names[j] \cup (IF j = img[r] THEN snap[r] ELSE {})
      BY <2>1 DEF SetNames, IInv, TypeOK
    <3> QED
      BY <2>1, <3>1, <3>2, SetNamesTypes DEF IInv
  <2>2. CASE DeleteImage(img[r])
    BY <2>2 DEF DeleteImage, IInv, TypeOK
  <2>3. CASE UNCHANGED storeVars
    BY <2>3 DEF storeVars, IInv, TypeOK
  <2>4. CASE ResetDataRoot(r)
    BY <2>4 DEF ResetDataRoot, IInv, TypeOK
  <2> QED
    BY <2>1, <2>2, <2>3, <2>4 DEF RemoveAct
<1>5. TypeOK'
  BY <1>2, <1>3, <1>4 DEF IInv, TypeOK
<1>6. \A q \in Reqs : FreshOf(q)' /\ PlaceOf(q)'
  BY <1>1, <1>2, <1>4 DEF IInv, FreshOf, PlaceOf, Copies
<1>7. Quiet'
  <2> SUFFICES ASSUME \A q \in Reqs : ~raced'[q], NEW q \in Reqs
               PROVE  QuietOf(q)'
    BY DEF Quiet
  <2>1. QuietOf(q) /\ QuietOf(r)
    BY <1>1, RaceKeeps DEF IInv, Quiet
  <2>2. \A j \in Images : names'[j] \subseteq names[j]
    BY <2>1, <1>4 DEF QuietOf
  <2>3. CASE q = r
    BY <2>1, <2>2, <2>3, <1>1, <1>2 DEF QuietOf
  <2>4. CASE q # r
    <3>1. pc[q] \in {"write", "act"} => names'[img[q]] = names[img[q]]
      BY <2>4, <1>1, RaceKeeps DEF IInv, Watched
    <3> QED
      BY <2>1, <2>2, <2>4, <3>1, <1>2 DEF QuietOf, Copies
  <2> QED
    BY <2>3, <2>4
<1> QED
  BY <1>5, <1>6, <1>7 DEF IInv

\* The invariant holds in every state of every instance.
LEMMA Invariance == Spec => []IInv
<1>1. IInv /\ [Next]_vars => IInv'
  <2> SUFFICES ASSUME IInv, [Next]_vars PROVE IInv'
    OBVIOUS
  <2>1. CASE UNCHANGED vars
    BY <2>1 DEF vars, IInv, TypeOK, FreshOf, PlaceOf, Quiet, QuietOf, Copies
  <2> QED
    BY <2>1, NamingKeeps, ReadKeeps, PutKeeps, RemovalKeeps DEF Next, Step
<1> QED
  BY <1>1, InitInv, PTL DEF Spec

\* A name belongs to one image only, and to one that is stored, whatever requests write
\* names back that they have read before.
THEOREM TypeCorrect == Spec => []TypeOK
<1>1. IInv => TypeOK
  BY DEF IInv
<1> QED
  BY <1>1, Invariance, PTL

\* Import and commit leave no name of a copy behind, as long as nothing is raced.
THEOREM CopiesRemoved == Spec => []CopyNamesRemoved
<1>1. IInv => CopyNamesRemoved
  BY DEF IInv, Quiet, QuietOf, CopyNamesRemoved, Done
<1> QED
  BY <1>1, Invariance, PTL

\* No race of Tag, Remove, Load, Import and builds gives an image a name that no request
\* asked for or had read there.
THEOREM OnlyGivenNames == Spec => NamesGiven
<1>1. ASSUME IInv, [Next]_vars, NEW i \in Images, NEW n \in names'[i] \ names[i]
      PROVE  Asked(i, n)' \/ \E r \in Reqs : img[r] = i /\ n \in snap[r]
  <2> USE <1>1
  <2>1. PICK r \in Reqs : Step(r)
    BY DEF Next, vars
  <2>2. ASSUME NEW ns, WriteNames(r, ns, "ok") \/ WriteNames(r, ns, "tag")
        PROVE  img[r] = i /\ n \in ns /\ img' = img /\ job' = job
    BY <2>2 DEF WriteNames, SetNames, storeVars, reqVars, IInv, TypeOK
  <2>3. CASE TagWrite(r)
    BY <2>2, <2>3 DEF TagWrite, Asked
  <2>4. CASE LoadWrite(r)
    BY <2>2, <2>4 DEF LoadWrite, Asked
  <2>5. CASE ImportWrite(r)
    BY <2>2, <2>5 DEF ImportWrite, Asked
  <2>6. CASE CommitWrite(r)
    BY <2>2, <2>6 DEF CommitWrite
  <2>7. CASE ApplyTag(r)
    BY <2>2, <2>7 DEF ApplyTag, Asked, storeVars
  <2>8. CASE LoadCopy(r) \/ ImportCopy(r) \/ CommitCopy(r)
    BY <2>8 DEF LoadCopy, ImportCopy, CommitCopy, PutImage, Asked, IInv, TypeOK
  <2>9. CASE RemoveAct(r)
    BY <2>9 DEF RemoveAct, SetNames, DeleteImage, storeVars, IInv, TypeOK
  <2>10. CASE ResetDataRoot(r)
    BY <2>10 DEF ResetDataRoot
  <2> QED
    BY <2>1, <2>3, <2>4, <2>5, <2>6, <2>7, <2>8, <2>9, <2>10
    DEF Step, TagFind, CopyFails, FindOwn, UseFromImage, RemoveList, RemoveFind, RemoveEnd, storeVars
<1>2. IInv /\ [Next]_vars =>
        \A i \in Images : \A n \in names'[i] \ names[i] :
          Asked(i, n)' \/ \E r \in Reqs : img[r] = i /\ n \in snap[r]
  BY <1>1
<1> QED
  BY <1>2, Invariance, PTL DEF Spec, NamesGiven
===============================================================================
