------------------------------- MODULE Exporter -------------------------------
(***************************************************************************)
(* Exports.  Builds, saves and pushes hand images to Export one after the  *)
(* other.  An exporter is shared by all of them: its items are a map from  *)
(* export IDs to the pair of references an export works with, which Init   *)
(* writes, and which is read in two steps, each under a lock of its own.   *)
(* The docker-archive exporter also keeps a writer for each export ID.  A  *)
(* push of a manifest list goes the same way, without an export ID.        *)
(***************************************************************************)
EXTENDS ManifestLists, Functions

CONSTANTS NoRef,
          NoID    \* the empty export ID

\* A push of a list is of one list, with the exporter for lists, whose Init fails for any
\* other image and so for any other request; no request has the empty export ID for its
\* own.
ASSUME ExportsAssumption ==
  /\ \A r \in Requests, c \in Clients :
       /\ r[c].op \in {"build", "save", "push"} =>
            r[c].ex \in {"docker", "docker-daemon", "oci", "oci-archive", "docker-archive", "isulad"}
       /\ r[c].op = "mpush" => r[c].ex = "manifest" /\ r[c].images = <<r[c].images[1]>>
  /\ NoID \notin Clients

VARIABLES
  items,        \* <<exporter, export ID>> -> [src, dest]
  writers,      \* export ID -> what the archive of the export has so far
  ref,          \* the references an export has got: [src, dest]
  list,         \* what a push of a list reads and sends: [man, sources, sent]
  open,         \* number of sources of instances that are open
  failed,       \* an export of the request has failed
  asked,        \* <<source, destination>> pairs Init was called with (history)
  delivered,    \* pairs that have really been copied (history)
  overwritten,  \* another push of a list began during this one (history)
  unclosed      \* the archive could not be closed (history)

exportVars == <<items, writers, ref, list, open, failed, asked, delivered, overwritten, unclosed>>
vars == <<listVars, pc, crashed, exportVars>>

NothingSent == [man |-> Nothing, sources |-> {}, sent |-> {}]

Init ==
  /\ ListInit
  /\ items = Nothing /\ writers = Nothing
  /\ ref = [c \in Clients |-> [src |-> NoRef, dest |-> NoRef]]
  /\ list = [c \in Clients |-> NothingSent]
  /\ open = [c \in Clients |-> 0]
  /\ asked = [c \in Clients |-> {}] /\ delivered = [c \in Clients |-> {}]
  /\ failed = [c \in Clients |-> FALSE]
  /\ overwritten = [c \in Clients |-> FALSE] /\ unclosed = [c \in Clients |-> FALSE]

Exporting == {"dest", "src", "source", "copy", "isulad", "remove"}

\* Mutant: pushes have no export ID.
ExportIDNoPush(c) == IF req[c].op \in {"mpush", "push"} THEN NoID ELSE c

\* ManifestPush leaves the ID empty; the others have one of their own.
ExportID(c) == IF req[c].op = "mpush" THEN NoID ELSE c
Key(c) == <<req[c].ex, ExportID(c)>>

Advance(c, place) ==
  /\ ~crashed
  /\ Go(c, place)
  /\ UNCHANGED <<local, lists, req, id, mem, made, crashed, want, stale, tainted>>

-----------------------------------------------------------------------------
\* A push of a format that does not exist, or of a name that is none.
RefusePush(c) ==
  /\ pc[c] = "start" /\ req[c].op = "push"
  /\ Advance(c, "err")
  /\ UNCHANGED <<todo, exportVars>>

\* exportHandler, pushHandler, manifestPushHandler, and export of the builder.
StartExports(c) ==
  /\ pc[c] = "start" /\ req[c].op \in {"build", "save", "push", "mpush"}
  /\ todo' = [todo EXCEPT ![c] = req[c].images]
  /\ Advance(c, "init")
  /\ UNCHANGED exportVars

\* Reference: a list, with the names of its instances as they are now.
Reference(n) == [of |-> FindList(n), refs |-> Range(lists[FindList(n)].inst)]

\* FindImage: an image by its name, or by its ID.
FindImage(n) == [of |-> IF n \in DOMAIN local THEN local[n] ELSE n, refs |-> {}]

(* The references each exporter makes.  The one for isulad writes a        *)
(* tarball of its own first.                                               *)
dockerInit(n, dest) == [src |-> FindImage(n), dest |-> dest]
dockerDaemonInit(n, dest) == [src |-> FindImage(n), dest |-> dest]
ociInit(n, dest) == [src |-> FindImage(n), dest |-> dest]
ociArchiveInit(n, dest) == [src |-> FindImage(n), dest |-> dest]
dockerArchiveInit(n, dest) == [src |-> FindImage(n), dest |-> dest]
isuladInit(n, dest) == [src |-> FindImage(n), dest |-> [tarOf |-> dest]]
manifestInit(n, dest) == [src |-> Reference(n), dest |-> dest]

\* parseExporter: the exporter is the one that the destination names.
parseExporter(c) ==
  LET n == Head(todo[c]) dest == req[c].dest IN
  CASE req[c].ex = "docker" -> dockerInit(n, dest)
    [] req[c].ex = "docker-daemon" -> dockerDaemonInit(n, dest)
    [] req[c].ex = "oci" -> ociInit(n, dest)
    [] req[c].ex = "oci-archive" -> ociArchiveInit(n, dest)
    [] req[c].ex = "docker-archive" -> dockerArchiveInit(n, dest)
    [] req[c].ex = "isulad" -> isuladInit(n, dest)
    [] req[c].ex = "manifest" -> manifestInit(n, dest)

\* The docker-archive exporter makes a writer if the export has none.
GetArchiveWriter(c) ==
  IF req[c].ex = "docker-archive" /\ ExportID(c) \notin DOMAIN writers
  THEN Put(writers, ExportID(c), {}) ELSE writers

\* Init: the references are put into the items.
InitExporter(c) ==
  /\ pc[c] = "init" /\ todo[c] # <<>>
  /\ req[c].op = "mpush" => HasData(FindList(Head(todo[c])), "man") /\ HasData(FindList(Head(todo[c])), "inst")
  /\ items' = Put(items, Key(c), parseExporter(c))
  /\ writers' = GetArchiveWriter(c)
  /\ asked' = [asked EXCEPT ![c] = @ \cup {<<parseExporter(c).src.of, req[c].dest>>}]
  /\ overwritten' = [q \in Clients |-> overwritten[q] \/
                       (q # c /\ req[q].op = "mpush" /\ req[c].op = "mpush" /\ pc[q] \in Exporting)]
  /\ Advance(c, "dest")
  /\ UNCHANGED <<todo, ref, list, open, failed, delivered, unclosed>>

\* Init fails: nothing is in the items, but a writer may have been made.
InitFails(c) ==
  /\ pc[c] = "init" /\ todo[c] # <<>>
  /\ failed' = [failed EXCEPT ![c] = TRUE]
  /\ writers' \in {writers, GetArchiveWriter(c)}
  /\ Advance(c, "close")
  /\ UNCHANGED <<todo, items, ref, list, open, asked, delivered, overwritten, unclosed>>

Item(c) == IF Key(c) \in DOMAIN items THEN items[Key(c)] ELSE [src |-> NoRef, dest |-> NoRef]

GetDestRef(c) ==
  /\ pc[c] = "dest"
  /\ ref' = [ref EXCEPT ![c].dest = Item(c).dest]
  /\ Advance(c, "src")
  /\ UNCHANGED <<todo, items, writers, list, open, failed, asked, delivered, overwritten, unclosed>>

\* Without either reference the export fails.
GetSrcRef(c) ==
  LET lost == Item(c).src = NoRef \/ ref[c].dest = NoRef IN
  /\ pc[c] = "src"
  /\ ref' = [ref EXCEPT ![c].src = Item(c).src]
  /\ failed' = [failed EXCEPT ![c] = @ \/ lost]
  /\ Advance(c, IF lost THEN "remove" ELSE IF req[c].op = "mpush" THEN "source" ELSE "copy")
  /\ UNCHANGED <<todo, items, writers, list, open, asked, delivered, overwritten, unclosed>>

\* NewImageSource of a list: its manifest is read now, and every instance is opened and
\* entered by the digest it has now.  If one is missing, the push fails, and those that
\* were opened stay open.
NewImageSource(c) ==
  LET src == ref[c].src IN
  /\ pc[c] = "source"
  /\ IF HasData(src.of, "man") /\ src.refs \subseteq DOMAIN local
     THEN /\ list' = [list EXCEPT ![c] = [man |-> lists[src.of].man,
                                          sources |-> {local[n] : n \in src.refs}, sent |-> {}]]
          /\ open' = [open EXCEPT ![c] = Cardinality(src.refs)]
          /\ Advance(c, "copy")
          /\ UNCHANGED failed
     ELSE /\ failed' = [failed EXCEPT ![c] = TRUE]
          /\ \E opened \in 0..(IF HasData(src.of, "man") THEN Cardinality(src.refs \cap DOMAIN local) ELSE 0) :
               open' = [open EXCEPT ![c] = opened]
          /\ Advance(c, "remove")
          /\ UNCHANGED list
  /\ UNCHANGED <<todo, items, writers, ref, asked, delivered, overwritten, unclosed>>

\* Mutant: the list itself serves for a digest without a source.
getImgSrcTop(c, d) == IF d \in list[c].sources THEN d ELSE ref[c].src.of

\* The source of an instance, by its digest.
getImgSrc(c, d) == IF d \in list[c].sources THEN d ELSE NoRef

Sent(c) == {getImgSrc(c, d) : d \in DOMAIN list[c].man}

\* Close: the sources that are entered are closed, one for each digest.
Closed(c) == open[c] - Cardinality(list[c].sources)

\* cp.Image: the source goes to the destination; an archive gets it when it is closed,
\* isulad when it has loaded the tarball.
CopyImage(c) ==
  LET pair == <<ref[c].src.of, ref[c].dest>> IN
  /\ pc[c] = "copy"
  /\ NoRef \notin Sent(c)
  /\ list' = [list EXCEPT ![c].sent = Sent(c)]
  /\ open' = [open EXCEPT ![c] = Closed(c)]
  /\ IF req[c].ex = "docker-archive"
     THEN writers' = [writers EXCEPT ![ExportID(c)] = @ \cup {pair}] /\ UNCHANGED delivered
     ELSE /\ delivered' = [delivered EXCEPT ![c] = IF req[c].ex = "isulad" THEN @ ELSE @ \cup {pair}]
          /\ UNCHANGED writers
  /\ Advance(c, IF req[c].ex = "isulad" THEN "isulad" ELSE "remove")
  /\ UNCHANGED <<todo, items, ref, failed, asked, overwritten, unclosed>>

\* exportToIsulad: the path of the tarball is read from the items again.
exportToIsulad(c) ==
  /\ pc[c] = "isulad"
  /\ delivered' = [delivered EXCEPT ![c] = @ \cup {<<ref[c].src.of, Item(c).dest.tarOf>>}]
  /\ Advance(c, "remove")
  /\ UNCHANGED <<todo, items, writers, ref, list, open, failed, asked, overwritten, unclosed>>

\* The policy, the server, the copy or the load of isulad fails.
ExportFails(c) ==
  /\ pc[c] \in {"dest", "copy", "isulad"}
  /\ failed' = [failed EXCEPT ![c] = TRUE]
  /\ open' = [open EXCEPT ![c] = Closed(c)]
  /\ Advance(c, "remove")
  /\ UNCHANGED <<todo, items, writers, ref, list, asked, delivered, overwritten, unclosed>>

\* Mutant: an export that failed is not removed from the items.
RemoveItemOfSuccess(c) ==
  /\ pc[c] = "remove"
  /\ items' = IF failed[c] THEN items ELSE Without(items, Key(c))
  /\ todo' = [todo EXCEPT ![c] = Tail(@)]
  /\ Advance(c, IF failed[c] \/ Len(todo[c]) = 1 THEN "close" ELSE "init")
  /\ UNCHANGED <<writers, ref, list, open, failed, asked, delivered, overwritten, unclosed>>

\* The deferred Remove of Export; then the next image, unless this one has failed.
RemoveItem(c) ==
  /\ pc[c] = "remove"
  /\ items' = Without(items, Key(c))
  /\ todo' = [todo EXCEPT ![c] = Tail(@)]
  /\ Advance(c, IF failed[c] \/ Len(todo[c]) = 1 THEN "close" ELSE "init")
  /\ UNCHANGED <<writers, ref, list, open, failed, asked, delivered, overwritten, unclosed>>

\* The deferred functions of the builder's export and of exportHandler: the archive is
\* closed, which may fail without consequence, and the writer is removed.
CloseWriter(c) ==
  /\ pc[c] = "close"
  /\ IF ExportID(c) \in DOMAIN writers
     THEN \/ delivered' = [delivered EXCEPT ![c] = @ \cup writers[ExportID(c)]] /\ UNCHANGED unclosed
          \/ unclosed' = [unclosed EXCEPT ![c] = TRUE] /\ UNCHANGED delivered
     ELSE UNCHANGED <<delivered, unclosed>>
  /\ writers' = Without(writers, ExportID(c))
  /\ Advance(c, IF failed[c] THEN "err" ELSE "ok")
  /\ UNCHANGED <<todo, items, ref, list, open, failed, asked, overwritten>>

ExportStep(c) ==
  \/ RefusePush(c) \/ StartExports(c) \/ InitExporter(c) \/ InitFails(c) \/ GetDestRef(c) \/ GetSrcRef(c)
  \/ NewImageSource(c) \/ CopyImage(c) \/ exportToIsulad(c) \/ ExportFails(c)
  \/ RemoveItem(c) \/ CloseWriter(c)

Next ==
  \/ \E c \in Clients : ExportStep(c)
  \/ \E c \in Clients : ListStep(c) /\ UNCHANGED exportVars
  \/ OtherRequest /\ UNCHANGED exportVars

Spec == Init /\ [][Next]_vars

-----------------------------------------------------------------------------
\* An export that succeeds has copied its own source to its own destination and nothing
\* else, however exports share the exporters; except a push of a list during which
\* another one began, and an archive whose writer could not be closed (Export, export).
ExportsOwn ==
  \A c \in Clients :
    ~overwritten[c] =>
      /\ delivered[c] \subseteq asked[c]
      /\ pc[c] = "ok" /\ ~unclosed[c] /\ req[c].op \in {"build", "save", "push", "mpush"}
         => delivered[c] = asked[c] /\ asked[c] # {}

\* Whatever an export leaves by, an exporter keeps no reference of one that has ended,
\* the archive exporter no writer, and no source of an instance is open, unless a push
\* could not open them all or two of them have become one image (Remove,
\* RemoveArchiveWriter, Close).
NothingKept ==
  /\ \A k \in DOMAIN items : \E c \in Clients : Key(c) = k /\ pc[c] \in Exporting
  /\ \A w \in DOMAIN writers : \E c \in Clients : ExportID(c) = w /\ pc[c] \in Exporting \cup {"init", "close"}
  /\ \A c \in Clients : Done(c) /\ open[c] # 0 =>
       (failed[c] /\ list[c] = NothingSent) \/ Cardinality(list[c].sources) < Cardinality(ref[c].src.refs)

\* A list that is pushed with success is pushed whole: each digest it names was sent
\* with it, though the list, its instances and the images are read at different times
\* and change meanwhile (Reference, NewImageSource, GetManifest).
PushedListWhole ==
  \A c \in Clients : req[c].op = "mpush" /\ pc[c] = "ok" => list[c].sent = DOMAIN list[c].man
=============================================================================
