---------------------------- MODULE CiphertextCache ----------------------------
(***************************************************************************)
(* The ciphertext cache of a cluster of Object Drive nodes: the files of   *)
(* each node's cache directory, the PermanentStorage they drain to, the    *)
(* request handlers that upload and stream content, the background drain   *)
(* and purge loops, the recaching of content read from elsewhere, and the  *)
(* scale-in of a node.                                                     *)
(*                                                                         *)
(* A file id is a ContentConnector: CreateRandomName gives every upload a  *)
(* fresh one, so an id names one upload, one ciphertext, and the upload's  *)
(* handler.  A file's state is its extension in the cache directory; each  *)
(* extension is a variable here.  A file's bytes are abstracted to whether *)
(* it holds the whole ciphertext.                                          *)
(***************************************************************************)
EXTENDS Naturals, FiniteSets

CONSTANTS
  Nodes,        \* server instances, each with a cache directory of its own
  Ids,          \* content connectors, one per upload
  EmptyIds,     \* the ids whose content has length zero
  Reqs,         \* concurrent download requests
  HasStorage,   \* BOOLEAN: a bucket is configured (PermanentStorage # nil)
  PeerEnabled,  \* BOOLEAN: OD_PEER_ENABLED
  ScaleIn,      \* the nodes autoscaling may terminate
  Tries,        \* attempts of a retry loop (the code has 4 and 20)
  MaxReads,     \* bound on download requests started
  MaxFaults     \* bound on injected faults: crashes, I/O and network errors

ASSUME CacheAssumption ==
  /\ EmptyIds \subseteq Ids
  /\ ScaleIn \subseteq Nodes
  /\ HasStorage \in BOOLEAN
  /\ PeerEnabled \in BOOLEAN
  /\ Tries \in Nat
  /\ MaxFaults \in Nat
  /\ MaxReads \in Nat

NoNode == "none"
ASSUME NoNodeAssumption == NoNode \notin Nodes

VARIABLES
  uploading,  \* uploading[n][i]: the file i.uploading of node n
  uploaded,   \* ... i.uploaded
  caching,    \* ... i.caching
  cached,     \* ... i.cached
  orphaned,   \* ... i.orphaned
  storage,    \* the ids PermanentStorage holds
  rows,       \* the ids a committed database row refers to
  handler,    \* handler[i]: where the upload's request handler is
  home,       \* home[i]: the node that handler runs on
  drain,      \* drain[i][w]: where the writeback of i by routine w is
  acked,      \* ids whose upload was answered with success
  late,       \* ids of acked answered after their node had been counted empty
  life,       \* life[n]: running, counted (ready to be terminated) or gone
  req,        \* req[r]: the state of a download request
  fresh,      \* ids whose .uploaded file is too young for the background drain
  reads,      \* download requests started so far
  faults      \* faults injected so far

disk == <<uploading, uploaded, caching, cached, orphaned>>
uploads == <<handler, home, rows, acked, late>>
vars == <<disk, storage, uploads, drain, life, req, fresh, reads, faults>>

(***************************************************************************)
(* A file is absent, present but not the whole ciphertext (being written,  *)
(* truncated, or abandoned), or whole.                                     *)
(***************************************************************************)
Content == {"absent", "partial", "whole"}

HandlerStates == {"new", "receiving", "received", "committed", "failing",
                  "done", "aborted", "dead"}

(***************************************************************************)
(* A writeback is run by the goroutine the request handler starts, and by  *)
(* the background drain.                                                   *)
(***************************************************************************)
Routines == {"request", "background"}
DrainStates == {"idle", "ready", "opened", "stored"}

(***************************************************************************)
(* A download request: pc is the step it is at, id and node what it reads  *)
(* and where it runs, at the node whose directory is being looked in,      *)
(* asked the peers already asked, pass which call of More it is in, and    *)
(* clean whether no fault has hit it.  Of its recache: src is the content  *)
(* being copied, file is where the inode it writes to is now, sole whether *)
(* nobody truncated that inode since it did, and tries its retries left.   *)
(***************************************************************************)
LookupSteps == {"lookUploaded", "lookCached", "askPeer", "lookStorage", "stall",
                "openLocal", "openRemote", "failed"}
RecacheSteps == {"create", "download", "p2p", "copy", "rename", "remove"}
ActiveReq ==
  [pc : LookupSteps \cup RecacheSteps, id : Ids, node : Nodes, at : Nodes,
   asked : SUBSET Nodes, pass : {1, 2, 3}, clean : BOOLEAN, src : Content,
   file : {"caching", "cached", "unlinked"}, sole : BOOLEAN, tries : 0 .. Tries]
IdleReq ==
  [pc |-> "idle", id |-> NoNode, node |-> NoNode, at |-> NoNode,
   asked |-> {}, pass |-> 1, clean |-> TRUE, src |-> "absent",
   file |-> "unlinked", sole |-> FALSE, tries |-> 0]

TypeOK ==
  /\ uploading \in [Nodes -> [Ids -> Content]]
  /\ uploaded \in [Nodes -> [Ids -> Content]]
  /\ caching \in [Nodes -> [Ids -> Content]]
  /\ cached \in [Nodes -> [Ids -> Content]]
  /\ orphaned \in [Nodes -> [Ids -> Content]]
  /\ storage \subseteq Ids
  /\ rows \subseteq Ids
  /\ handler \in [Ids -> HandlerStates]
  /\ home \in [Ids -> Nodes \cup {NoNode}]
  /\ drain \in [Ids -> [Routines -> DrainStates]]
  /\ acked \subseteq Ids
  /\ late \subseteq acked
  /\ life \in [Nodes -> {"running", "counted", "gone"}]
  /\ req \in [Reqs -> ActiveReq \cup {IdleReq}]
  /\ fresh \subseteq Ids
  /\ reads \in 0 .. MaxReads
  /\ faults \in 0 .. MaxFaults

NoFiles == [n \in Nodes |-> [i \in Ids |-> "absent"]]

Init ==
  /\ uploading = NoFiles
  /\ uploaded = NoFiles
  /\ caching = NoFiles
  /\ cached = NoFiles
  /\ orphaned = NoFiles
  /\ storage = {}
  /\ rows = {}
  /\ handler = [i \in Ids |-> "new"]
  /\ home = [i \in Ids |-> NoNode]
  /\ drain = [i \in Ids |-> [w \in Routines |-> "idle"]]
  /\ acked = {}
  /\ late = {}
  /\ life = [n \in Nodes |-> "running"]
  /\ req = [r \in Reqs |-> IdleReq]
  /\ fresh = {}
  /\ reads = 0
  /\ faults = 0

Fault == faults < MaxFaults /\ faults' = faults + 1

Put(files, n, i, c) == [files EXCEPT ![n][i] = c]

--------------------------------------------------------------------------------
(* Uploads: beginUploadTimed, createObject, updateObjectStream *)

(***************************************************************************)
(* The handler creates i.uploading and streams the request body into it.   *)
(***************************************************************************)
BeginUpload(i, n) ==
  /\ handler[i] = "new"
  /\ life[n] # "gone"
  /\ handler' = [handler EXCEPT ![i] = "receiving"]
  /\ home' = [home EXCEPT ![i] = n]
  /\ uploading' = Put(uploading, n, i, "partial")
  /\ UNCHANGED <<uploaded, caching, cached, orphaned, storage, rows, acked, late,
                 drain, life, req, fresh, reads, faults>>

(***************************************************************************)
(* The body is complete: i.uploading is renamed to i.uploaded.             *)
(***************************************************************************)
FinishReceive(i) ==
  /\ handler[i] = "receiving"
  /\ handler' = [handler EXCEPT ![i] = "received"]
  /\ uploading' = Put(uploading, home[i], i, "absent")
  /\ uploaded' = Put(uploaded, home[i], i, "whole")
  /\ fresh' = fresh \cup {i}
  /\ UNCHANGED <<caching, cached, orphaned, storage, home, rows, acked, late,
                 drain, life, req, reads, faults>>

(***************************************************************************)
(* The client broke off, or the cipher or the rename failed: i.uploading   *)
(* is removed.  The caller aborts the upload, which finds no i.uploaded.   *)
(***************************************************************************)
FailReceive(i) ==
  /\ handler[i] = "receiving"
  /\ handler' = [handler EXCEPT ![i] = "aborted"]
  /\ uploading' = Put(uploading, home[i], i, "absent")
  /\ UNCHANGED <<uploaded, caching, cached, orphaned, storage, home, rows, acked,
                 late, drain, life, req, fresh, reads, faults>>

(***************************************************************************)
(* A check fails, or the database transaction does: removeOrphanedFile     *)
(* removes i.uploaded, or failing that renames it to i.orphaned, or        *)
(* failing that leaves it.                                                 *)
(***************************************************************************)
Abort(i) ==
  /\ handler[i] \in {"received", "failing"}
  /\ handler' = [handler EXCEPT ![i] = "aborted"]
  /\ \/ /\ uploaded' = Put(uploaded, home[i], i, "absent")
        /\ UNCHANGED <<orphaned, faults>>
     \/ /\ Fault
        /\ uploaded[home[i]][i] # "absent"
        /\ uploaded' = Put(uploaded, home[i], i, "absent")
        /\ orphaned' = Put(orphaned, home[i], i, uploaded[home[i]][i])
     \/ /\ Fault
        /\ uploaded[home[i]][i] # "absent"
        /\ UNCHANGED <<uploaded, orphaned>>
  /\ UNCHANGED <<uploading, caching, cached, storage, home, rows, acked, late,
                 drain, life, req, fresh, reads>>

(***************************************************************************)
(* The transaction commits the row that refers to i.  CreateObject then    *)
(* reads the object back, and an error of that read is the error of        *)
(* CreateObject although the row is committed.                             *)
(***************************************************************************)
Commit(i) ==
  /\ handler[i] = "received"
  /\ rows' = rows \cup {i}
  /\ \/ /\ handler' = [handler EXCEPT ![i] = "committed"]
        /\ UNCHANGED faults
     \/ /\ Fault
        /\ handler' = [handler EXCEPT ![i] = "failing"]
  /\ UNCHANGED <<disk, storage, home, acked, late, drain, life, req, fresh, reads>>

(***************************************************************************)
(* An error return that neither aborts nor drains: the object cannot be    *)
(* read again before the update, or its parents cannot be listed or are    *)
(* deleted after the row is committed.                                     *)
(***************************************************************************)
ReturnEarly(i) ==
  /\ handler[i] \in {"received", "committed"}
  /\ handler' = [handler EXCEPT ![i] = "done"]
  /\ UNCHANGED <<disk, storage, home, rows, acked, late, drain, life, req, fresh,
                 reads, faults>>

(***************************************************************************)
(* The handler starts the writeback in a goroutine and answers the client. *)
(***************************************************************************)
Respond(i) ==
  /\ handler[i] = "committed"
  /\ handler' = [handler EXCEPT ![i] = "done"]
  /\ drain' = [drain EXCEPT ![i]["request"] = "ready"]
  /\ acked' = acked \cup {i}
  /\ late' = IF life[home[i]] = "counted" THEN late \cup {i} ELSE late
  /\ UNCHANGED <<disk, storage, home, rows, life, req, fresh, reads, faults>>

--------------------------------------------------------------------------------
(* Writeback and the background drain *)

(* Mutant: the drain compares ages the wrong way round. *)
OpenWritebackYoung(i, w) ==
  /\ home[i] # NoNode
  /\ \/ w = "request" /\ drain[i][w] = "ready"
     \/ /\ w = "background" /\ drain[i][w] = "idle"
        /\ HasStorage
        /\ life[home[i]] # "gone"
        /\ uploaded[home[i]][i] # "absent"
        /\ i \in fresh
  /\ drain' = [drain EXCEPT ![i][w] =
                 IF uploaded[home[i]][i] = "absent" THEN "idle" ELSE "opened"]
  /\ UNCHANGED <<disk, storage, uploads, life, req, fresh, reads, faults>>

(***************************************************************************)
(* Writeback opens i.uploaded and is done if it is gone.  The background   *)
(* drain, which only runs with a PermanentStorage, calls it for the        *)
(* .uploaded files its walk meets that are old enough.                     *)
(***************************************************************************)
OpenWriteback(i, w) ==
  /\ home[i] # NoNode
  /\ \/ w = "request" /\ drain[i][w] = "ready"
     \/ /\ w = "background" /\ drain[i][w] = "idle"
        /\ HasStorage
        /\ life[home[i]] # "gone"
        /\ uploaded[home[i]][i] # "absent"
        /\ i \notin fresh
  /\ drain' = [drain EXCEPT ![i][w] =
                 IF uploaded[home[i]][i] = "absent" THEN "idle" ELSE "opened"]
  /\ UNCHANGED <<disk, storage, uploads, life, req, fresh, reads, faults>>

(* Mutant: the test for an empty file is inverted. *)
StoreOnlyEmpty(i, w) ==
  /\ drain[i][w] = "opened"
  /\ drain' = [drain EXCEPT ![i][w] = "stored"]
  /\ storage' = IF HasStorage /\ i \in EmptyIds THEN storage \cup {i} ELSE storage
  /\ UNCHANGED <<disk, uploads, life, req, fresh, reads, faults>>

(***************************************************************************)
(* The open file is uploaded, unless it is empty or there is no            *)
(* PermanentStorage.  The handle stays good when the name is removed.      *)
(***************************************************************************)
Store(i, w) ==
  /\ drain[i][w] = "opened"
  /\ drain' = [drain EXCEPT ![i][w] = "stored"]
  /\ storage' = IF HasStorage /\ i \notin EmptyIds THEN storage \cup {i} ELSE storage
  /\ UNCHANGED <<disk, uploads, life, req, fresh, reads, faults>>

(* Mutant: the error of the upload is logged and the rename follows. *)
StoreFailsIgnored(i, w) ==
  /\ drain[i][w] = "opened"
  /\ HasStorage
  /\ Fault
  /\ drain' = [drain EXCEPT ![i][w] = "stored"]
  /\ UNCHANGED <<disk, storage, uploads, life, req, fresh, reads>>

StoreFails(i, w) ==
  /\ drain[i][w] = "opened"
  /\ HasStorage
  /\ Fault
  /\ drain' = [drain EXCEPT ![i][w] = "idle"]
  /\ UNCHANGED <<disk, storage, uploads, life, req, fresh, reads>>

(***************************************************************************)
(* Effects on the requests that hold an open file of i on node n: a name   *)
(* is removed or replaced, i.caching becomes i.cached, a file is truncated.*)
(***************************************************************************)
Unlinked(n, i, name) ==
  [q \in Reqs |-> IF req[q].node = n /\ req[q].id = i /\ req[q].file = name
                  THEN [req[q] EXCEPT !.file = "unlinked"] ELSE req[q]]
Renamed(n, i) ==
  [q \in Reqs |-> IF req[q].node = n /\ req[q].id = i
                  THEN [req[q] EXCEPT !.file = IF @ = "caching" THEN "cached" ELSE "unlinked"]
                  ELSE req[q]]
Truncated(n, i, name) ==
  [q \in Reqs |-> IF req[q].node = n /\ req[q].id = i /\ req[q].file = name
                  THEN [req[q] EXCEPT !.sole = FALSE] ELSE req[q]]

(***************************************************************************)
(* i.uploaded is renamed to i.cached; if it is gone there is nothing to do.*)
(***************************************************************************)
RenameUploaded(i, w) ==
  /\ drain[i][w] = "stored"
  /\ drain' = [drain EXCEPT ![i][w] = "idle"]
  /\ IF uploaded[home[i]][i] = "absent"
     THEN UNCHANGED <<uploaded, cached, req>>
     ELSE /\ uploaded' = Put(uploaded, home[i], i, "absent")
          /\ cached' = Put(cached, home[i], i, uploaded[home[i]][i])
          /\ req' = Unlinked(home[i], i, "cached")
  /\ UNCHANGED <<uploading, caching, orphaned, storage, uploads, life, fresh, reads,
                 faults>>

(***************************************************************************)
(* Time passes without the file being touched, and it becomes eligible.    *)
(***************************************************************************)
Age(i) ==
  /\ i \in fresh
  /\ fresh' = fresh \ {i}
  /\ UNCHANGED <<disk, storage, uploads, drain, life, req, reads, faults>>

--------------------------------------------------------------------------------
(* CachePurge.  Its thresholds and ages decide when, here any time. *)

Purging(n) == HasStorage /\ life[n] # "gone"

PurgeCached(n, i) ==
  /\ Purging(n)
  /\ cached[n][i] # "absent"
  /\ cached' = Put(cached, n, i, "absent")
  /\ req' = Unlinked(n, i, "cached")
  /\ UNCHANGED <<uploading, uploaded, caching, orphaned, storage, uploads, drain,
                 life, fresh, reads, faults>>

(***************************************************************************)
(* The file cannot be removed: attemptToEmptyFile truncates it instead.    *)
(***************************************************************************)
EmptyCached(n, i) ==
  /\ Purging(n)
  /\ Fault
  /\ cached[n][i] # "absent"
  /\ cached' = Put(cached, n, i, "partial")
  /\ req' = Truncated(n, i, "cached")
  /\ UNCHANGED <<uploading, uploaded, caching, orphaned, storage, uploads, drain,
                 life, fresh, reads>>

(* Mutant: a .uploaded file left for a week counts as garbage too. *)
PurgeGarbageUploaded(n, i) ==
  /\ Purging(n)
  /\ uploaded[n][i] # "absent"
  /\ uploaded' = Put(uploaded, n, i, "absent")
  /\ UNCHANGED <<uploading, caching, cached, orphaned, storage, uploads, drain, life,
                 req, fresh, reads, faults>>

(***************************************************************************)
(* .orphaned files go at once, .uploading and .caching files after a week  *)
(* untouched, which nobody can still be writing.  .uploaded files stay.    *)
(***************************************************************************)
PurgeGarbage(n, i) ==
  /\ Purging(n)
  /\ \/ /\ orphaned[n][i] # "absent"
        /\ orphaned' = Put(orphaned, n, i, "absent")
        /\ UNCHANGED <<uploading, caching>>
     \/ /\ uploading[n][i] # "absent"
        /\ handler[i] # "receiving"
        /\ uploading' = Put(uploading, n, i, "absent")
        /\ UNCHANGED <<orphaned, caching>>
     \/ /\ caching[n][i] # "absent"
        /\ \A q \in Reqs : ~(req[q].node = n /\ req[q].id = i /\ req[q].pc \in RecacheSteps)
        /\ caching' = Put(caching, n, i, "absent")
        /\ UNCHANGED <<orphaned, uploading>>
  /\ UNCHANGED <<uploaded, cached, storage, uploads, drain, life, req, fresh, reads,
                 faults>>

--------------------------------------------------------------------------------
(* Downloads: getAndStreamFile, NewPuller, More, getFileHandle, UseLocalFile *)

Become(r, q) == req' = [req EXCEPT ![r] = q]
At(q, pc) == [q EXCEPT !.pc = pc]
OnlyReq == UNCHANGED <<disk, storage, uploads, drain, life>>

Peers(n) == {m \in Nodes \ {n} : life[m] # "gone"}

FirstLook(i, n) ==
  [pc |-> "lookUploaded", id |-> i, node |-> n, at |-> n, asked |-> {},
   pass |-> 1, clean |-> TRUE, src |-> "absent", file |-> "unlinked",
   sole |-> FALSE, tries |-> Tries]

(***************************************************************************)
(* A request for content whose row is committed and not empty; the first   *)
(* call of More looks in the node's own directory.                         *)
(***************************************************************************)
StartDownload(r, i, n) ==
  /\ req[r].pc = "idle"
  /\ i \in rows \ EmptyIds
  /\ life[n] # "gone"
  /\ reads < MaxReads
  /\ reads' = reads + 1
  /\ Become(r, FirstLook(i, n))
  /\ OnlyReq /\ UNCHANGED <<fresh, faults>>

Opened(q, c) ==
  [q EXCEPT !.src = c, !.pc = IF q.at = q.node THEN "openLocal" ELSE "openRemote"]

(***************************************************************************)
(* UseLocalFile, run by the node itself or for a peer that asked: first    *)
(* i.uploaded, which it touches, then i.cached.  Another step may come     *)
(* between the two.                                                        *)
(***************************************************************************)
LookUploaded(r) ==
  /\ req[r].pc = "lookUploaded"
  /\ LET c == uploaded[req[r].at][req[r].id] IN
     IF c # "absent"
     THEN Become(r, Opened(req[r], c)) /\ fresh' = fresh \cup {req[r].id}
     ELSE Become(r, At(req[r], "lookCached")) /\ UNCHANGED fresh
  /\ OnlyReq /\ UNCHANGED <<reads, faults>>

LookCached(r) ==
  /\ req[r].pc = "lookCached"
  /\ LET c == cached[req[r].at][req[r].id] IN
     Become(r, IF c # "absent" THEN Opened(req[r], c)
               ELSE IF req[r].at # req[r].node \/ req[r].pass = 2 \/ ~HasStorage
               THEN At(req[r], "askPeer")
               ELSE At(req[r], "lookStorage"))
  /\ OnlyReq /\ UNCHANGED <<fresh, reads, faults>>

(***************************************************************************)
(* A call of More found nothing: NewPuller calls it again asking peers,    *)
(* and then keeps trying PermanentStorage for a number of attempts.        *)
(***************************************************************************)
NextPass(q) ==
  IF q.pass = 1 /\ PeerEnabled
  THEN [q EXCEPT !.pass = 2, !.pc = "lookUploaded", !.at = q.node, !.asked = {}]
  ELSE IF HasStorage THEN [q EXCEPT !.pass = 3, !.pc = "stall", !.at = q.node]
                     ELSE [q EXCEPT !.pc = "failed"]

(* Mutant: when no peer has the file, PermanentStorage is not asked again. *)
AskPeerOnly(r) ==
  /\ req[r].pc = "askPeer"
  /\ LET left == IF PeerEnabled THEN Peers(req[r].node) \ req[r].asked ELSE {} IN
     \/ \E m \in left :
          Become(r, [req[r] EXCEPT !.pc = "lookUploaded", !.at = m,
                                   !.asked = @ \cup {m}])
     \/ left = {} /\ Become(r, NextPass(req[r]))
  /\ OnlyReq /\ UNCHANGED <<fresh, reads, faults>>

(***************************************************************************)
(* useP2PFile asks one peer after the other, in no particular order.  When *)
(* none has the file, getFileHandle turns to PermanentStorage.             *)
(***************************************************************************)
AskPeer(r) ==
  /\ req[r].pc = "askPeer"
  /\ LET left == IF PeerEnabled THEN Peers(req[r].node) \ req[r].asked ELSE {} IN
     \/ \E m \in left :
          Become(r, [req[r] EXCEPT !.pc = "lookUploaded", !.at = m,
                                   !.asked = @ \cup {m}])
     \/ /\ left = {}
        /\ Become(r, IF HasStorage
                     THEN [req[r] EXCEPT !.pc = "lookStorage", !.at = req[r].node]
                     ELSE NextPass(req[r]))
  /\ OnlyReq /\ UNCHANGED <<fresh, reads, faults>>

(***************************************************************************)
(* The peer cannot be reached, or is missing from the peer map.            *)
(***************************************************************************)
PeerError(r) ==
  /\ req[r].pc = "lookUploaded"
  /\ req[r].at # req[r].node
  /\ Fault
  /\ Become(r, [req[r] EXCEPT !.pc = "askPeer", !.clean = FALSE])
  /\ OnlyReq /\ UNCHANGED <<fresh, reads>>

LookStorage(r) ==
  /\ req[r].pc = "lookStorage"
  /\ Become(r, IF req[r].id \in storage
               THEN [req[r] EXCEPT !.pc = "openRemote", !.src = "whole"]
               ELSE NextPass(req[r]))
  /\ OnlyReq /\ UNCHANGED <<fresh, reads, faults>>

(***************************************************************************)
(* Another error of GetStream.                                             *)
(***************************************************************************)
StorageError(r) ==
  /\ req[r].pc = "lookStorage"
  /\ Fault
  /\ Become(r, NextPass([req[r] EXCEPT !.clean = FALSE]))
  /\ OnlyReq /\ UNCHANGED <<fresh, reads>>

(* Mutant: the attempts are not limited. *)
StallUnlimited(r) ==
  /\ req[r].pc = "stall"
  /\ Become(r, [req[r] EXCEPT !.pc = "lookUploaded", !.tries = @ - 1])
  /\ OnlyReq /\ UNCHANGED <<fresh, reads, faults>>

Stall(r) ==
  /\ req[r].pc = "stall"
  /\ Become(r, IF req[r].tries = 0 THEN At(req[r], "failed")
               ELSE [req[r] EXCEPT !.pc = "lookUploaded", !.tries = @ - 1])
  /\ OnlyReq /\ UNCHANGED <<fresh, reads, faults>>

(***************************************************************************)
(* The content came from the node's own directory, or not at all.          *)
(***************************************************************************)
FinishDownload(r) ==
  /\ req[r].pc \in {"openLocal", "failed"}
  /\ Become(r, IdleReq)
  /\ OnlyReq /\ UNCHANGED <<fresh, reads, faults>>

--------------------------------------------------------------------------------
(* BackgroundRecache and Recache, started for content that was not local *)

RecacheVars == UNCHANGED <<uploading, uploaded, orphaned, storage, uploads, drain,
                           life, fresh, reads>>

(***************************************************************************)
(* i.caching is looked up and, in a later step, created.  The two tests at *)
(* the head of Recache, os.IsExist of the error of a Stat, never hold.     *)
(***************************************************************************)
BackgroundRecache(r) ==
  /\ req[r].pc = "openRemote"
  /\ Become(r, IF caching[req[r].node][req[r].id] = "absent"
               THEN [req[r] EXCEPT !.pc = "create", !.pass = 1, !.tries = Tries]
               ELSE IdleReq)
  /\ RecacheVars /\ UNCHANGED <<caching, cached, faults>>

(***************************************************************************)
(* os.Create truncates an i.caching that another request is writing, and   *)
(* both then write to the same inode.                                      *)
(***************************************************************************)
CreateCaching(r, pc, c) ==
  /\ caching' = Put(caching, req[r].node, req[r].id, "partial")
  /\ req' = [Truncated(req[r].node, req[r].id, "caching") EXCEPT
               ![r] = [req[r] EXCEPT !.pc = pc, !.file = "caching", !.sole = TRUE, !.src = c]]

StartDownloadToCache(r) ==
  /\ req[r].pc = "create"
  /\ IF HasStorage
     THEN CreateCaching(r, "download", "whole")
     ELSE /\ Become(r, At(req[r], IF PeerEnabled THEN "p2p" ELSE "remove"))
          /\ UNCHANGED caching
  /\ RecacheVars /\ UNCHANGED <<cached, faults>>

Closed(q, pc) == [q EXCEPT !.pc = pc, !.file = "unlinked", !.sole = FALSE]

(***************************************************************************)
(* A writer is done.  The file it wrote to, wherever that is now, is whole *)
(* if the source was and nobody truncated it meanwhile.                    *)
(***************************************************************************)
Written(r, name, files) ==
  IF req[r].file = name /\ req[r].sole /\ req[r].src = "whole"
  THEN Put(files, req[r].node, req[r].id, "whole") ELSE files

FinishWrite(r) ==
  /\ \/ req[r].pc = "download" /\ req[r].id \in storage
     \/ req[r].pc = "copy"
  /\ caching' = Written(r, "caching", caching)
  /\ cached' = Written(r, "cached", cached)
  /\ Become(r, Closed(req[r], "rename"))
  /\ RecacheVars /\ UNCHANGED faults

(* Mutant: Recache renames although every attempt failed. *)
NextAttemptRename(q) ==
  IF HasStorage /\ q.tries > 0
  THEN [Closed(q, "create") EXCEPT !.pass = 2, !.tries = @ - 1]
  ELSE Closed(q, "rename")

(***************************************************************************)
(* An attempt failed: the next one, of the PermanentStorage alone, or none.*)
(***************************************************************************)
NextAttempt(q) ==
  IF HasStorage /\ q.tries > 0
  THEN [Closed(q, "create") EXCEPT !.pass = 2, !.tries = @ - 1]
  ELSE Closed(q, "remove")

DownloadFails(r) ==
  /\ req[r].pc = "download"
  /\ \/ req[r].id \notin storage /\ UNCHANGED faults
     \/ Fault
  /\ Become(r, IF req[r].pass = 1 /\ PeerEnabled THEN Closed(req[r], "p2p")
               ELSE NextAttempt(req[r]))
  /\ RecacheVars /\ UNCHANGED <<caching, cached>>

(***************************************************************************)
(* A peer streams the file it has, .uploaded before .cached.               *)
(***************************************************************************)
PeerFile(m, i) == IF uploaded[m][i] # "absent" THEN uploaded[m][i] ELSE cached[m][i]

CopyFromPeer(r) ==
  /\ req[r].pc = "p2p"
  /\ \E m \in Peers(req[r].node) :
       /\ PeerFile(m, req[r].id) # "absent"
       /\ CreateCaching(r, "copy", PeerFile(m, req[r].id))
  /\ RecacheVars /\ UNCHANGED <<cached, faults>>

(***************************************************************************)
(* No peer has the file, or none can be reached: useP2PFile returns no     *)
(* file and no error, which replaces the error of the download.  Without   *)
(* an error Recache goes on to its rename.                                 *)
(***************************************************************************)
NoPeerHasFile(r) ==
  /\ req[r].pc = "p2p"
  /\ \/ /\ \A m \in Peers(req[r].node) : PeerFile(m, req[r].id) = "absent"
        /\ UNCHANGED faults
     \/ Fault
  /\ Become(r, At(req[r], IF HasStorage THEN "rename" ELSE "remove"))
  /\ RecacheVars /\ UNCHANGED <<caching, cached>>

CopyFails(r) ==
  /\ req[r].pc = "copy"
  /\ Fault
  /\ Become(r, NextAttempt(req[r]))
  /\ RecacheVars /\ UNCHANGED <<caching, cached>>

RenameCaching(r) ==
  LET n == req[r].node
      i == req[r].id IN
  /\ req[r].pc = "rename"
  /\ IF caching[n][i] = "absent"
     THEN Become(r, At(req[r], "remove")) /\ UNCHANGED <<caching, cached>>
     ELSE /\ caching' = Put(caching, n, i, "absent")
          /\ cached' = Put(cached, n, i, caching[n][i])
          /\ req' = [Renamed(n, i) EXCEPT ![r] = Closed(@, "remove")]
  /\ RecacheVars /\ UNCHANGED faults

(***************************************************************************)
(* The deferred removal of i.caching, whoever's it is by now.              *)
(***************************************************************************)
RemoveCaching(r) ==
  /\ req[r].pc = "remove"
  /\ caching' = Put(caching, req[r].node, req[r].id, "absent")
  /\ req' = [Unlinked(req[r].node, req[r].id, "caching") EXCEPT ![r] = IdleReq]
  /\ RecacheVars /\ UNCHANGED <<cached, faults>>

--------------------------------------------------------------------------------
(* Nodes: crash and restart, scale-in *)

(***************************************************************************)
(* The process ends: its handlers, writebacks and requests are gone.       *)
(***************************************************************************)
StopProcess(n) ==
  /\ handler' = [i \in Ids |->
       IF home[i] = n /\ handler[i] \in {"receiving", "received", "committed", "failing"}
       THEN "dead" ELSE handler[i]]
  /\ drain' = [i \in Ids |->
       IF home[i] = n THEN [w \in Routines |-> "idle"] ELSE drain[i]]
  /\ req' = [r \in Reqs |-> IF req[r].node = n THEN IdleReq ELSE req[r]]

(***************************************************************************)
(* A crash and restart; the cache directory is found as it was left, no    *)
(* state of it is cleaned.  The exit of prepareForTermination after its    *)
(* last try is one too: autoscaling is not told to go on.                  *)
(***************************************************************************)
Crash(n) ==
  /\ life[n] # "gone"
  /\ Fault
  /\ StopProcess(n)
  /\ UNCHANGED <<disk, storage, home, rows, acked, late, life, fresh, reads>>

(***************************************************************************)
(* prepareForTermination: when CountUploaded, which skips empty files,     *)
(* finds no .uploaded file, autoscaling is told to go on.                  *)
(***************************************************************************)
ReadyToTerminate(n) ==
  /\ n \in ScaleIn
  /\ life[n] = "running"
  /\ \A i \in Ids \ EmptyIds : uploaded[n][i] = "absent"
  /\ life' = [life EXCEPT ![n] = "counted"]
  /\ UNCHANGED <<disk, storage, uploads, drain, req, fresh, reads, faults>>

(***************************************************************************)
(* The process exits and the instance is gone with its disk.               *)
(***************************************************************************)
Terminate(n) ==
  /\ life[n] = "counted"
  /\ life' = [life EXCEPT ![n] = "gone"]
  /\ StopProcess(n)
  /\ uploading' = [uploading EXCEPT ![n] = NoFiles[n]]
  /\ uploaded' = [uploaded EXCEPT ![n] = NoFiles[n]]
  /\ caching' = [caching EXCEPT ![n] = NoFiles[n]]
  /\ cached' = [cached EXCEPT ![n] = NoFiles[n]]
  /\ orphaned' = [orphaned EXCEPT ![n] = NoFiles[n]]
  /\ UNCHANGED <<storage, home, rows, acked, late, fresh, reads, faults>>

--------------------------------------------------------------------------------
UploadStep ==
  \E i \in Ids :
    \/ \E n \in Nodes : BeginUpload(i, n)
    \/ FinishReceive(i) \/ FailReceive(i) \/ Abort(i)
    \/ Commit(i) \/ ReturnEarly(i) \/ Respond(i)

WritebackStep(i, w) ==
  OpenWriteback(i, w) \/ Store(i, w) \/ StoreFails(i, w) \/ RenameUploaded(i, w)

PurgeStep ==
  \E n \in Nodes, i \in Ids :
    PurgeCached(n, i) \/ EmptyCached(n, i) \/ PurgeGarbage(n, i)

DownloadStep(r) ==
  \/ \E i \in Ids, n \in Nodes : StartDownload(r, i, n)
  \/ LookUploaded(r) \/ LookCached(r) \/ AskPeer(r) \/ PeerError(r)
  \/ LookStorage(r) \/ StorageError(r) \/ Stall(r) \/ FinishDownload(r)

RecacheStep(r) ==
  \/ BackgroundRecache(r) \/ StartDownloadToCache(r) \/ FinishWrite(r)
  \/ DownloadFails(r) \/ CopyFromPeer(r) \/ NoPeerHasFile(r) \/ CopyFails(r)
  \/ RenameCaching(r) \/ RemoveCaching(r)

NodeStep == \E n \in Nodes : Crash(n) \/ ReadyToTerminate(n) \/ Terminate(n)

Next ==
  \/ UploadStep
  \/ \E i \in Ids : Age(i)
  \/ \E i \in Ids, w \in Routines : WritebackStep(i, w)
  \/ PurgeStep
  \/ \E r \in Reqs : DownloadStep(r) \/ RecacheStep(r)
  \/ NodeStep

Spec == Init /\ [][Next]_vars

(***************************************************************************)
(* The background drain and the goroutine of the request handler keep      *)
(* running, and time passes.  Nothing else has to happen.                  *)
(***************************************************************************)
DrainProgress(i, w) == OpenWriteback(i, w) \/ Store(i, w) \/ RenameUploaded(i, w)
FairSpec ==
  /\ Spec
  /\ \A i \in Ids : WF_vars(Age(i))
  /\ \A i \in Ids, w \in Routines : WF_vars(DrainProgress(i, w))

--------------------------------------------------------------------------------
(* Properties *)

(***************************************************************************)
(* The content of i can still be produced: it is empty, PermanentStorage   *)
(* has it, or some node holds it in a state that is not given up before it *)
(* is stored.  Without a PermanentStorage the cached copy is the only one. *)
(***************************************************************************)
Recoverable(i) ==
  \/ i \in EmptyIds
  \/ i \in storage
  \/ \E n \in Nodes : uploaded[n][i] = "whole"
  \/ ~HasStorage /\ \E n \in Nodes : cached[n][i] = "whole"

(***************************************************************************)
(* No sequence of aborts, writebacks, purges, recaches, crashes and        *)
(* scale-ins loses content whose upload was answered with success, unless  *)
(* the answer was given after the node had been counted empty by           *)
(* prepareForTermination (or the node was disposed of although there is no *)
(* PermanentStorage at all).                                               *)
(***************************************************************************)
AckedDurable ==
  \A i \in acked \ late :
    Recoverable(i) \/ (~HasStorage /\ life[home[i]] = "gone")

(***************************************************************************)
(* A .uploaded file leaves a cache directory only when PermanentStorage    *)
(* has its content, when its own handler aborts the upload, or with a      *)
(* terminated node that had not promised it.                               *)
(***************************************************************************)
UploadedLeavesSafely ==
  [][\A n \in Nodes, i \in Ids \ EmptyIds :
       HasStorage /\ uploaded[n][i] # "absent" /\ uploaded'[n][i] = "absent" =>
         \/ i \in storage'
         \/ handler[i] # "aborted" /\ handler'[i] = "aborted"
         \/ life'[n] = "gone" /\ i \notin acked \ late]_vars

(***************************************************************************)
(* The promise of NewCiphertextCacheRaw: with peers, a download never      *)
(* stalls for committed content unless something is wrong.  A request that *)
(* met no fault finds the content locally, in PermanentStorage or in a     *)
(* peer in its first two passes, however uploads, writebacks and purges    *)
(* interleave with its lookups; what is wrong can only be that the upload  *)
(* was aborted after its commit, or its node terminated too early.         *)
(***************************************************************************)
NeverStalls ==
  \A r \in Reqs :
    PeerEnabled /\ req[r].pc = "stall" /\ req[r].clean =>
      LET i == req[r].id IN
        handler[i] = "aborted" \/ (life[home[i]] = "gone" /\ i \notin acked \ late)

(***************************************************************************)
(* Committed content whose handler did not abort reaches PermanentStorage, *)
(* whatever the handler died of and whichever writebacks failed.           *)
(***************************************************************************)
EventuallyStored ==
  \A i \in Ids \ EmptyIds :
    (i \in rows /\ handler[i] \in {"done", "dead"}) ~> (i \in storage)

(***************************************************************************)
(* Recache gets a whole file: the rename of i.caching to i.cached installs *)
(* the complete ciphertext, which UseLocalFile serves from then on.        *)
(***************************************************************************)
RecachedWhole ==
  [][\A n \in Nodes, i \in Ids :
       /\ caching[n][i] # "absent" /\ caching'[n][i] = "absent"
       /\ cached'[n][i] # cached[n][i]
       /\ life'[n] # "gone"
       => cached'[n][i] = "whole"]_vars

(***************************************************************************)
(* "cached files are persistently stored already" (filePurgeVisit).        *)
(***************************************************************************)
CachedIsStored ==
  \A n \in Nodes, i \in Ids \ EmptyIds : cached[n][i] # "absent" => i \in storage

================================================================================
