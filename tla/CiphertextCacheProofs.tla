------------------------- MODULE CiphertextCacheProofs -------------------------
(***************************************************************************)
(* Proofs about CiphertextCache for every number of nodes, files and       *)
(* requests: type correctness, and that content whose upload was answered  *)
(* with success is never lost; that a download that meets no fault never   *)
(* stalls for content that is there, and that without peers the .cached    *)
(* files are copies of what PermanentStorage has, whole when they are      *)
(* renamed by a recache that has the file to itself.                       *)
(***************************************************************************)
EXTENDS CiphertextCache, TLAPS

(***************************************************************************)
(* The inductive invariant behind AckedDurable.                            *)
(***************************************************************************)
Running == {"receiving", "received", "committed", "failing"}

(* An upload has a home as soon as it has begun; only a live node runs a   *)
(* handler, and a handler that acknowledged has returned.                  *)
HomeInv ==
  \A i \in Ids :
    IF handler[i] = "new"
    THEN home[i] = NoNode /\ \A w \in Routines : drain[i][w] = "idle"
    ELSE home[i] \in Nodes

HandlerInv ==
  \A i \in Ids :
    /\ handler[i] \in Running => life[home[i]] # "gone"
    /\ i \in acked => handler[i] = "done" /\ i \in rows

(* A .uploaded file is whole and lies in its home's directory.             *)
UploadedInv ==
  \A n \in Nodes, i \in Ids :
    uploaded[n][i] # "absent" => home[i] = n /\ uploaded[n][i] = "whole"

(* A writeback renames only what PermanentStorage has.                     *)
StoredInv ==
  /\ ~HasStorage => storage = {}
  /\ \A i \in Ids, w \in Routines :
       HasStorage /\ drain[i][w] = "stored" => i \in storage \cup EmptyIds

Kept(i) ==
  \/ i \in EmptyIds
  \/ i \in storage
  \/ uploaded[home[i]][i] = "whole"
  \/ ~HasStorage /\ cached[home[i]][i] = "whole"

(* What is committed, or about to be, is still there.                      *)
KeptInv ==
  \A i \in Ids :
    /\ handler[i] \notin {"new", "aborted"}
    /\ i \in rows \/ handler[i] \in {"received", "committed", "failing"}
    /\ life[home[i]] # "gone"
    => Kept(i)

(* A node counted empty, and a terminated one, leave nothing behind that   *)
(* was acknowledged before the count.                                      *)
CountedInv ==
  \A i \in acked \ late :
    HasStorage /\ life[home[i]] # "running" => i \in storage \cup EmptyIds

(* Without a PermanentStorage, a download on the node that has the content *)
(* finds it there: it never recaches over the only copy.                   *)
Local(r) ==
  req[r].pc # "idle" =>
    /\ req[r].id \in rows \ EmptyIds
    /\ req[r].node = home[req[r].id] /\ handler[req[r].id] # "aborted"
       => /\ life[req[r].node] # "gone"
          /\ req[r].at = req[r].node
          /\ req[r].pc \in {"lookUploaded", "lookCached", "openLocal"}
          /\ req[r].pc = "lookCached" => cached[req[r].node][req[r].id] = "whole"
LocalInv == ~HasStorage => \A r \in Reqs : Local(r)

(* There is a row from the commit on. *)
RowsInv ==
  /\ \A i \in rows : handler[i] \notin {"new", "receiving", "received"}
  /\ \A i \in Ids : handler[i] \in {"committed", "failing"} => i \in rows

Safe ==
  /\ HandlerInv /\ UploadedInv /\ StoredInv /\ RowsInv /\ KeptInv /\ CountedInv
  /\ LocalInv

--------------------------------------------------------------------------------
Files == [Nodes -> [Ids -> Content]]
Requests == [Reqs -> ActiveReq \cup {IdleReq}]

LEMMA PutType ==
  ASSUME NEW f \in Files, NEW n \in Nodes, NEW i \in Ids, NEW c \in Content
  PROVE  /\ Put(f, n, i, c) \in Files
         /\ \A m \in Nodes, j \in Ids :
              Put(f, n, i, c)[m][j] = IF m = n /\ j = i THEN c ELSE f[m][j]
  BY DEF Files, Put

LEMMA MovedType ==
  ASSUME req \in Requests, NEW n \in Nodes, NEW i \in Ids,
         NEW name \in {"caching", "cached"}
  PROVE  /\ Unlinked(n, i, name) \in Requests
         /\ Renamed(n, i) \in Requests
         /\ Truncated(n, i, name) \in Requests
  <1> SUFFICES ASSUME NEW q \in Reqs
               PROVE  /\ Unlinked(n, i, name)[q] \in ActiveReq \cup {IdleReq}
                      /\ Renamed(n, i)[q] \in ActiveReq \cup {IdleReq}
                      /\ Truncated(n, i, name)[q] \in ActiveReq \cup {IdleReq}
      BY DEF Unlinked, Renamed, Truncated, Requests
  <1>1. CASE req[q].node # n
      BY <1>1 DEF Unlinked, Renamed, Truncated, Requests
  <1>2. CASE req[q].node = n
    <2>1. req[q] \in ActiveReq
        BY <1>2, NoNodeAssumption DEF Requests, IdleReq
    <2> QED BY <2>1 DEF Unlinked, Renamed, Truncated, ActiveReq
  <1> QED BY <1>1, <1>2

(* What happens to an inode does not move the request that has it open. *)
SameStep(p, q) == p.pc = q.pc /\ p.id = q.id /\ p.node = q.node /\ p.at = q.at

LEMMA MovedSame ==
  ASSUME req \in Requests, NEW n \in Nodes, NEW i \in Ids,
         NEW name \in {"caching", "cached"}, NEW r \in Reqs
  PROVE  /\ SameStep(Unlinked(n, i, name)[r], req[r])
         /\ SameStep(Renamed(n, i)[r], req[r])
         /\ SameStep(Truncated(n, i, name)[r], req[r])
  <1>1. CASE req[r].node # n
      BY <1>1 DEF Unlinked, Renamed, Truncated, SameStep
  <1>2. CASE req[r].node = n
    <2>1. req[r] \in ActiveReq
        BY <1>2, NoNodeAssumption DEF Requests, IdleReq
    <2> QED BY <2>1 DEF Unlinked, Renamed, Truncated, ActiveReq, SameStep
  <1> QED BY <1>1, <1>2

LEMMA ActiveType ==
  ASSUME req \in Requests, NEW r \in Reqs, req[r].pc # "idle"
  PROVE  req[r] \in ActiveReq
  BY DEF Requests, IdleReq

LEMMA BecomeType ==
  ASSUME req \in Requests, NEW r \in Reqs, NEW q \in ActiveReq \cup {IdleReq},
         Become(r, q)
  PROVE  req' \in Requests
  BY DEF Requests, Become

(* The record each step of a request leaves it with. *)
LEMMA StepType ==
  ASSUME NEW q \in ActiveReq
  PROVE  /\ \A pc \in LookupSteps \cup RecacheSteps :
              At(q, pc) \in ActiveReq /\ Closed(q, pc) \in ActiveReq
         /\ \A c \in Content : Opened(q, c) \in ActiveReq
         /\ NextPass(q) \in ActiveReq
         /\ NextAttempt(q) \in ActiveReq
  <1> USE CacheAssumption DEF ActiveReq, LookupSteps, RecacheSteps
  <1>1. \A pc \in LookupSteps \cup RecacheSteps :
          At(q, pc) \in ActiveReq /\ Closed(q, pc) \in ActiveReq
    <2> TAKE pc \in LookupSteps \cup RecacheSteps
    <2>1. At(q, pc) \in ActiveReq
        BY DEF At
    <2>2. Closed(q, pc) \in ActiveReq
        BY DEF Closed
    <2> QED BY <2>1, <2>2
  <1>2. \A c \in Content : Opened(q, c) \in ActiveReq
      BY DEF Opened
  <1>3. NextPass(q) \in ActiveReq
      BY DEF NextPass
  <1>4. NextAttempt(q) \in ActiveReq
    <2>1. CASE HasStorage /\ q.tries > 0
      <3> DEFINE c == Closed(q, "create")
      <3>1. c \in ActiveReq /\ c.tries - 1 \in 0 .. Tries
          BY <1>1, <2>1 DEF Closed
      <3> HIDE DEF c
      <3>2. [c EXCEPT !.pass = 2, !.tries = @ - 1] \in ActiveReq
          BY <3>1
      <3> QED BY <2>1, <3>2 DEF NextAttempt, c
    <2>2. CASE ~(HasStorage /\ q.tries > 0)
        BY <1>1, <2>2 DEF NextAttempt
    <2> QED BY <2>1, <2>2
  <1> QED BY <1>1, <1>2, <1>3, <1>4

SameFile(p, q) == p.id = q.id /\ p.node = q.node

LEMMA StepFile ==
  ASSUME NEW q \in ActiveReq
  PROVE  /\ \A pc : SameFile(At(q, pc), q) /\ SameFile(Closed(q, pc), q)
         /\ SameFile(NextPass(q), q)
         /\ SameFile(NextAttempt(q), q)
  <1>1. \A pc : SameFile(At(q, pc), q) /\ SameFile(Closed(q, pc), q)
      BY DEF At, Closed, ActiveReq, SameFile
  <1>2. SameFile(NextPass(q), q)
      BY DEF NextPass, ActiveReq, SameFile
  <1>3. SameFile(NextAttempt(q), q)
    <2> DEFINE c == Closed(q, "create")
    <2>1. c \in ActiveReq /\ SameFile(c, q)
        BY <1>1, StepType DEF RecacheSteps
    <2> HIDE DEF c
    <2>2. SameFile([c EXCEPT !.pass = 2, !.tries = @ - 1], q)
        BY <2>1 DEF ActiveReq, SameFile
    <2> QED BY <1>1, <2>2 DEF NextAttempt, c
  <1> QED BY <1>1, <1>2, <1>3

LEMMA TriesType ==
  ASSUME NEW q \in ActiveReq
  PROVE  /\ q.tries # 0 => [q EXCEPT !.pc = "lookUploaded", !.tries = @ - 1] \in ActiveReq
         /\ [q EXCEPT !.pc = "create", !.pass = 1, !.tries = Tries] \in ActiveReq
  <1>1. q.tries \in 0 .. Tries
      BY DEF ActiveReq
  <1>2. Tries \in 0 .. Tries /\ (q.tries # 0 => q.tries - 1 \in 0 .. Tries)
      BY <1>1, CacheAssumption
  <1> QED BY <1>2 DEF ActiveReq, LookupSteps, RecacheSteps

--------------------------------------------------------------------------------
(***************************************************************************)
(* Type correctness.  It is inductive together with HomeInv, without which *)
(* nothing is known of uploaded[home[i]].                                  *)
(***************************************************************************)
TypeInv == TypeOK /\ HomeInv

LEMMA TypeInit == Init => TypeInv
  BY CacheAssumption
  DEF Init, TypeInv, TypeOK, HomeInv, NoFiles, Content, HandlerStates, DrainStates

LEMMA TypeUpload == TypeInv /\ UploadStep => TypeInv'
  <1> SUFFICES ASSUME TypeInv, NEW i \in Ids,
                      \/ \E n \in Nodes : BeginUpload(i, n)
                      \/ FinishReceive(i) \/ FailReceive(i) \/ Abort(i)
                      \/ Commit(i) \/ ReturnEarly(i) \/ Respond(i)
               PROVE  TypeInv'
      BY DEF UploadStep
  <1> USE CacheAssumption DEF TypeInv, TypeOK, HomeInv, Content, HandlerStates, disk
  <1>1. ASSUME NEW n \in Nodes, BeginUpload(i, n) PROVE TypeInv'
      BY <1>1, NoNodeAssumption DEF BeginUpload, Put
  <1>2. CASE FinishReceive(i)
      BY <1>2 DEF FinishReceive, Put
  <1>3. CASE FailReceive(i)
      BY <1>3 DEF FailReceive, Put
  <1>4. CASE Abort(i)
    <2>0. home[i] \in Nodes /\ uploaded[home[i]][i] \in Content
        BY <1>4 DEF Abort
    <2>1. uploaded' \in Files /\ orphaned' \in Files
      <3>1. /\ Put(uploaded, home[i], i, "absent") \in Files
            /\ Put(orphaned, home[i], i, uploaded[home[i]][i]) \in Files
          BY <2>0, PutType DEF Files
      <3> QED BY <1>4, <3>1 DEF Abort, Files
    <2>2. faults' \in 0 .. MaxFaults
        BY <1>4 DEF Abort, Fault
    <2> QED BY <1>4, <2>1, <2>2 DEF Abort, Files
  <1>5. CASE Commit(i)
    <2>1. faults' \in 0 .. MaxFaults
        BY <1>5 DEF Commit, Fault
    <2>2. handler' \in [Ids -> HandlerStates] /\ HomeInv'
        BY <1>5 DEF Commit
    <2> QED BY <1>5, <2>1, <2>2 DEF Commit
  <1>6. CASE ReturnEarly(i)
      BY <1>6 DEF ReturnEarly
  <1>7. CASE Respond(i)
      BY <1>7 DEF Respond, Routines, DrainStates
  <1> QED BY <1>1, <1>2, <1>3, <1>4, <1>5, <1>6, <1>7

LEMMA TypeWriteback ==
  ASSUME TypeInv, NEW i \in Ids, NEW w \in Routines, WritebackStep(i, w)
  PROVE  TypeInv'
  <1> USE CacheAssumption DEF TypeInv, TypeOK, HomeInv, DrainStates, disk, uploads
  <1>1. CASE OpenWriteback(i, w)
      BY <1>1 DEF OpenWriteback
  <1>2. CASE Store(i, w)
      BY <1>2 DEF Store
  <1>3. CASE StoreFails(i, w)
      BY <1>3 DEF StoreFails, Fault
  <1>4. CASE RenameUploaded(i, w)
    <2>1. home[i] \in Nodes
        BY <1>4 DEF RenameUploaded
    <2>2. uploaded' \in Files /\ cached' \in Files
      <3>1. /\ Put(uploaded, home[i], i, "absent") \in Files
            /\ Put(cached, home[i], i, uploaded[home[i]][i]) \in Files
        <4>1. uploaded[home[i]][i] \in Content
            BY <2>1
        <4> QED BY <2>1, <4>1, PutType DEF Files, Content
      <3> QED BY <1>4, <3>1 DEF RenameUploaded, Files
    <2>3. req' \in Requests
        BY <1>4, <2>1, MovedType DEF RenameUploaded, Requests
    <2> QED BY <1>4, <2>1, <2>2, <2>3 DEF RenameUploaded, Files, Requests
  <1> QED BY <1>1, <1>2, <1>3, <1>4 DEF WritebackStep

LEMMA TypePurge == TypeInv /\ PurgeStep => TypeInv'
  <1> SUFFICES ASSUME TypeInv, NEW n \in Nodes, NEW i \in Ids,
                      PurgeCached(n, i) \/ EmptyCached(n, i) \/ PurgeGarbage(n, i)
               PROVE  TypeInv'
      BY DEF PurgeStep
  <1> USE CacheAssumption DEF TypeInv, TypeOK, HomeInv, uploads
  <1>1. CASE PurgeCached(n, i)
    <2>1. cached' \in Files /\ req' \in Requests
        BY <1>1, PutType, MovedType DEF PurgeCached, Files, Requests, Content
    <2> QED BY <1>1, <2>1 DEF PurgeCached, Files, Requests
  <1>2. CASE EmptyCached(n, i)
    <2>1. cached' \in Files /\ req' \in Requests
        BY <1>2, PutType, MovedType DEF EmptyCached, Files, Requests, Content
    <2> QED BY <1>2, <2>1 DEF EmptyCached, Files, Requests, Fault
  <1>3. CASE PurgeGarbage(n, i)
    <2>1. uploading' \in Files /\ caching' \in Files /\ orphaned' \in Files
      <3>1. /\ Put(uploading, n, i, "absent") \in Files
            /\ Put(caching, n, i, "absent") \in Files
            /\ Put(orphaned, n, i, "absent") \in Files
          BY PutType DEF Files, Content
      <3> QED BY <1>3, <3>1 DEF PurgeGarbage, Files
    <2> QED BY <1>3, <2>1 DEF PurgeGarbage, Files
  <1> QED BY <1>1, <1>2, <1>3

LEMMA TypeDownload ==
  ASSUME TypeInv, NEW r \in Reqs, DownloadStep(r)
  PROVE  TypeInv'
  <1> DEFINE q == req[r]
  <1> USE CacheAssumption DEF TypeInv, TypeOK
  <1>0. ASSUME req' \in Requests, OnlyReq, fresh' \subseteq Ids,
               reads' \in 0 .. MaxReads, faults' \in 0 .. MaxFaults
        PROVE  TypeInv'
      BY <1>0 DEF OnlyReq, disk, uploads, HomeInv, Requests
  <1>a. req \in Requests
      BY DEF Requests
  <1>1. ASSUME NEW i \in Ids, NEW n \in Nodes, StartDownload(r, i, n) PROVE TypeInv'
    <2>1. FirstLook(i, n) \in ActiveReq
      <3>1. Tries \in 0 .. Tries
          OBVIOUS
      <3> QED BY <3>1 DEF FirstLook, ActiveReq, LookupSteps, Content
    <2>2. req' \in Requests
        BY <1>1, <1>a, <2>1, BecomeType DEF StartDownload
    <2>3. reads' \in 0 .. MaxReads
        BY <1>1 DEF StartDownload
    <2> QED BY <1>0, <1>1, <2>2, <2>3 DEF StartDownload
  <1>2. CASE LookUploaded(r)
    <2>1. q \in ActiveReq
        BY <1>2, <1>a, ActiveType DEF LookUploaded
    <2>2. uploaded[q.at][q.id] \in Content /\ q.id \in Ids
        BY <2>1 DEF ActiveReq
    <2>3. /\ Opened(q, uploaded[q.at][q.id]) \in ActiveReq
          /\ At(q, "lookCached") \in ActiveReq
        BY <2>1, <2>2, StepType DEF LookupSteps
    <2>4. req' \in Requests
        BY <1>2, <1>a, <2>3, BecomeType DEF LookUploaded
    <2> QED BY <1>0, <1>2, <2>2, <2>4 DEF LookUploaded
  <1>3. CASE LookCached(r)
    <2>1. q \in ActiveReq
        BY <1>3, <1>a, ActiveType DEF LookCached
    <2>2. cached[q.at][q.id] \in Content
        BY <2>1 DEF ActiveReq
    <2>3. /\ Opened(q, cached[q.at][q.id]) \in ActiveReq
          /\ At(q, "askPeer") \in ActiveReq
          /\ At(q, "lookStorage") \in ActiveReq
        BY <2>1, <2>2, StepType DEF LookupSteps
    <2>4. req' \in Requests
        BY <1>3, <1>a, <2>3, BecomeType DEF LookCached
    <2> QED BY <1>0, <1>3, <2>4 DEF LookCached
  <1>4. CASE AskPeer(r)
    <2>1. q \in ActiveReq
        BY <1>4, <1>a, ActiveType DEF AskPeer
    <2>2. \A m \in Peers(q.node) :
            [q EXCEPT !.pc = "lookUploaded", !.at = m, !.asked = @ \cup {m}] \in ActiveReq
        BY <2>1 DEF ActiveReq, LookupSteps, Peers
    <2>3. [q EXCEPT !.pc = "lookStorage", !.at = q.node] \in ActiveReq
        BY <2>1 DEF ActiveReq, LookupSteps
    <2>4. NextPass(q) \in ActiveReq
        BY <2>1, StepType
    <2>5. req' \in Requests
        BY <1>4, <1>a, <2>2, <2>3, <2>4, BecomeType DEF AskPeer
    <2> QED BY <1>0, <1>4, <2>5 DEF AskPeer
  <1>5. CASE PeerError(r)
    <2>1. q \in ActiveReq
        BY <1>5, <1>a, ActiveType DEF PeerError
    <2>2. [q EXCEPT !.pc = "askPeer", !.clean = FALSE] \in ActiveReq
        BY <2>1 DEF ActiveReq, LookupSteps
    <2>3. req' \in Requests
        BY <1>5, <1>a, <2>2, BecomeType DEF PeerError
    <2> QED BY <1>0, <1>5, <2>3 DEF PeerError, Fault
  <1>6. CASE LookStorage(r)
    <2>1. q \in ActiveReq
        BY <1>6, <1>a, ActiveType DEF LookStorage
    <2>2. [q EXCEPT !.pc = "openRemote", !.src = "whole"] \in ActiveReq
        BY <2>1 DEF ActiveReq, LookupSteps, Content
    <2>3. req' \in Requests
        BY <1>6, <1>a, <2>1, <2>2, StepType, BecomeType DEF LookStorage
    <2> QED BY <1>0, <1>6, <2>3 DEF LookStorage
  <1>7. CASE StorageError(r)
    <2>1. q \in ActiveReq
        BY <1>7, <1>a, ActiveType DEF StorageError
    <2>2. [q EXCEPT !.clean = FALSE] \in ActiveReq
        BY <2>1 DEF ActiveReq
    <2>3. req' \in Requests
        BY <1>7, <1>a, <2>2, StepType, BecomeType DEF StorageError
    <2> QED BY <1>0, <1>7, <2>3 DEF StorageError, Fault
  <1>8. CASE Stall(r)
    <2>1. q \in ActiveReq
        BY <1>8, <1>a, ActiveType DEF Stall
    <2>2. ASSUME q.tries # 0
          PROVE  [q EXCEPT !.pc = "lookUploaded", !.tries = @ - 1] \in ActiveReq
      BY <2>1, <2>2, TriesType
    <2>3. At(q, "failed") \in ActiveReq
        BY <2>1, StepType DEF LookupSteps
    <2>4. req' \in Requests
        BY <1>8, <1>a, <2>2, <2>3, BecomeType DEF Stall
    <2> QED BY <1>0, <1>8, <2>4 DEF Stall
  <1>9. CASE FinishDownload(r)
    <2>1. req' \in Requests
        BY <1>9, <1>a, BecomeType DEF FinishDownload
    <2> QED BY <1>0, <1>9, <2>1 DEF FinishDownload
  <1> QED BY <1>1, <1>2, <1>3, <1>4, <1>5, <1>6, <1>7, <1>8, <1>9 DEF DownloadStep

LEMMA CreateType ==
  ASSUME TypeInv, NEW r \in Reqs, req[r] \in ActiveReq, NEW pc \in RecacheSteps,
         NEW c \in Content, CreateCaching(r, pc, c)
  PROVE  req' \in Requests /\ caching' \in Files
  <1> DEFINE q == [req[r] EXCEPT !.pc = pc, !.file = "caching", !.sole = TRUE, !.src = c]
             t == Truncated(req[r].node, req[r].id, "caching")
  <1>1. req[r].node \in Nodes /\ req[r].id \in Ids
      BY DEF ActiveReq
  <1>2. q \in ActiveReq
      BY DEF ActiveReq
  <1>3. t \in Requests
      BY <1>1, MovedType DEF TypeInv, TypeOK, Requests
  <1>4. req' = [t EXCEPT ![r] = q] /\ caching' = Put(caching, req[r].node, req[r].id, "partial")
      BY DEF CreateCaching
  <1> HIDE DEF q, t
  <1>5. req' \in Requests
      BY <1>2, <1>3, <1>4 DEF Requests
  <1> QED BY <1>1, <1>4, <1>5, PutType DEF TypeInv, TypeOK, Files, Content

LEMMA TypeRecache ==
  ASSUME TypeInv, NEW r \in Reqs, RecacheStep(r)
  PROVE  TypeInv'
  <1> DEFINE q == req[r]
  <1> USE CacheAssumption DEF TypeInv, TypeOK
  <1>0. ASSUME req' \in Requests, caching' \in Files, cached' \in Files, RecacheVars,
               faults' \in 0 .. MaxFaults
        PROVE  TypeInv'
      BY <1>0 DEF RecacheVars, uploads, HomeInv, Requests, Files
  <1>a. req \in Requests /\ caching \in Files /\ cached \in Files
      BY DEF Requests, Files
  <1>b. q \in ActiveReq
      BY <1>a, ActiveType DEF RecacheStep, BackgroundRecache, StartDownloadToCache,
         FinishWrite, DownloadFails, CopyFromPeer, NoPeerHasFile, CopyFails,
         RenameCaching, RemoveCaching
  <1>c. q.node \in Nodes /\ q.id \in Ids
      BY <1>b DEF ActiveReq
  <1>d. /\ \A pc \in RecacheSteps : At(q, pc) \in ActiveReq /\ Closed(q, pc) \in ActiveReq
        /\ NextAttempt(q) \in ActiveReq
      BY <1>b, StepType
  <1>1. CASE BackgroundRecache(r)
    <2>1. [q EXCEPT !.pc = "create", !.pass = 1, !.tries = Tries] \in ActiveReq
      BY <1>b, TriesType
    <2>2. req' \in Requests
        BY <1>1, <1>a, <2>1, BecomeType DEF BackgroundRecache
    <2> QED BY <1>0, <1>1, <1>a, <2>2 DEF BackgroundRecache
  <1>2. CASE StartDownloadToCache(r)
    <2>1. req' \in Requests /\ caching' \in Files
      <3>1. CASE HasStorage
          BY <1>2, <1>b, <3>1, CreateType DEF StartDownloadToCache, RecacheSteps, Content
      <3>2. CASE ~HasStorage
          BY <1>2, <1>a, <1>d, <3>2, BecomeType DEF StartDownloadToCache, RecacheSteps
      <3> QED BY <3>1, <3>2
    <2> QED BY <1>0, <1>2, <1>a, <2>1 DEF StartDownloadToCache
  <1>3. CASE FinishWrite(r)
    <2>1. caching' \in Files /\ cached' \in Files
      <3>1. /\ Put(caching, q.node, q.id, "whole") \in Files
            /\ Put(cached, q.node, q.id, "whole") \in Files
          BY <1>a, <1>c, PutType DEF Content
      <3> QED BY <1>3, <1>a, <3>1 DEF FinishWrite, Written
    <2>2. req' \in Requests
        BY <1>3, <1>a, <1>d, BecomeType DEF FinishWrite, RecacheSteps
    <2> QED BY <1>0, <1>3, <2>1, <2>2 DEF FinishWrite
  <1>4. CASE DownloadFails(r)
    <2>1. req' \in Requests
        BY <1>4, <1>a, <1>d, BecomeType DEF DownloadFails, RecacheSteps
    <2>2. faults' \in 0 .. MaxFaults
        BY <1>4 DEF DownloadFails, Fault
    <2> QED BY <1>0, <1>4, <1>a, <2>1, <2>2 DEF DownloadFails
  <1>5. CASE CopyFromPeer(r)
    <2>1. PICK m \in Peers(q.node) : CreateCaching(r, "copy", PeerFile(m, q.id))
        BY <1>5 DEF CopyFromPeer
    <2>2. PeerFile(m, q.id) \in Content
        BY <1>c, <2>1 DEF PeerFile, Peers
    <2>3. req' \in Requests /\ caching' \in Files
        BY <1>b, <2>1, <2>2, CreateType DEF RecacheSteps
    <2> QED BY <1>0, <1>5, <1>a, <2>3 DEF CopyFromPeer
  <1>6. CASE NoPeerHasFile(r)
    <2>1. req' \in Requests
        BY <1>6, <1>a, <1>d, BecomeType DEF NoPeerHasFile, RecacheSteps
    <2>2. faults' \in 0 .. MaxFaults
        BY <1>6 DEF NoPeerHasFile, Fault
    <2> QED BY <1>0, <1>6, <1>a, <2>1, <2>2 DEF NoPeerHasFile
  <1>7. CASE CopyFails(r)
    <2>1. req' \in Requests
        BY <1>7, <1>a, <1>d, BecomeType DEF CopyFails
    <2> QED BY <1>0, <1>7, <1>a, <2>1 DEF CopyFails, Fault
  <1>8. CASE RenameCaching(r)
    <2>1. CASE caching[q.node][q.id] = "absent"
      <3>1. req' \in Requests
          BY <1>8, <2>1, <1>a, <1>d, BecomeType DEF RenameCaching, RecacheSteps
      <3> QED BY <1>0, <1>8, <1>a, <2>1, <3>1 DEF RenameCaching
    <2>2. CASE caching[q.node][q.id] # "absent"
      <3>1. caching' \in Files /\ cached' \in Files
        <4>1. caching[q.node][q.id] \in Content
            BY <1>c
        <4> QED BY <1>8, <1>a, <1>c, <2>2, <4>1, PutType DEF RenameCaching, Content
      <3> DEFINE t == Renamed(q.node, q.id)
      <3>2. t \in Requests /\ t[r].pc = q.pc
        <4>1. t \in Requests
            BY <1>a, <1>c, MovedType
        <4>2. t[r].pc = q.pc
            BY <1>a, <1>c, MovedSame DEF SameStep
        <4> QED BY <4>1, <4>2
      <3>3. t[r] \in ActiveReq
          BY <1>b, <1>8, <3>2 DEF RenameCaching, Requests, IdleReq
      <3>4. Closed(t[r], "remove") \in ActiveReq
          BY <3>3, StepType DEF RecacheSteps
      <3>5. req' = [t EXCEPT ![r] = Closed(t[r], "remove")]
          BY <1>8, <2>2, <3>2 DEF RenameCaching, Requests
      <3> HIDE DEF t
      <3>6. req' \in Requests
          BY <3>2, <3>4, <3>5 DEF Requests
      <3> QED BY <1>0, <1>8, <3>1, <3>6 DEF RenameCaching
    <2> QED BY <2>1, <2>2
  <1>9. CASE RemoveCaching(r)
    <2>1. caching' \in Files
        BY <1>9, <1>a, <1>c, PutType DEF RemoveCaching, Content
    <2> DEFINE t == Unlinked(q.node, q.id, "caching")
    <2>2. t \in Requests
        BY <1>a, <1>c, MovedType
    <2>3. req' = [t EXCEPT ![r] = IdleReq]
        BY <1>9 DEF RemoveCaching
    <2> HIDE DEF t
    <2>4. req' \in Requests
        BY <2>2, <2>3 DEF Requests
    <2> QED BY <1>0, <1>9, <1>a, <2>1, <2>4 DEF RemoveCaching
  <1> QED BY <1>1, <1>2, <1>3, <1>4, <1>5, <1>6, <1>7, <1>8, <1>9 DEF RecacheStep

LEMMA TypeNode == TypeInv /\ NodeStep => TypeInv'
  <1> SUFFICES ASSUME TypeInv, NEW n \in Nodes,
                      Crash(n) \/ ReadyToTerminate(n) \/ Terminate(n)
               PROVE  TypeInv'
      BY DEF NodeStep
  <1> USE CacheAssumption DEF TypeInv, TypeOK
  <1>1. ASSUME StopProcess(n)
        PROVE  /\ handler' \in [Ids -> HandlerStates]
               /\ drain' \in [Ids -> [Routines -> DrainStates]]
               /\ req' \in [Reqs -> ActiveReq \cup {IdleReq}]
               /\ UNCHANGED home => HomeInv'
      BY <1>1, NoNodeAssumption DEF StopProcess, HandlerStates, DrainStates, HomeInv
  <1>2. CASE Crash(n)
      BY <1>1, <1>2 DEF Crash, Fault, disk
  <1>3. CASE ReadyToTerminate(n)
      BY <1>3 DEF ReadyToTerminate, disk, uploads, HomeInv
  <1>4. CASE Terminate(n)
      BY <1>1, <1>4 DEF Terminate, NoFiles, Content
  <1> QED BY <1>2, <1>3, <1>4

LEMMA TypeNext == TypeInv /\ [Next]_vars => TypeInv'
  <1> SUFFICES ASSUME TypeInv, [Next]_vars PROVE TypeInv'
      OBVIOUS
  <1>1. CASE UploadStep
      BY <1>1, TypeUpload
  <1>2. ASSUME NEW i \in Ids, Age(i) PROVE TypeInv'
      BY <1>2 DEF Age, TypeInv, TypeOK, HomeInv, disk, uploads
  <1>3. ASSUME NEW i \in Ids, NEW w \in Routines, WritebackStep(i, w) PROVE TypeInv'
      BY <1>3, TypeWriteback
  <1>4. CASE PurgeStep
      BY <1>4, TypePurge
  <1>5. ASSUME NEW r \in Reqs, DownloadStep(r) \/ RecacheStep(r) PROVE TypeInv'
      BY <1>5, TypeDownload, TypeRecache
  <1>6. CASE NodeStep
      BY <1>6, TypeNode
  <1>7. CASE UNCHANGED vars
      BY <1>7 DEF vars, disk, uploads, TypeInv, TypeOK, HomeInv
  <1> QED BY <1>1, <1>2, <1>3, <1>4, <1>5, <1>6, <1>7 DEF Next

(***************************************************************************)
(* Every variable keeps its type: no step of an upload, writeback, purge,  *)
(* download, recache or scale-in leaves the states the code knows of.      *)
(***************************************************************************)
THEOREM TypeCorrect == Spec => []TypeOK
  <1>1. TypeInv => TypeOK
      BY DEF TypeInv
  <1> QED BY <1>1, TypeInit, TypeNext, PTL DEF Spec

--------------------------------------------------------------------------------
(***************************************************************************)
(* Durability of acknowledged content.                                     *)
(***************************************************************************)
LEMMA SafeInit == Init => Safe
  <1> SUFFICES ASSUME Init PROVE Safe
      OBVIOUS
  <1> USE DEF Init
  <1>1. HandlerInv /\ StoredInv /\ RowsInv /\ CountedInv
      BY DEF HandlerInv, StoredInv, RowsInv, CountedInv, Running, Routines
  <1>2. UploadedInv
      BY DEF UploadedInv, NoFiles
  <1>3. KeptInv
      BY DEF KeptInv
  <1>4. LocalInv
      BY DEF LocalInv, Local, IdleReq
  <1> QED BY <1>1, <1>2, <1>3, <1>4 DEF Safe

LEMMA SafeUpload ==
  ASSUME TypeInv, Safe, UploadStep
  PROVE  Safe'
  <1> PICK i \in Ids : \/ \E n \in Nodes : BeginUpload(i, n)
                       \/ FinishReceive(i) \/ FailReceive(i) \/ Abort(i)
                       \/ Commit(i) \/ ReturnEarly(i) \/ Respond(i)
      BY DEF UploadStep
  <1> USE DEF TypeInv, TypeOK, HomeInv, Safe, disk
  <1>a. UploadedInv /\ UNCHANGED <<uploaded, home>> => UploadedInv'
      BY DEF UploadedInv
  <1>b. StoredInv /\ UNCHANGED <<storage, drain>> => StoredInv'
      BY DEF StoredInv
  <1>c. RowsInv /\ LocalInv => \A r \in Reqs : ~HasStorage /\ req[r].pc # "idle" =>
                                   handler[req[r].id] # "new" /\ req[r].id \in Ids
      BY DEF RowsInv, LocalInv, Local
  <1>1. ASSUME NEW n \in Nodes, BeginUpload(i, n) PROVE Safe'
    <2> USE <1>1 DEF BeginUpload
    <2>1. HandlerInv'
        BY DEF HandlerInv, Running
    <2>2. UploadedInv'
        BY NoNodeAssumption DEF UploadedInv
    <2>3. RowsInv'
        BY DEF RowsInv
    <2>4. KeptInv'
        BY <2>3 DEF KeptInv, Kept, RowsInv
    <2>5. CountedInv'
        BY DEF CountedInv, HandlerInv
    <2>6. LocalInv'
        BY <1>c DEF LocalInv, Local
    <2> QED BY <1>b, <2>1, <2>2, <2>3, <2>4, <2>5, <2>6
  <1>2. CASE FinishReceive(i)
    <2> USE <1>2 DEF FinishReceive, Put
    <2>1. HandlerInv'
        BY DEF HandlerInv, Running
    <2>2. UploadedInv'
        BY DEF UploadedInv
    <2>3. RowsInv'
        BY DEF RowsInv
    <2>4. KeptInv'
        BY DEF KeptInv, Kept
    <2>5. CountedInv'
        BY DEF CountedInv
    <2>6. LocalInv'
        BY DEF LocalInv, Local
    <2> QED BY <1>b, <2>1, <2>2, <2>3, <2>4, <2>5, <2>6
  <1>3. CASE FailReceive(i)
    <2> USE <1>3 DEF FailReceive
    <2>1. HandlerInv'
        BY DEF HandlerInv, Running
    <2>2. RowsInv'
        BY DEF RowsInv
    <2>3. KeptInv'
        BY DEF KeptInv, Kept
    <2>4. CountedInv'
        BY DEF CountedInv
    <2>5. LocalInv'
        BY DEF LocalInv, Local
    <2> QED BY <1>a, <1>b, <2>1, <2>2, <2>3, <2>4, <2>5
  <1>4. CASE Abort(i)
    <2> USE <1>4 DEF Abort
    <2>0. \/ UNCHANGED uploaded
          \/ uploaded' = Put(uploaded, home[i], i, "absent")
        OBVIOUS
    <2>1. HandlerInv'
        BY DEF HandlerInv, Running
    <2>2. UploadedInv'
      <3>1. CASE UNCHANGED uploaded
          BY <1>a, <3>1
      <3>2. CASE uploaded' = Put(uploaded, home[i], i, "absent")
          BY <3>2 DEF UploadedInv, Put
      <3> QED BY <2>0, <3>1, <3>2
    <2>3. RowsInv'
        BY DEF RowsInv
    <2>4. KeptInv'
        BY <2>0 DEF KeptInv, Kept, Put
    <2>5. CountedInv'
        BY DEF CountedInv
    <2>6. LocalInv'
        BY DEF LocalInv, Local
    <2> QED BY <1>b, <2>1, <2>2, <2>3, <2>4, <2>5, <2>6
  <1>5. CASE Commit(i)
    <2> USE <1>5 DEF Commit
    <2>0. /\ handler'[i] \in {"committed", "failing"}
          /\ \A j \in Ids \ {i} : handler'[j] = handler[j]
        OBVIOUS
    <2>1. HandlerInv'
        BY <2>0 DEF HandlerInv, Running
    <2>2. RowsInv'
        BY <2>0 DEF RowsInv
    <2>3. KeptInv'
        BY <2>0 DEF KeptInv, Kept
    <2>4. CountedInv'
        BY DEF CountedInv
    <2>5. LocalInv'
        BY <2>0 DEF LocalInv, Local
    <2> QED BY <1>a, <1>b, <2>1, <2>2, <2>3, <2>4, <2>5
  <1>6. CASE ReturnEarly(i)
    <2> USE <1>6 DEF ReturnEarly
    <2>1. HandlerInv'
        BY DEF HandlerInv, Running
    <2>2. RowsInv'
        BY DEF RowsInv
    <2>3. KeptInv'
        BY DEF KeptInv, Kept
    <2>4. CountedInv'
        BY DEF CountedInv
    <2>5. LocalInv'
        BY DEF LocalInv, Local
    <2> QED BY <1>a, <1>b, <2>1, <2>2, <2>3, <2>4, <2>5
  <1>7. CASE Respond(i)
    <2> USE <1>7 DEF Respond
    <2>0. i \in rows /\ life[home[i]] # "gone"
        BY DEF RowsInv, HandlerInv, Running
    <2>1. HandlerInv'
        BY <2>0 DEF HandlerInv, Running
    <2>2. StoredInv'
        BY DEF StoredInv, Routines
    <2>3. RowsInv'
        BY DEF RowsInv
    <2>4. KeptInv'
        BY DEF KeptInv, Kept
    <2>5. CountedInv'
        BY <2>0 DEF CountedInv
    <2>6. LocalInv'
        BY DEF LocalInv, Local
    <2> QED BY <1>a, <2>1, <2>2, <2>3, <2>4, <2>5, <2>6
  <1> QED BY <1>1, <1>2, <1>3, <1>4, <1>5, <1>6, <1>7

LEMMA SafeWriteback ==
  ASSUME TypeInv, Safe, NEW i \in Ids, NEW w \in Routines, WritebackStep(i, w)
  PROVE  Safe'
  <1> USE DEF TypeInv, TypeOK, HomeInv, Safe, disk, uploads
  <1>a. ASSUME UNCHANGED <<uploaded, cached, handler, home, rows, acked, late, life, req>>,
               storage \subseteq storage', StoredInv'
        PROVE  Safe'
    <2> USE <1>a
    <2>1. HandlerInv' /\ UploadedInv' /\ RowsInv'
        BY DEF HandlerInv, UploadedInv, RowsInv
    <2>2. KeptInv' /\ CountedInv'
        BY DEF KeptInv, Kept, CountedInv
    <2>3. LocalInv'
        BY DEF LocalInv, Local
    <2> QED BY <2>1, <2>2, <2>3
  <1>1. CASE OpenWriteback(i, w)
    <2>1. StoredInv'
        BY <1>1 DEF OpenWriteback, StoredInv
    <2> QED BY <1>1, <1>a, <2>1 DEF OpenWriteback
  <1>2. CASE Store(i, w)
    <2>1. StoredInv'
        BY <1>2 DEF Store, StoredInv
    <2> QED BY <1>2, <1>a, <2>1 DEF Store
  <1>3. CASE StoreFails(i, w)
    <2>1. StoredInv'
        BY <1>3 DEF StoreFails, StoredInv
    <2> QED BY <1>3, <1>a, <2>1 DEF StoreFails
  <1>4. CASE RenameUploaded(i, w)
    <2> USE <1>4 DEF RenameUploaded
    <2>1. StoredInv'
        BY DEF StoredInv
    <2>2. CASE uploaded[home[i]][i] = "absent"
        BY <1>a, <2>1, <2>2
    <2>3. CASE uploaded[home[i]][i] # "absent"
      <3>1. home[i] \in Nodes /\ uploaded[home[i]][i] = "whole"
          BY <2>3 DEF UploadedInv
      <3>2. /\ uploaded' = Put(uploaded, home[i], i, "absent")
            /\ cached' = Put(cached, home[i], i, "whole")
            /\ req' = Unlinked(home[i], i, "cached")
          BY <2>3, <3>1
      <3>3. HandlerInv' /\ RowsInv' /\ CountedInv'
          BY DEF HandlerInv, RowsInv, CountedInv
      <3>4. UploadedInv'
          BY <3>1, <3>2 DEF UploadedInv, Put
      <3>5. KeptInv'
          BY <3>1, <3>2 DEF KeptInv, Kept, Put, StoredInv
      <3>6. LocalInv'
        <4>1. \A r \in Reqs : SameStep(req'[r], req[r])
            BY <3>1, <3>2, MovedSame DEF Requests
        <4>2. \A n \in Nodes, j \in Ids : cached[n][j] = "whole" => cached'[n][j] = "whole"
            BY <3>1, <3>2 DEF Put
        <4>3. \A r \in Reqs : req[r].pc # "idle" => req[r].node \in Nodes /\ req[r].id \in Ids
            BY ActiveType DEF Requests, ActiveReq
        <4> QED BY <4>1, <4>2, <4>3 DEF LocalInv, Local, SameStep
      <3> QED BY <2>1, <3>3, <3>4, <3>5, <3>6
    <2> QED BY <2>2, <2>3
  <1> QED BY <1>1, <1>2, <1>3, <1>4 DEF WritebackStep

LEMMA SafePurge ==
  ASSUME TypeInv, Safe, PurgeStep
  PROVE  Safe'
  <1>1. HasStorage /\ UNCHANGED <<uploaded, storage, handler, home, rows, acked, late,
                                  drain, life>>
      BY DEF PurgeStep, PurgeCached, EmptyCached, PurgeGarbage, Purging, uploads
  <1>2. HandlerInv' /\ UploadedInv' /\ StoredInv' /\ RowsInv'
      BY <1>1 DEF Safe, HandlerInv, UploadedInv, StoredInv, RowsInv
  <1>3. KeptInv' /\ CountedInv' /\ LocalInv'
      BY <1>1 DEF Safe, KeptInv, Kept, CountedInv, LocalInv, Local
  <1> QED BY <1>2, <1>3 DEF Safe

(***************************************************************************)
(* A step of a request touches nothing the other invariants speak of but   *)
(* the .cached files, and those matter only without a PermanentStorage.    *)
(***************************************************************************)
ReqFrame == UNCHANGED <<uploaded, storage, handler, home, rows, acked, late, drain, life>>

LEMMA SafeReq ==
  ASSUME TypeInv, Safe, ReqFrame, LocalInv',
         \A i \in Ids : ~HasStorage /\ handler[i] # "aborted"
                        /\ home[i] \in Nodes /\ cached[home[i]][i] = "whole"
                        => cached'[home[i]][i] = "whole"
  PROVE  Safe'
  <1> USE DEF Safe, ReqFrame
  <1>1. HandlerInv' /\ UploadedInv' /\ StoredInv' /\ RowsInv' /\ CountedInv'
      BY DEF HandlerInv, UploadedInv, StoredInv, RowsInv, CountedInv
  <1>2. KeptInv'
    <2> SUFFICES ASSUME NEW i \in Ids,
                        handler[i] \notin {"new", "aborted"},
                        i \in rows \/ handler[i] \in {"received", "committed", "failing"},
                        life[home[i]] # "gone"
                 PROVE  Kept(i)'
        BY DEF KeptInv
    <2>1. home[i] \in Nodes
        BY DEF TypeInv, HomeInv
    <2>2. Kept(i)
        BY DEF KeptInv
    <2> QED BY <2>1, <2>2 DEF Kept
  <1> QED BY <1>1, <1>2

LEMMA LocalReq ==
  ASSUME TypeInv, Safe, ReqFrame, NEW r \in Reqs,
         \A q \in Reqs \ {r} : SameStep(req'[q], req[q]),
         ~HasStorage => Local(r)',
         \A i \in Ids : ~HasStorage /\ handler[i] # "aborted"
                        /\ home[i] \in Nodes /\ cached[home[i]][i] = "whole"
                        => cached'[home[i]][i] = "whole"
  PROVE  Safe'
  <1>1. LocalInv'
    <2> SUFFICES ASSUME ~HasStorage, NEW q \in Reqs \ {r} PROVE Local(q)'
        BY DEF LocalInv, Local
    <2>1. Local(q) /\ SameStep(req'[q], req[q])
        BY DEF Safe, LocalInv, Local
    <2>2. req[q].pc # "idle" => req[q].node \in Nodes /\ req[q].id \in Ids
        BY ActiveType DEF Requests, ActiveReq, TypeInv, TypeOK
    <2> QED BY <2>1, <2>2 DEF Local, SameStep, ReqFrame
  <1> QED BY <1>1, SafeReq

LEMMA SafeDownload ==
  ASSUME TypeInv, Safe, NEW r \in Reqs, DownloadStep(r)
  PROVE  Safe'
  <1> DEFINE q == req[r]
  <1>a. ReqFrame /\ UNCHANGED cached
      BY DEF DownloadStep, StartDownload, LookUploaded, LookCached, AskPeer, PeerError,
         LookStorage, StorageError, Stall, FinishDownload, OnlyReq, ReqFrame, disk, uploads
  <1>b. req \in Requests
      BY DEF TypeInv, TypeOK, Requests
  <1>c. ASSUME NEW p, Become(r, p), ~HasStorage => Local(r)' PROVE Safe'
    <2>1. \A s \in Reqs \ {r} : SameStep(req'[s], req[s])
        BY <1>b, <1>c DEF Become, SameStep, Requests
    <2> QED BY <1>a, <1>c, <2>1, LocalReq
  <1>d. Local(r) \/ HasStorage
      BY DEF Safe, LocalInv, Local
  <1>1. ASSUME NEW i \in Ids, NEW n \in Nodes, StartDownload(r, i, n) PROVE Safe'
    <2>1. req'[r] = FirstLook(i, n)
        BY <1>1, <1>b DEF StartDownload, Become, Requests
    <2>2. Local(r)'
        BY <1>1, <1>a, <2>1 DEF StartDownload, FirstLook, Local, ReqFrame
    <2> QED BY <1>1, <1>c, <2>2 DEF StartDownload
  <1>2. ASSUME q.pc \notin {"idle", "lookUploaded", "lookCached", "openLocal"},
               NEW p, Become(r, p), SameFile(p, q)
        PROVE  Safe'
    <2>1. req'[r] = p
        BY <1>2, <1>b DEF Become, Requests
    <2>2. ~HasStorage => Local(r)'
        BY <1>2, <1>a, <1>d, <2>1 DEF Local, ReqFrame, SameFile
    <2> QED BY <1>2, <1>c, <2>2
  <1>3. CASE LookUploaded(r)
    <2>1. q \in ActiveReq
        BY <1>3, <1>b, ActiveType DEF LookUploaded
    <2>2. PICK p : /\ Become(r, p)
                   /\ \/ p = Opened(q, uploaded[q.at][q.id]) /\ uploaded[q.at][q.id] # "absent"
                      \/ p = At(q, "lookCached") /\ uploaded[q.at][q.id] = "absent"
        BY <1>3 DEF LookUploaded
    <2>3. req'[r] = p /\ SameFile(p, q) /\ p.at = q.at
        BY <1>b, <2>1, <2>2 DEF Become, Requests, Opened, At, ActiveReq, SameFile
    <2>4. /\ p.pc = "lookCached" => uploaded[q.at][q.id] = "absent"
          /\ p.pc \in {"lookCached", "openLocal"} \/ q.at # q.node
        BY <2>1, <2>2 DEF Opened, At, ActiveReq
    <2>5. ASSUME ~HasStorage, q.node = home[q.id], handler[q.id] # "aborted",
                 uploaded[q.at][q.id] = "absent"
          PROVE  cached[q.node][q.id] = "whole"
      <3>1. q.id \in rows \ EmptyIds /\ life[q.node] # "gone" /\ q.at = q.node
          BY <1>3, <1>d, <2>5 DEF Local, LookUploaded
      <3>2. Kept(q.id)
          BY <2>1, <2>5, <3>1 DEF Safe, KeptInv, RowsInv, ActiveReq
      <3> QED BY <2>5, <3>1, <3>2 DEF Kept, Safe, StoredInv
    <2>6. ~HasStorage => Local(r)'
        BY <1>3, <1>a, <1>d, <2>3, <2>4, <2>5 DEF Local, LookUploaded, ReqFrame, SameFile
    <2> QED BY <1>c, <2>2, <2>6
  <1>4. CASE LookCached(r)
    <2>1. q \in ActiveReq
        BY <1>4, <1>b, ActiveType DEF LookCached
    <2>2. PICK p : /\ Become(r, p)
                   /\ \/ p = Opened(q, cached[q.at][q.id])
                      \/ /\ cached[q.at][q.id] = "absent"
                         /\ p \in {At(q, "askPeer"), At(q, "lookStorage")}
        BY <1>4 DEF LookCached
    <2>3. req'[r] = p /\ SameFile(p, q) /\ p.at = q.at
        BY <1>b, <2>1, <2>2 DEF Become, Requests, Opened, At, ActiveReq, SameFile
    <2>4. \/ q.at = q.node /\ p.pc = "openLocal"
          \/ q.at # q.node /\ p.pc = "openRemote"
          \/ cached[q.at][q.id] = "absent" /\ p.pc \in {"askPeer", "lookStorage"}
        BY <2>1, <2>2 DEF Opened, At, ActiveReq
    <2>5. ~HasStorage => Local(r)'
        BY <1>4, <1>a, <1>d, <2>3, <2>4 DEF Local, LookCached, ReqFrame, SameFile
    <2> QED BY <1>c, <2>2, <2>5
  <1>5. CASE AskPeer(r)
    <2>1. q \in ActiveReq
        BY <1>5, <1>b, ActiveType DEF AskPeer
    <2>a. /\ \A m : SameFile([q EXCEPT !.pc = "lookUploaded", !.at = m,
                                       !.asked = @ \cup {m}], q)
          /\ SameFile([q EXCEPT !.pc = "lookStorage", !.at = q.node], q)
          /\ SameFile(NextPass(q), q)
        BY <2>1, StepFile DEF ActiveReq, SameFile
    <2>2. PICK p : Become(r, p) /\ SameFile(p, q)
        BY <1>5, <2>a DEF AskPeer
    <2> QED BY <1>2, <1>5, <2>2 DEF AskPeer
  <1>6. CASE PeerError(r)
    <2>1. q \in ActiveReq
        BY <1>6, <1>b, ActiveType DEF PeerError
    <2>2. q.node # q.at /\ req'[r] = [q EXCEPT !.pc = "askPeer", !.clean = FALSE]
        BY <1>6, <1>b, <2>1 DEF PeerError, Become, Requests
    <2>3. ~HasStorage => Local(r)'
        BY <1>6, <1>a, <1>d, <2>1, <2>2 DEF Local, PeerError, ReqFrame, ActiveReq
    <2> QED BY <1>6, <1>c, <2>3 DEF PeerError
  <1>7. CASE LookStorage(r)
    <2>1. q \in ActiveReq
        BY <1>7, <1>b, ActiveType DEF LookStorage
    <2>a. /\ SameFile([q EXCEPT !.pc = "openRemote", !.src = "whole"], q)
          /\ SameFile(NextPass(q), q)
        BY <2>1, StepFile DEF ActiveReq, SameFile
    <2>2. PICK p : Become(r, p) /\ SameFile(p, q)
        BY <1>7, <2>a DEF LookStorage
    <2> QED BY <1>2, <1>7, <2>2 DEF LookStorage
  <1>8. CASE StorageError(r)
    <2>1. q \in ActiveReq
        BY <1>8, <1>b, ActiveType DEF StorageError
    <2>2. /\ [q EXCEPT !.clean = FALSE] \in ActiveReq
          /\ SameFile([q EXCEPT !.clean = FALSE], q)
        BY <2>1 DEF ActiveReq, SameFile
    <2>a. SameFile(NextPass([q EXCEPT !.clean = FALSE]), q)
        BY <2>2, StepFile DEF SameFile
    <2>3. PICK p : Become(r, p) /\ SameFile(p, q)
        BY <1>8, <2>a DEF StorageError
    <2> QED BY <1>2, <1>8, <2>3 DEF StorageError
  <1>9. CASE Stall(r)
    <2>1. q \in ActiveReq
        BY <1>9, <1>b, ActiveType DEF Stall
    <2>a. /\ SameFile([q EXCEPT !.pc = "lookUploaded", !.tries = @ - 1], q)
          /\ SameFile(At(q, "failed"), q)
        BY <2>1, StepFile DEF ActiveReq, SameFile
    <2>2. PICK p : Become(r, p) /\ SameFile(p, q)
        BY <1>9, <2>a DEF Stall
    <2> QED BY <1>2, <1>9, <2>2 DEF Stall
  <1>10. CASE FinishDownload(r)
    <2>1. Local(r)'
        BY <1>10, <1>b DEF FinishDownload, Become, Requests, IdleReq, Local
    <2> QED BY <1>10, <1>c, <2>1 DEF FinishDownload
  <1> QED BY <1>1, <1>3, <1>4, <1>5, <1>6, <1>7, <1>8, <1>9, <1>10 DEF DownloadStep

(***************************************************************************)
(* A recache runs only where the content was not found, so without a       *)
(* PermanentStorage never over the copy that is kept.                      *)
(***************************************************************************)
LEMMA SafeRecache ==
  ASSUME TypeInv, Safe, NEW r \in Reqs, RecacheStep(r)
  PROVE  Safe'
  <1> DEFINE q == req[r]
  <1>a. ReqFrame
      BY DEF RecacheStep, BackgroundRecache, StartDownloadToCache, FinishWrite,
         DownloadFails, CopyFromPeer, NoPeerHasFile, CopyFails, RenameCaching,
         RemoveCaching, RecacheVars, ReqFrame, uploads
  <1>b. req \in Requests /\ cached \in Files /\ caching \in Files
      BY DEF TypeInv, TypeOK, Requests, Files
  <1>c. q.pc \in RecacheSteps \cup {"openRemote"}
      BY DEF RecacheStep, BackgroundRecache, StartDownloadToCache, FinishWrite,
         DownloadFails, CopyFromPeer, NoPeerHasFile, CopyFails, RenameCaching,
         RemoveCaching, RecacheSteps
  <1>d. q \in ActiveReq
      BY <1>b, <1>c, ActiveType DEF RecacheSteps
  <1>e. q.node \in Nodes /\ q.id \in Ids
      BY <1>d DEF ActiveReq
  <1>f. ~HasStorage => /\ q.id \in rows \ EmptyIds
                       /\ q.node # home[q.id] \/ handler[q.id] = "aborted"
      BY <1>c DEF Safe, LocalInv, Local, RecacheSteps
  <1>g. ASSUME \A s \in Reqs \ {r} : SameStep(req'[s], req[s]),
               SameFile(req'[r], q) \/ req'[r] = IdleReq,
               UNCHANGED cached \/ \E c \in Content : cached' = Put(cached, q.node, q.id, c)
        PROVE  Safe'
    <2>1. ~HasStorage => Local(r)'
        BY <1>a, <1>f, <1>g DEF Local, SameFile, IdleReq, ReqFrame
    <2>2. ASSUME NEW i \in Ids, ~HasStorage, handler[i] # "aborted",
                 home[i] \in Nodes, cached[home[i]][i] = "whole"
          PROVE  cached'[home[i]][i] = "whole"
        BY <1>b, <1>e, <1>f, <1>g, <2>2, PutType
    <2> QED BY <1>a, <1>g, <2>1, <2>2, LocalReq
  <1>h. ASSUME NEW p, Become(r, p), SameFile(p, q) \/ p = IdleReq,
               UNCHANGED cached \/ \E c \in Content : cached' = Put(cached, q.node, q.id, c)
        PROVE  Safe'
    <2>1. /\ \A s \in Reqs \ {r} : SameStep(req'[s], req[s])
          /\ req'[r] = p
        BY <1>b, <1>h DEF Become, Requests, SameStep
    <2> QED BY <1>g, <1>h, <2>1
  <1>i. /\ \A pc : SameFile(At(q, pc), q) /\ SameFile(Closed(q, pc), q)
        /\ SameFile(NextAttempt(q), q)
      BY <1>d, StepFile
  <1>j. ASSUME NEW pc, NEW c, CreateCaching(r, pc, c), UNCHANGED cached PROVE Safe'
    <2> DEFINE t == Truncated(q.node, q.id, "caching")
               p == [q EXCEPT !.pc = pc, !.file = "caching", !.sole = TRUE, !.src = c]
    <2>1. t \in Requests /\ \A s \in Reqs : SameStep(t[s], req[s])
        BY <1>b, <1>e, MovedType, MovedSame
    <2>2. SameFile(p, q)
        BY <1>d DEF ActiveReq, SameFile
    <2>3. req' = [t EXCEPT ![r] = p]
        BY <1>j DEF CreateCaching
    <2> HIDE DEF t, p
    <2>4. req'[r] = p /\ \A s \in Reqs \ {r} : req'[s] = t[s]
        BY <2>1, <2>3 DEF Requests
    <2> QED BY <1>g, <1>j, <2>1, <2>2, <2>4
  <1>1. CASE BackgroundRecache(r)
    <2>1. SameFile([q EXCEPT !.pc = "create", !.pass = 1, !.tries = Tries], q)
        BY <1>d DEF ActiveReq, SameFile
    <2>2. PICK p : Become(r, p) /\ (SameFile(p, q) \/ p = IdleReq)
        BY <1>1, <2>1 DEF BackgroundRecache
    <2> QED BY <1>1, <1>h, <2>2 DEF BackgroundRecache
  <1>2. CASE StartDownloadToCache(r)
    <2>1. CASE HasStorage
        BY <1>2, <1>j, <2>1 DEF StartDownloadToCache
    <2>2. CASE ~HasStorage
        BY <1>2, <1>h, <1>i, <2>2 DEF StartDownloadToCache
    <2> QED BY <2>1, <2>2
  <1>3. CASE FinishWrite(r)
    <2>1. UNCHANGED cached \/ cached' = Put(cached, q.node, q.id, "whole")
        BY <1>3 DEF FinishWrite, Written
    <2> QED BY <1>3, <1>h, <1>i, <2>1 DEF FinishWrite, Content
  <1>4. CASE DownloadFails(r)
    <2>1. PICK p : Become(r, p) /\ SameFile(p, q)
        BY <1>4, <1>i DEF DownloadFails
    <2> QED BY <1>4, <1>h, <2>1 DEF DownloadFails
  <1>5. CASE CopyFromPeer(r)
      BY <1>5, <1>j DEF CopyFromPeer
  <1>6. CASE NoPeerHasFile(r)
    <2>1. PICK p : Become(r, p) /\ SameFile(p, q)
        BY <1>6, <1>i DEF NoPeerHasFile
    <2> QED BY <1>6, <1>h, <2>1 DEF NoPeerHasFile
  <1>7. CASE CopyFails(r)
    <2>1. PICK p : Become(r, p) /\ SameFile(p, q)
        BY <1>7, <1>i DEF CopyFails
    <2> QED BY <1>7, <1>h, <2>1 DEF CopyFails
  <1>8. CASE RenameCaching(r)
    <2>1. CASE caching[q.node][q.id] = "absent"
      <3>1. Become(r, At(q, "remove")) /\ UNCHANGED cached
          BY <1>8, <2>1 DEF RenameCaching
      <3> QED BY <1>h, <1>i, <3>1
    <2>2. CASE caching[q.node][q.id] # "absent"
      <3> DEFINE t == Renamed(q.node, q.id)
      <3>1. t \in Requests /\ \A s \in Reqs : SameStep(t[s], req[s])
          BY <1>b, <1>e, MovedType, MovedSame
      <3>2. req' = [t EXCEPT ![r] = Closed(t[r], "remove")]
          BY <1>8, <2>2, <3>1 DEF RenameCaching, Requests
      <3>3. t[r] \in ActiveReq
          BY <1>c, <3>1 DEF Requests, IdleReq, RecacheSteps, SameStep
      <3>4. SameFile(Closed(t[r], "remove"), q)
          BY <3>1, <3>3, StepFile DEF SameFile, SameStep
      <3>5. \E c \in Content : cached' = Put(cached, q.node, q.id, c)
          BY <1>8, <1>b, <1>e, <2>2 DEF RenameCaching, Files
      <3> HIDE DEF t
      <3>6. req'[r] = Closed(t[r], "remove") /\ \A s \in Reqs \ {r} : req'[s] = t[s]
          BY <3>1, <3>2 DEF Requests
      <3> QED BY <1>g, <3>1, <3>4, <3>5, <3>6
    <2> QED BY <2>1, <2>2
  <1>9. CASE RemoveCaching(r)
    <2> DEFINE t == Unlinked(q.node, q.id, "caching")
    <2>1. t \in Requests /\ \A s \in Reqs : SameStep(t[s], req[s])
        BY <1>b, <1>e, MovedType, MovedSame
    <2>2. req' = [t EXCEPT ![r] = IdleReq] /\ UNCHANGED cached
        BY <1>9 DEF RemoveCaching
    <2> HIDE DEF t
    <2>3. req'[r] = IdleReq /\ \A s \in Reqs \ {r} : req'[s] = t[s]
        BY <2>1, <2>2 DEF Requests
    <2> QED BY <1>g, <2>1, <2>2, <2>3
  <1> QED BY <1>1, <1>2, <1>3, <1>4, <1>5, <1>6, <1>7, <1>8, <1>9 DEF RecacheStep

LEMMA StopLocal ==
  ASSUME TypeInv, LocalInv, NEW n \in Nodes, StopProcess(n), UNCHANGED <<home, rows>>,
         \A m \in Nodes \ {n} : life'[m] = life[m] /\ cached'[m] = cached[m]
  PROVE  LocalInv'
  <1> SUFFICES ASSUME ~HasStorage, NEW r \in Reqs PROVE Local(r)'
      BY DEF LocalInv, Local
  <1>1. CASE req'[r] = IdleReq
      BY <1>1 DEF Local, IdleReq
  <1>2. CASE req'[r] # IdleReq
    <2>1. req'[r] = req[r] /\ req[r].node # n /\ req[r] # IdleReq
        BY <1>2 DEF StopProcess
    <2>2. Local(r) /\ req[r].node \in Nodes /\ req[r].id \in Ids
        BY <2>1 DEF LocalInv, Local, TypeInv, TypeOK, ActiveReq
    <2>3. handler'[req[r].id] = "aborted" \/ handler[req[r].id] # "aborted"
        BY <2>2 DEF StopProcess
    <2> QED BY <2>1, <2>2, <2>3 DEF Local
  <1> QED BY <1>1, <1>2

LEMMA SafeNode ==
  ASSUME TypeInv, Safe, NodeStep
  PROVE  Safe'
  <1> PICK n \in Nodes : Crash(n) \/ ReadyToTerminate(n) \/ Terminate(n)
      BY DEF NodeStep
  <1> USE DEF TypeInv, TypeOK, HomeInv, Safe
  <1>1. ASSUME StopProcess(n)
        PROVE  /\ \A i \in Ids : \/ handler'[i] = handler[i]
                                    /\ ~(home[i] = n /\ handler[i] \in Running)
                                 \/ handler'[i] = "dead" /\ handler[i] \in Running /\ home[i] = n
               /\ \A i \in Ids, w \in Routines : drain'[i][w] \in {drain[i][w], "idle"}
               /\ \A r \in Reqs : \/ req'[r] = IdleReq
                                  \/ req'[r] = req[r] /\ req[r].node # n
      BY <1>1 DEF StopProcess, Running
  <1>2. CASE Crash(n)
    <2> USE <1>2 DEF Crash, disk
    <2>1. HandlerInv' /\ UploadedInv'
        BY <1>1 DEF HandlerInv, UploadedInv, Running
    <2>2. StoredInv' /\ RowsInv'
        BY <1>1 DEF StoredInv, RowsInv, Running
    <2>3. KeptInv'
        BY <1>1 DEF KeptInv, Kept, Running
    <2>4. CountedInv'
        BY DEF CountedInv
    <2>5. LocalInv'
        BY StopLocal
    <2> QED BY <2>1, <2>2, <2>3, <2>4, <2>5
  <1>3. CASE ReadyToTerminate(n)
    <2> USE <1>3 DEF ReadyToTerminate, disk, uploads
    <2>1. HandlerInv' /\ UploadedInv' /\ StoredInv' /\ RowsInv'
        BY DEF HandlerInv, UploadedInv, StoredInv, RowsInv
    <2>2. KeptInv'
        BY DEF KeptInv, Kept
    <2>3. CountedInv'
        BY DEF CountedInv, KeptInv, Kept, HandlerInv
    <2>4. LocalInv'
      <3>1. \A m : life[m] # "gone" => life'[m] # "gone"
          OBVIOUS
      <3> QED BY <3>1 DEF LocalInv, Local
    <2> QED BY <2>1, <2>2, <2>3, <2>4
  <1>4. CASE Terminate(n)
    <2> USE <1>4 DEF Terminate
    <2>1. HandlerInv'
      <3>1. \A i \in Ids : handler'[i] \in Running =>
               handler[i] \in Running /\ home[i] \in Nodes \ {n}
          BY <1>1 DEF Running
      <3>2. \A i \in Ids : i \in acked => handler[i] = "done" /\ i \in rows
          BY DEF HandlerInv
      <3>3. \A i \in Ids : handler[i] = "done" => handler'[i] = "done"
          BY <1>1 DEF Running
      <3> QED BY <3>1, <3>2, <3>3 DEF HandlerInv
    <2>2. UploadedInv'
        BY DEF UploadedInv, NoFiles
    <2>3. StoredInv' /\ RowsInv'
        BY <1>1 DEF StoredInv, RowsInv, Running
    <2>4. KeptInv'
        BY <1>1 DEF KeptInv, Kept, Running
    <2>5. CountedInv'
        BY DEF CountedInv
    <2>6. LocalInv'
        BY StopLocal
    <2> QED BY <2>1, <2>2, <2>3, <2>4, <2>5, <2>6
  <1> QED BY <1>2, <1>3, <1>4

LEMMA SafeNext == TypeInv /\ Safe /\ [Next]_vars => Safe'
  <1> SUFFICES ASSUME TypeInv, Safe, [Next]_vars PROVE Safe'
      OBVIOUS
  <1>1. CASE UploadStep
      BY <1>1, SafeUpload
  <1>2. CASE (\E i \in Ids : Age(i)) \/ UNCHANGED vars
    <2>1. ReqFrame /\ UNCHANGED <<cached, req>>
        BY <1>2 DEF Age, vars, disk, uploads, ReqFrame
    <2>2. LocalInv'
        BY <2>1 DEF Safe, LocalInv, Local, ReqFrame
    <2> QED BY <2>1, <2>2, SafeReq
  <1>3. ASSUME NEW i \in Ids, NEW w \in Routines, WritebackStep(i, w) PROVE Safe'
      BY <1>3, SafeWriteback
  <1>4. CASE PurgeStep
      BY <1>4, SafePurge
  <1>5. ASSUME NEW r \in Reqs, DownloadStep(r) \/ RecacheStep(r) PROVE Safe'
      BY <1>5, SafeDownload, SafeRecache
  <1>6. CASE NodeStep
      BY <1>6, SafeNode
  <1> QED BY <1>1, <1>2, <1>3, <1>4, <1>5, <1>6 DEF Next

(***************************************************************************)
(* Content whose upload was answered with success stays recoverable, for   *)
(* any number of nodes, files, requests and faults, with or without a      *)
(* PermanentStorage, through aborts, failed writebacks, purges, recaches,  *)
(* crashes and scale-ins.                                                  *)
(***************************************************************************)
THEOREM AcknowledgedIsDurable == Spec => []AckedDurable
  <1>1. TypeInv /\ Safe => AckedDurable
    <2> SUFFICES ASSUME TypeInv, Safe, NEW i \in acked \ late
                 PROVE  Recoverable(i) \/ (~HasStorage /\ life[home[i]] = "gone")
        BY DEF AckedDurable
    <2>1. i \in Ids /\ handler[i] = "done" /\ i \in rows /\ home[i] \in Nodes
        BY DEF TypeInv, TypeOK, HomeInv, Safe, HandlerInv
    <2>2. CASE life[home[i]] # "gone"
      <3>1. Kept(i)
          BY <2>1, <2>2 DEF Safe, KeptInv
      <3> QED BY <2>1, <3>1 DEF Kept, Recoverable
    <2>3. CASE life[home[i]] = "gone" /\ HasStorage
        BY <2>3 DEF Safe, CountedInv, Recoverable
    <2> QED BY <2>2, <2>3 DEF TypeInv, CacheAssumption
  <1> QED BY <1>1, TypeInit, TypeNext, SafeInit, SafeNext, PTL DEF Spec

(***************************************************************************)
(* With a PermanentStorage, a .uploaded file disappears only when it is    *)
(* stored, when its own handler aborts, or with a node that had not        *)
(* promised it before it was counted empty.                                *)
(***************************************************************************)
THEOREM UploadedNeverDropped == Spec => UploadedLeavesSafely
  <1> DEFINE Leaves ==
        \A n \in Nodes, i \in Ids \ EmptyIds :
          HasStorage /\ uploaded[n][i] # "absent" /\ uploaded'[n][i] = "absent" =>
            \/ i \in storage'
            \/ handler[i] # "aborted" /\ handler'[i] = "aborted"
            \/ life'[n] = "gone" /\ i \notin acked \ late
  <1>1. TypeInv /\ Safe /\ [Next]_vars => [Leaves]_vars
    <2> SUFFICES ASSUME TypeInv, Safe, Next, NEW n \in Nodes, NEW i \in Ids \ EmptyIds,
                        HasStorage, uploaded[n][i] # "absent", uploaded'[n][i] = "absent"
                 PROVE  \/ i \in storage'
                        \/ handler[i] # "aborted" /\ handler'[i] = "aborted"
                        \/ life'[n] = "gone" /\ i \notin acked \ late
        OBVIOUS
    <2> USE DEF TypeInv, TypeOK
    <2>1. UNCHANGED uploaded => FALSE
        OBVIOUS
    <2>2. home[i] = n
        BY DEF Safe, UploadedInv
    <2>3. CASE UploadStep
      <3>1. PICK j \in Ids : \/ \E m \in Nodes : BeginUpload(j, m)
                             \/ FinishReceive(j) \/ FailReceive(j) \/ Abort(j)
                             \/ Commit(j) \/ ReturnEarly(j) \/ Respond(j)
          BY <2>3 DEF UploadStep
      <3>2. FinishReceive(j) \/ Abort(j)
          BY <2>1, <3>1 DEF BeginUpload, FailReceive, Commit, ReturnEarly, Respond, disk
      <3>a. home[j] \in Nodes
          BY <3>2 DEF FinishReceive, Abort, HomeInv
      <3>b. \A c \in Content :
              Put(uploaded, home[j], j, c)[n][i]
                = IF n = home[j] /\ i = j THEN c ELSE uploaded[n][i]
          BY <3>a DEF Put
      <3>3. ASSUME FinishReceive(j) PROVE FALSE
        <4>1. uploaded' = Put(uploaded, home[j], j, "whole") /\ uploaded \in Files
            BY <3>3 DEF FinishReceive, Files
        <4> QED BY <3>a, <4>1, <3>b DEF Content
      <3>4. Abort(j)
          BY <3>2, <3>3
      <3>5. j = i
        <4>1. uploaded' = Put(uploaded, home[j], j, "absent") /\ uploaded \in Files
            BY <2>1, <3>4 DEF Abort, Files
        <4> QED BY <3>a, <4>1, <3>b DEF Content
      <3> QED BY <3>4, <3>5 DEF Abort
    <2>4. ASSUME NEW j \in Ids, NEW w \in Routines, WritebackStep(j, w) PROVE i \in storage'
      <3>1. RenameUploaded(j, w)
          BY <2>1, <2>4 DEF WritebackStep, OpenWriteback, Store, StoreFails, disk
      <3>2. j = i
        <4>1. /\ uploaded' = Put(uploaded, home[j], j, "absent") /\ uploaded \in Files
              /\ home[j] \in Nodes
            BY <2>1, <3>1 DEF RenameUploaded, HomeInv, Files
        <4>2. uploaded'[n][i] = IF n = home[j] /\ i = j THEN "absent" ELSE uploaded[n][i]
            BY <4>1 DEF Put
        <4> QED BY <4>2
      <3> QED BY <3>1, <3>2 DEF RenameUploaded, Safe, StoredInv
    <2>5. CASE NodeStep
      <3>1. Terminate(n)
          BY <2>1, <2>5 DEF NodeStep, Crash, ReadyToTerminate, Terminate, disk
      <3> QED BY <2>2, <3>1 DEF Terminate, Safe, CountedInv
    <2>6. ~PurgeStep
        BY <2>1 DEF PurgeStep, PurgeCached, EmptyCached, PurgeGarbage
    <2>7. ASSUME NEW j \in Ids PROVE ~Age(j)
        BY <2>1 DEF Age, disk
    <2>8. ASSUME NEW r \in Reqs PROVE ~DownloadStep(r)
        BY <2>1 DEF DownloadStep, StartDownload, LookUploaded, LookCached, AskPeer,
           PeerError, LookStorage, StorageError, Stall, FinishDownload, OnlyReq, disk
    <2>9. ASSUME NEW r \in Reqs PROVE ~RecacheStep(r)
        BY <2>1 DEF RecacheStep, BackgroundRecache, StartDownloadToCache, FinishWrite,
           DownloadFails, CopyFromPeer, NoPeerHasFile, CopyFails, RenameCaching,
           RemoveCaching, RecacheVars
    <2> QED BY <2>3, <2>4, <2>5, <2>6, <2>7, <2>8, <2>9 DEF Next
  <1> QED BY <1>1, TypeInit, TypeNext, SafeInit, SafeNext, PTL DEF Spec, UploadedLeavesSafely

--------------------------------------------------------------------------------
(* Downloads *)

(***************************************************************************)
(* What is wrong with content that a download looks for in vain.           *)
(***************************************************************************)
Lost(i) == handler[i] = "aborted" \/ (life[home[i]] = "gone" /\ i \notin acked \ late)

(* Content that only its home has, in the .uploaded file. *)
OnlyHome(i) == i \notin storage /\ handler[i] # "aborted" /\ life[home[i]] # "gone"

(***************************************************************************)
(* The nodes whose .uploaded file the second pass of a request has missed. *)
(***************************************************************************)
Searching == {"lookUploaded", "lookCached", "askPeer", "lookStorage", "stall"}
Missed(q) == ({q.node} \cup q.asked) \ (IF q.pc = "lookUploaded" THEN {q.at} ELSE {})

(***************************************************************************)
(* A request whose second pass met no fault has not missed the home of     *)
(* content that is nowhere else, and asks PermanentStorage only when it    *)
(* has asked everybody; so it comes to the third pass only if the content  *)
(* is lost.                                                                *)
(***************************************************************************)
SearchOk(r) ==
  LET q == req[r] IN
    q.pc \in Searching =>
      /\ q.id \in rows \ EmptyIds
      /\ q.pc = "stall" => HasStorage
      /\ HasStorage /\ PeerEnabled /\ q.clean =>
           /\ q.pc = "stall" => q.pass = 3
           /\ q.pass = 3 => Lost(q.id)
           /\ q.pass = 2 => /\ OnlyHome(q.id) => home[q.id] \notin Missed(q)
                            /\ q.pc = "lookStorage" => Peers(q.node) \subseteq q.asked
SearchInv == \A r \in Reqs : SearchOk(r)

(***************************************************************************)
(* Without peers, only content of PermanentStorage is recached.            *)
(***************************************************************************)
RecacheOk(r) ==
  LET q == req[r] IN
    q.pc # "idle" =>
      /\ q.at = q.node
      /\ q.pc \notin {"p2p", "copy"}
      /\ q.pc \in RecacheSteps \cup {"openRemote"} => q.id \in storage
RecacheInv ==
  /\ \A r \in Reqs : RecacheOk(r)
  /\ \A n \in Nodes, i \in Ids : caching[n][i] # "absent" => i \in storage
  /\ CachedIsStored

--------------------------------------------------------------------------------
(***************************************************************************)
(* What no step of any process takes back.                                 *)
(***************************************************************************)
Grows ==
  /\ storage \subseteq storage'
  /\ rows \subseteq rows'
  /\ \A i \in rows : /\ home'[i] = home[i]
                     /\ OnlyHome(i)' => OnlyHome(i)
                     /\ Lost(i) => Lost(i)'
  /\ \A n \in Nodes : Peers(n)' \subseteq Peers(n)

LEMMA GrowsFrame ==
  ASSUME UNCHANGED <<storage, rows, home, handler, life, acked, late>>
  PROVE  Grows
  BY DEF Grows, OnlyHome, Lost, Peers

LEMMA GrowsUpload ==
  ASSUME TypeInv, Safe, UploadStep
  PROVE  Grows
  <1> PICK i \in Ids : \/ \E n \in Nodes : BeginUpload(i, n)
                       \/ FinishReceive(i) \/ FailReceive(i) \/ Abort(i)
                       \/ Commit(i) \/ ReturnEarly(i) \/ Respond(i)
      BY DEF UploadStep
  <1>1. UNCHANGED <<storage, life>> /\ rows \subseteq rows' /\ rows \subseteq Ids
      BY DEF BeginUpload, FinishReceive, FailReceive, Abort, Commit, ReturnEarly, Respond,
         TypeInv, TypeOK
  <1>2. \A j \in rows : home'[j] = home[j]
      BY DEF BeginUpload, FinishReceive, FailReceive, Abort, Commit, ReturnEarly, Respond,
         Safe, RowsInv, TypeInv, TypeOK
  <1>3. \A j \in rows : handler[j] = "aborted" => handler'[j] = "aborted"
      BY DEF BeginUpload, FinishReceive, FailReceive, Abort, Commit, ReturnEarly, Respond,
         TypeInv, TypeOK
  <1>4. \A j \in rows : life[home[j]] = "gone" /\ j \notin acked \ late => j \notin acked' \ late'
    <2>1. CASE Respond(i)
      <3>1. handler[i] \in Running
          BY <2>1 DEF Respond, Running
      <3>2. life[home[i]] # "gone" /\ i \notin acked
          BY <2>1, <3>1 DEF Safe, HandlerInv, Respond
      <3> QED BY <2>1, <3>2 DEF Respond
    <2>2. CASE ~Respond(i)
        BY <2>2 DEF BeginUpload, FinishReceive, FailReceive, Abort, Commit, ReturnEarly
    <2> QED BY <2>1, <2>2
  <1> QED BY <1>1, <1>2, <1>3, <1>4 DEF Grows, OnlyHome, Lost, Peers

LEMMA GrowsNode ==
  ASSUME TypeInv, Safe, NodeStep
  PROVE  Grows
  <1> PICK n \in Nodes : Crash(n) \/ ReadyToTerminate(n) \/ Terminate(n)
      BY DEF NodeStep
  <1>1. UNCHANGED <<storage, rows, home, acked, late>> /\ rows \subseteq Ids
      BY DEF Crash, ReadyToTerminate, Terminate, uploads, TypeInv, TypeOK
  <1>2. \A i \in Ids : handler[i] = "aborted" <=> handler'[i] = "aborted"
      BY DEF Crash, ReadyToTerminate, Terminate, uploads, StopProcess
  <1>3. \A m \in Nodes : life[m] = "gone" => life'[m] = "gone"
      BY DEF Crash, ReadyToTerminate, Terminate, TypeInv, TypeOK
  <1>4. \A i \in rows : home[i] \in Nodes
      BY <1>1 DEF Safe, RowsInv, TypeInv, HomeInv
  <1> QED BY <1>1, <1>2, <1>3, <1>4 DEF Grows, OnlyHome, Lost, Peers

LEMMA GrowsNext ==
  ASSUME TypeInv, Safe, [Next]_vars
  PROVE  Grows
  <1>1. CASE (\E i \in Ids : Age(i)) \/ UNCHANGED vars
      BY <1>1, GrowsFrame DEF Age, vars, uploads
  <1>2. ASSUME NEW i \in Ids, NEW w \in Routines, WritebackStep(i, w) PROVE Grows
    <2>1. storage \subseteq storage' /\ UNCHANGED <<uploads, life>>
        BY <1>2 DEF WritebackStep, OpenWriteback, Store, StoreFails, RenameUploaded
    <2> QED BY <2>1 DEF uploads, Grows, OnlyHome, Lost, Peers
  <1>3. CASE PurgeStep
      BY <1>3, GrowsFrame DEF PurgeStep, PurgeCached, EmptyCached, PurgeGarbage, uploads
  <1>4. ASSUME NEW r \in Reqs, DownloadStep(r) PROVE Grows
      BY <1>4, GrowsFrame DEF DownloadStep, StartDownload, LookUploaded, LookCached, AskPeer,
         PeerError, LookStorage, StorageError, Stall, FinishDownload, OnlyReq, uploads
  <1>5. ASSUME NEW r \in Reqs, RecacheStep(r) PROVE Grows
      BY <1>5, GrowsFrame DEF RecacheStep, BackgroundRecache, StartDownloadToCache, FinishWrite,
         DownloadFails, CopyFromPeer, NoPeerHasFile, CopyFails, RenameCaching,
         RemoveCaching, RecacheVars, uploads
  <1> QED BY <1>1, <1>2, <1>3, <1>4, <1>5, GrowsUpload, GrowsNode DEF Next

--------------------------------------------------------------------------------
(* Where a step leaves the requests that do not take it *)

SameLook(p, q) ==
  SameStep(p, q) /\ p.asked = q.asked /\ p.pass = q.pass /\ p.clean = q.clean

LEMMA MovedLook ==
  ASSUME req \in Requests, NEW n \in Nodes, NEW i \in Ids,
         NEW name \in {"caching", "cached"}, NEW r \in Reqs
  PROVE  /\ SameLook(Unlinked(n, i, name)[r], req[r])
         /\ SameLook(Renamed(n, i)[r], req[r])
         /\ SameLook(Truncated(n, i, name)[r], req[r])
  <1>1. CASE req[r].node # n
      BY <1>1 DEF Unlinked, Renamed, Truncated, SameLook, SameStep
  <1>2. CASE req[r].node = n
    <2>1. req[r] \in ActiveReq
        BY <1>2, NoNodeAssumption DEF Requests, IdleReq
    <2> QED BY <2>1 DEF Unlinked, Renamed, Truncated, ActiveReq, SameLook, SameStep
  <1> QED BY <1>1, <1>2

(* The steps of everybody but the requests themselves. *)
LEMMA OtherMoves ==
  ASSUME TypeInv,
         \/ UploadStep \/ (\E i \in Ids : Age(i))
         \/ (\E i \in Ids, w \in Routines : WritebackStep(i, w))
         \/ PurgeStep \/ NodeStep \/ UNCHANGED vars,
         NEW r \in Reqs
  PROVE  SameLook(req'[r], req[r]) \/ req'[r] = IdleReq
  <1>0. req \in Requests
      BY DEF TypeInv, TypeOK, Requests
  <1>1. CASE UNCHANGED req
      BY <1>1 DEF SameLook, SameStep
  <1>2. CASE UploadStep \/ (\E i \in Ids : Age(i)) \/ UNCHANGED vars
      BY <1>1, <1>2 DEF UploadStep, BeginUpload, FinishReceive, FailReceive, Abort, Commit,
         ReturnEarly, Respond, Age, vars
  <1>3. ASSUME NEW i \in Ids, NEW w \in Routines, WritebackStep(i, w)
        PROVE  SameLook(req'[r], req[r])
    <2>1. UNCHANGED req \/ (req' = Unlinked(home[i], i, "cached") /\ drain[i][w] = "stored")
        BY <1>3 DEF WritebackStep, OpenWriteback, Store, StoreFails, RenameUploaded
    <2>2. drain[i][w] = "stored" => home[i] \in Nodes
        BY DEF TypeInv, HomeInv
    <2> QED BY <1>0, <2>1, <2>2, MovedLook DEF SameLook, SameStep
  <1>4. CASE PurgeStep
    <2>1. PICK n \in Nodes, i \in Ids :
            UNCHANGED req \/ req' = Unlinked(n, i, "cached") \/ req' = Truncated(n, i, "cached")
        BY <1>4 DEF PurgeStep, PurgeCached, EmptyCached, PurgeGarbage
    <2> QED BY <1>0, <2>1, MovedLook DEF SameLook, SameStep
  <1>5. CASE NodeStep
    <2>1. req'[r] = req[r] \/ req'[r] = IdleReq
        BY <1>5 DEF NodeStep, Crash, ReadyToTerminate, Terminate, StopProcess
    <2> QED BY <2>1 DEF SameLook, SameStep
  <1> QED BY <1>2, <1>3, <1>4, <1>5

(* The steps of a recache: it does not search, and nobody else moves. *)
LEMMA RecacheMoves ==
  ASSUME TypeInv, NEW r \in Reqs, RecacheStep(r)
  PROVE  /\ \A s \in Reqs \ {r} : SameLook(req'[s], req[s])
         /\ req[r] \in ActiveReq /\ req[r].pc \in RecacheSteps \cup {"openRemote"}
         /\ \/ req'[r] = IdleReq
            \/ /\ req'[r].pc \in RecacheSteps
               /\ SameFile(req'[r], req[r]) /\ req'[r].at = req[r].at
               /\ req'[r].pc \in {"p2p", "copy"} => PeerEnabled \/ req[r].pc = "p2p"
  <1> DEFINE q == req[r]
             Moves(p) == /\ p.pc \in RecacheSteps /\ SameFile(p, q) /\ p.at = q.at
                         /\ p.pc \in {"p2p", "copy"} => PeerEnabled \/ q.pc = "p2p"
  <1>a. req \in Requests
      BY DEF TypeInv, TypeOK, Requests
  <1>b. q.pc \in RecacheSteps \cup {"openRemote"}
      BY DEF RecacheStep, BackgroundRecache, StartDownloadToCache, FinishWrite,
         DownloadFails, CopyFromPeer, NoPeerHasFile, CopyFails, RenameCaching,
         RemoveCaching, RecacheSteps
  <1>c. q \in ActiveReq
      BY <1>a, <1>b, ActiveType DEF RecacheSteps
  <1>d. q.node \in Nodes /\ q.id \in Ids
      BY <1>c DEF ActiveReq
  <1>e. ASSUME NEW p, Become(r, p)
        PROVE  req'[r] = p /\ \A s \in Reqs \ {r} : SameLook(req'[s], req[s])
      BY <1>a, <1>e DEF Become, Requests, SameLook, SameStep
  <1>f. ASSUME NEW t \in Requests, \A s \in Reqs : SameLook(t[s], req[s]),
               NEW p, req' = [t EXCEPT ![r] = p]
        PROVE  req'[r] = p /\ \A s \in Reqs \ {r} : SameLook(req'[s], req[s])
      BY <1>f DEF Requests
  <1>g. \A pc \in RecacheSteps : /\ pc \notin {"p2p", "copy"} => Moves(At(q, pc)) /\ Moves(Closed(q, pc))
                                 /\ PeerEnabled => Moves(At(q, pc)) /\ Moves(Closed(q, pc))
      BY <1>c DEF At, Closed, ActiveReq, SameFile
  <1>h. Moves(NextAttempt(q))
    <2>1. CASE HasStorage /\ q.tries > 0
      <3> DEFINE c == Closed(q, "create")
      <3>1. c \in ActiveReq /\ c.pc = "create" /\ SameFile(c, q) /\ c.at = q.at
          BY <1>c, StepType DEF RecacheSteps, Closed, ActiveReq, SameFile
      <3> HIDE DEF c
      <3>2. Moves([c EXCEPT !.pass = 2, !.tries = @ - 1])
          BY <3>1 DEF ActiveReq, SameFile, RecacheSteps
      <3> QED BY <2>1, <3>2 DEF NextAttempt, c
    <2>2. CASE ~(HasStorage /\ q.tries > 0)
        BY <1>g, <2>2 DEF NextAttempt, RecacheSteps
    <2> QED BY <2>1, <2>2
  <1>i. ASSUME NEW pc \in {"download", "copy"}, NEW c, CreateCaching(r, pc, c),
               pc = "copy" => q.pc = "p2p"
        PROVE  /\ \A s \in Reqs \ {r} : SameLook(req'[s], req[s])
               /\ Moves(req'[r])
    <2>1. PICK t, p : /\ t \in Requests /\ t = Truncated(q.node, q.id, "caching")
                      /\ p = [q EXCEPT !.pc = pc, !.file = "caching", !.sole = TRUE, !.src = c]
        BY <1>a, <1>d, MovedType
    <2>2. Moves(p)
        BY <1>c, <1>i, <2>1 DEF ActiveReq, SameFile, RecacheSteps
    <2>3. req' = [t EXCEPT ![r] = p] /\ \A s \in Reqs : SameLook(t[s], req[s])
        BY <1>a, <1>d, <1>i, <2>1, MovedLook DEF CreateCaching
    <2> QED BY <1>f, <2>1, <2>2, <2>3
  <1> HIDE DEF Moves
  <1>j. ASSUME NEW p, Become(r, p), Moves(p) \/ p = IdleReq
        PROVE  /\ \A s \in Reqs \ {r} : SameLook(req'[s], req[s])
               /\ Moves(req'[r]) \/ req'[r] = IdleReq
      BY <1>e, <1>j
  <1>1. CASE BackgroundRecache(r)
    <2>1. PICK p : p = [q EXCEPT !.pc = "create", !.pass = 1, !.tries = Tries]
        OBVIOUS
    <2>2. Moves(p)
        BY <1>c, <2>1 DEF ActiveReq, SameFile, RecacheSteps, Moves
    <2>3. Become(r, p) \/ Become(r, IdleReq)
        BY <1>1, <2>1 DEF BackgroundRecache
    <2> QED BY <1>b, <1>c, <1>j, <2>2, <2>3 DEF Moves
  <1>2. CASE StartDownloadToCache(r)
    <2>1. CASE HasStorage
        BY <1>2, <1>b, <1>c, <1>i, <2>1 DEF StartDownloadToCache, Moves
    <2>2. CASE ~HasStorage
      <3>1. PICK pc \in {"p2p", "remove"} :
              Become(r, At(q, pc)) /\ (pc = "p2p" => PeerEnabled)
          BY <1>2, <2>2 DEF StartDownloadToCache
      <3>2. Moves(At(q, pc))
          BY <1>g, <3>1 DEF RecacheSteps
      <3> QED BY <1>b, <1>c, <1>j, <3>1, <3>2 DEF Moves
    <2> QED BY <2>1, <2>2
  <1>3. CASE FinishWrite(r)
    <2>1. Moves(Closed(q, "rename")) /\ Become(r, Closed(q, "rename"))
        BY <1>3, <1>g DEF RecacheSteps, FinishWrite
    <2> QED BY <1>b, <1>c, <1>j, <2>1 DEF Moves
  <1>4. CASE DownloadFails(r)
    <2>1. PICK p : Become(r, p) /\ \/ p = NextAttempt(q)
                                   \/ p = Closed(q, "p2p") /\ PeerEnabled
        BY <1>4 DEF DownloadFails
    <2>2. Moves(p)
        BY <1>g, <1>h, <2>1 DEF RecacheSteps
    <2> QED BY <1>b, <1>c, <1>j, <2>1, <2>2 DEF Moves
  <1>5. CASE CopyFromPeer(r)
      BY <1>5, <1>b, <1>c, <1>i DEF CopyFromPeer, Moves
  <1>6. CASE NoPeerHasFile(r)
    <2>1. PICK pc \in {"rename", "remove"} : Become(r, At(q, pc))
        BY <1>6 DEF NoPeerHasFile
    <2>2. Moves(At(q, pc))
        BY <1>g, <2>1 DEF RecacheSteps
    <2> QED BY <1>b, <1>c, <1>j, <2>1, <2>2 DEF Moves
  <1>7. CASE CopyFails(r)
      BY <1>7, <1>b, <1>c, <1>h, <1>j DEF CopyFails, Moves
  <1>8. CASE RenameCaching(r)
    <2>1. CASE caching[q.node][q.id] = "absent"
      <3>1. Moves(At(q, "remove")) /\ Become(r, At(q, "remove"))
          BY <1>8, <1>g, <2>1 DEF RecacheSteps, RenameCaching
      <3> QED BY <1>b, <1>c, <1>j, <3>1 DEF Moves
    <2>2. CASE caching[q.node][q.id] # "absent"
      <3>1. PICK t \in Requests : t = Renamed(q.node, q.id)
          BY <1>a, <1>d, MovedType
      <3>2. \A s \in Reqs : SameLook(t[s], req[s])
          BY <1>a, <1>d, <3>1, MovedLook
      <3>3. req' = [t EXCEPT ![r] = Closed(t[r], "remove")]
          BY <1>8, <2>2, <3>1 DEF RenameCaching
      <3>4. t[r] \in ActiveReq
          BY <1>b, <3>2 DEF Requests, IdleReq, RecacheSteps, SameLook, SameStep
      <3>5. Moves(Closed(t[r], "remove"))
          BY <3>2, <3>4 DEF Closed, ActiveReq, SameFile, SameLook, SameStep, Moves, RecacheSteps
      <3> QED BY <1>b, <1>c, <1>f, <3>2, <3>3, <3>5 DEF Moves
    <2> QED BY <2>1, <2>2
  <1>9. CASE RemoveCaching(r)
    <2>1. PICK t \in Requests : t = Unlinked(q.node, q.id, "caching")
        BY <1>a, <1>d, MovedType
    <2>2. \A s \in Reqs : SameLook(t[s], req[s])
        BY <1>a, <1>d, <2>1, MovedLook
    <2>3. req' = [t EXCEPT ![r] = IdleReq]
        BY <1>9, <2>1 DEF RemoveCaching
    <2> QED BY <1>b, <1>c, <1>f, <2>2, <2>3
  <1> QED BY <1>1, <1>2, <1>3, <1>4, <1>5, <1>6, <1>7, <1>8, <1>9 DEF RecacheStep
--------------------------------------------------------------------------------
(* Searching *)

LEMMA SearchSame ==
  ASSUME TypeInv, Grows, NEW r \in Reqs, SearchOk(r),
         SameLook(req'[r], req[r]) \/ req'[r].pc \notin Searching
  PROVE  SearchOk(r)'
  <1> SUFFICES ASSUME req'[r].pc \in Searching PROVE SearchOk(r)'
      BY DEF SearchOk
  <1>1. PICK p, q : p = req'[r] /\ q = req[r]
      OBVIOUS
  <1>2. SameLook(p, q) /\ q.pc \in Searching
      BY <1>1 DEF SameLook, SameStep
  <1>3. q.id \in rows \ EmptyIds
      BY <1>1, <1>2 DEF SearchOk
  <1>4. q.node \in Nodes
      BY <1>1, <1>2, ActiveType DEF Searching, ActiveReq, TypeInv, TypeOK, Requests
  <1>5. Missed(p) = Missed(q)
      BY <1>2 DEF Missed, SameLook, SameStep
  <1>6. p.id \in rows' \ EmptyIds /\ (p.pc = "stall" => HasStorage)
      BY <1>1, <1>2, <1>3 DEF Grows, SameLook, SameStep, SearchOk
  <1>7. ASSUME HasStorage, PeerEnabled, p.clean
        PROVE  /\ p.pc = "stall" => p.pass = 3
               /\ p.pass = 3 => Lost(p.id)'
               /\ p.pass = 2 => /\ OnlyHome(p.id)' => home'[p.id] \notin Missed(p)
                                /\ p.pc = "lookStorage" => Peers(p.node)' \subseteq p.asked
    <2>1. /\ q.pc = "stall" => q.pass = 3
          /\ q.pass = 3 => Lost(q.id)
          /\ q.pass = 2 => /\ OnlyHome(q.id) => home[q.id] \notin Missed(q)
                           /\ q.pc = "lookStorage" => Peers(q.node) \subseteq q.asked
        BY <1>1, <1>2, <1>7 DEF SearchOk, SameLook
    <2>2. /\ home'[q.id] = home[q.id]
          /\ OnlyHome(q.id)' => OnlyHome(q.id)
          /\ Lost(q.id) => Lost(q.id)'
          /\ Peers(q.node)' \subseteq Peers(q.node)
        BY <1>3, <1>4 DEF Grows
    <2> QED BY <1>2, <1>5, <2>1, <2>2 DEF SameLook, SameStep
  <1> QED BY <1>1, <1>6, <1>7 DEF SearchOk

(***************************************************************************)
(* A call of More that found nothing.  From the second one, the content is *)
(* lost.                                                                   *)
(***************************************************************************)
LEMMA SearchNext ==
  ASSUME TypeInv, Safe, Grows, NEW r \in Reqs, SearchOk(r), req[r] \in ActiveReq,
         req[r].pc = "lookStorage", req[r].id \notin storage \/ ~req'[r].clean,
         req'[r] = NextPass([req[r] EXCEPT !.clean = req'[r].clean]),
         req'[r].clean => req[r].clean,
         UNCHANGED <<storage, rows, home, handler, life, acked, late>>
  PROVE  SearchOk(r)'
  <1>1. PICK p, q : p = req'[r] /\ q = req[r]
      OBVIOUS
  <1>2. q.id \in rows \ EmptyIds /\ q.id \in Ids /\ q.node \in Nodes
      BY <1>1 DEF SearchOk, Searching, ActiveReq
  <1>3. \/ p.pc = "failed"
        \/ /\ p.pc = "lookUploaded" /\ p.pass = 2 /\ p.at = q.node /\ p.asked = {}
           /\ p.id = q.id /\ p.node = q.node
        \/ /\ p.pc = "stall" /\ p.pass = 3 /\ p.id = q.id /\ HasStorage
           /\ q.pass # 1 \/ ~PeerEnabled
    <2>1. PICK z : z = [q EXCEPT !.clean = p.clean]
        OBVIOUS
    <2>2. /\ z.pc = q.pc /\ z.id = q.id /\ z.node = q.node /\ z.pass = q.pass
          /\ p = NextPass(z) /\ z \in [pc : {z.pc}, id : {z.id}, node : {z.node}, at : {z.at},
               asked : {z.asked}, pass : {z.pass}, clean : {z.clean}, src : {z.src},
               file : {z.file}, sole : {z.sole}, tries : {z.tries}]
        BY <1>1, <2>1 DEF ActiveReq
    <2> QED BY <2>2 DEF NextPass
  <1>4. ASSUME HasStorage, PeerEnabled, p.clean, p.pc = "stall" PROVE Lost(q.id)'
    <2>1. q.clean /\ q.pass # 1 /\ q.id \notin storage /\ q.pc = "lookStorage"
        BY <1>1, <1>3, <1>4
    <2>2. q.pass \in {1, 2, 3} /\ q.pc \in Searching
        BY <1>1 DEF ActiveReq, Searching
    <2>3. CASE q.pass = 3
        BY <1>1, <1>2, <1>4, <2>1, <2>2, <2>3 DEF SearchOk, Grows
    <2>4. CASE q.pass = 2
      <3>1. /\ OnlyHome(q.id) => home[q.id] \notin Missed(q)
            /\ Peers(q.node) \subseteq q.asked
          BY <1>1, <1>4, <2>1, <2>2, <2>4 DEF SearchOk
      <3>2. Missed(q) = {q.node} \cup q.asked
          BY <2>1 DEF Missed
      <3>3. home[q.id] \in Nodes
          BY <1>2 DEF Safe, RowsInv, TypeInv, HomeInv
      <3>4. ~OnlyHome(q.id)
          BY <3>1, <3>2, <3>3 DEF Peers, OnlyHome
      <3>5. Lost(q.id)
        <4>1. CASE handler[q.id] = "aborted"
            BY <4>1 DEF Lost
        <4>2. CASE life[home[q.id]] = "gone"
          <5>1. q.id \in acked \ late => q.id \in storage \cup EmptyIds
              BY <1>4, <4>2 DEF Safe, CountedInv
          <5> QED BY <1>2, <2>1, <4>2, <5>1 DEF Lost
        <4> QED BY <2>1, <3>4, <4>1, <4>2 DEF OnlyHome
      <3> QED BY <1>2, <3>5 DEF Grows
    <2> QED BY <2>1, <2>2, <2>3, <2>4
  <1>5. p.pc = "lookUploaded" => Missed(p) = {}
      BY <1>3 DEF Missed
  <1>6. p.pc \in Searching =>
          /\ p.id \in rows' \ EmptyIds
          /\ (p.pc = "lookUploaded" /\ p.pass = 2) \/ (p.pc = "stall" /\ p.pass = 3)
    <2>1. rows' = rows
        OBVIOUS
    <2> QED BY <1>2, <1>3, <2>1 DEF Searching
  <1> QED BY <1>1, <1>3, <1>4, <1>5, <1>6 DEF SearchOk

LEMMA SearchDownload ==
  ASSUME TypeInv, Safe, Grows, NEW r \in Reqs, DownloadStep(r), SearchOk(r)
  PROVE  SearchOk(r)'
  <1> DEFINE q == req[r]
  <1>a. req \in Requests
      BY DEF TypeInv, TypeOK, Requests
  <1>b. UNCHANGED <<storage, rows, home, handler, life, acked, late>>
      BY DEF DownloadStep, StartDownload, LookUploaded, LookCached, AskPeer, PeerError,
         LookStorage, StorageError, Stall, FinishDownload, OnlyReq, uploads
  <1>c. q.pc # "idle" => q \in ActiveReq
      BY <1>a, ActiveType
  <1>d. \A p : Become(r, p) => req'[r] = p
      BY <1>a DEF Become, Requests
  <1>e. rows' = rows /\ home' = home /\ rows \subseteq Ids
      BY <1>b DEF TypeInv, TypeOK
  <1>f. ASSUME NEW p, req'[r] = p, q.pc \in Searching, p.id = q.id, p.node = q.node,
               p.clean => q.clean, p.pass = q.pass, p.pc \in Searching,
               p.pc = "stall" => q.pc = "stall",
               HasStorage /\ PeerEnabled /\ p.clean /\ p.pass = 2 =>
                 /\ OnlyHome(q.id) => home[q.id] \notin Missed(p)
                 /\ p.pc = "lookStorage" => Peers(q.node) \subseteq p.asked
        PROVE  SearchOk(r)'
    <2>1. PICK i, n : i = q.id /\ n = q.node
        OBVIOUS
    <2>2. i \in rows \ EmptyIds /\ n \in Nodes /\ (q.pc = "stall" => HasStorage)
        BY <1>c, <1>f, <2>1 DEF SearchOk, Searching, ActiveReq
    <2>3. OnlyHome(i)' => OnlyHome(i)
        BY <2>2 DEF Grows
    <2>4. Lost(i) => Lost(i)'
        BY <2>2 DEF Grows
    <2>5. Peers(n)' \subseteq Peers(n)
        BY <2>2 DEF Grows
    <2>6. ASSUME HasStorage, PeerEnabled, p.clean
          PROVE  /\ p.pc = "stall" => p.pass = 3
                 /\ p.pass = 3 => Lost(i)'
                 /\ p.pass = 2 => /\ OnlyHome(i)' => home'[i] \notin Missed(p)
                                  /\ p.pc = "lookStorage" => Peers(n)' \subseteq p.asked
      <3>1. (q.pc = "stall" => q.pass = 3) /\ (q.pass = 3 => Lost(q.id))
          BY <1>f, <2>6 DEF SearchOk
      <3> QED BY <1>e, <1>f, <2>1, <2>3, <2>4, <2>5, <2>6, <3>1
    <2> QED BY <1>e, <1>f, <2>1, <2>2, <2>6 DEF SearchOk
  <1>g. ASSUME HasStorage, PeerEnabled, q.clean, q.pass = 2, q.pc \in Searching, OnlyHome(q.id)
        PROVE  /\ home[q.id] \notin Missed(q) /\ home[q.id] \in Nodes
               /\ uploaded[home[q.id]][q.id] # "absent"
    <2>1. home[q.id] \notin Missed(q) /\ q.id \in rows \ EmptyIds
        BY <1>g DEF SearchOk
    <2>2. handler[q.id] \notin {"new", "aborted"} /\ life[home[q.id]] # "gone"
        BY <1>g, <2>1 DEF OnlyHome, Safe, RowsInv
    <2>3. Kept(q.id) /\ home[q.id] \in Nodes
        BY <1>e, <2>1, <2>2 DEF Safe, KeptInv, TypeInv, HomeInv
    <2> QED BY <1>g, <2>1, <2>3 DEF Kept, OnlyHome
  <1>1. ASSUME NEW i \in Ids, NEW n \in Nodes, StartDownload(r, i, n) PROVE SearchOk(r)'
    <2>1. req'[r] = FirstLook(i, n) /\ i \in rows \ EmptyIds
        BY <1>1, <1>d DEF StartDownload
    <2>2. req'[r].pc = "lookUploaded" /\ req'[r].pass = 1 /\ req'[r].id = i
        BY <2>1 DEF FirstLook
    <2> QED BY <1>e, <2>1, <2>2 DEF SearchOk
  <1>2. CASE LookUploaded(r)
    <2>0. q.pc = "lookUploaded" /\ q \in ActiveReq
        BY <1>2, <1>c DEF LookUploaded
    <2>1. CASE uploaded[q.at][q.id] # "absent"
      <3>1. req'[r] = Opened(q, uploaded[q.at][q.id])
          BY <1>2, <1>d, <2>1 DEF LookUploaded
      <3>2. req'[r].pc \notin Searching
          BY <2>0, <3>1 DEF Opened, ActiveReq, Searching
      <3> QED BY <3>2 DEF SearchOk
    <2>2. CASE uploaded[q.at][q.id] = "absent"
      <3>1. PICK p : p = At(q, "lookCached") /\ req'[r] = p
          BY <1>2, <1>d, <2>2 DEF LookUploaded
      <3>2. /\ p.pc = "lookCached" /\ p.id = q.id /\ p.node = q.node /\ p.clean = q.clean
            /\ p.pass = q.pass /\ p.asked = q.asked
          BY <2>0, <3>1 DEF At, ActiveReq
      <3>3. Missed(p) \subseteq Missed(q) \cup {q.at}
          BY <2>0, <3>2 DEF Missed
      <3>4. ASSUME HasStorage, PeerEnabled, p.clean, p.pass = 2, OnlyHome(q.id)
            PROVE  home[q.id] \notin Missed(p)
        <4>1. home[q.id] \notin Missed(q) /\ uploaded[home[q.id]][q.id] # "absent"
            BY <1>g, <2>0, <3>2, <3>4 DEF Searching
        <4> QED BY <2>2, <3>3, <4>1
      <3> QED BY <1>f, <2>0, <3>1, <3>2, <3>4 DEF Searching
    <2> QED BY <2>1, <2>2
  <1>3. CASE LookCached(r)
    <2>0. q.pc = "lookCached" /\ q \in ActiveReq
        BY <1>3, <1>c DEF LookCached
    <2>1. CASE req'[r] = Opened(q, cached[q.at][q.id])
      <3>1. req'[r].pc \notin Searching
          BY <2>0, <2>1 DEF Opened, ActiveReq, Searching
      <3> QED BY <3>1 DEF SearchOk
    <2>2. CASE req'[r] # Opened(q, cached[q.at][q.id])
      <3>1. PICK pc \in {"askPeer", "lookStorage"} :
              req'[r] = At(q, pc) /\ (pc = "lookStorage" => q.pass # 2)
          BY <1>3, <1>d, <2>2 DEF LookCached
      <3>2. PICK p : p = At(q, pc) /\ req'[r] = p
          BY <3>1
      <3>3. /\ p.pc = pc /\ p.id = q.id /\ p.node = q.node /\ p.clean = q.clean
            /\ p.pass = q.pass /\ p.asked = q.asked
          BY <2>0, <3>2 DEF At, ActiveReq
      <3>4. Missed(p) = Missed(q)
          BY <2>0, <3>1, <3>3 DEF Missed
      <3> QED BY <1>f, <1>g, <2>0, <3>1, <3>2, <3>3, <3>4 DEF Searching
    <2> QED BY <2>1, <2>2
  <1>4. CASE AskPeer(r)
    <2>0. q.pc = "askPeer" /\ q \in ActiveReq
        BY <1>4, <1>c DEF AskPeer
    <2>1. CASE ~HasStorage
      <3>1. req'[r].id = q.id /\ req'[r].pc # "stall"
        <4>1. \/ \E m : req'[r] = [q EXCEPT !.pc = "lookUploaded", !.at = m, !.asked = @ \cup {m}]
              \/ req'[r] = NextPass(q)
            BY <1>4, <1>d, <2>1 DEF AskPeer
        <4>2. NextPass(q).id = q.id /\ NextPass(q).pc # "stall"
            BY <2>0, <2>1 DEF NextPass, ActiveReq
        <4> QED BY <2>0, <4>1, <4>2 DEF ActiveReq
      <3> QED BY <1>e, <2>0, <2>1, <3>1 DEF SearchOk, Searching
    <2>2. ASSUME NEW m, req'[r] = [q EXCEPT !.pc = "lookUploaded", !.at = m, !.asked = @ \cup {m}]
          PROVE  SearchOk(r)'
      <3>1. PICK p : p = req'[r]
          OBVIOUS
      <3>2. /\ p.pc = "lookUploaded" /\ p.id = q.id /\ p.node = q.node /\ p.clean = q.clean
            /\ p.pass = q.pass /\ p.asked = q.asked \cup {m} /\ p.at = m
          BY <2>0, <2>2, <3>1 DEF ActiveReq
      <3>3. Missed(p) \subseteq Missed(q)
          BY <2>0, <3>2 DEF Missed
      <3> QED BY <1>f, <1>g, <2>0, <3>1, <3>2, <3>3 DEF Searching
    <2>3. ASSUME req'[r] = [q EXCEPT !.pc = "lookStorage", !.at = q.node],
                 PeerEnabled => Peers(q.node) \subseteq q.asked
          PROVE  SearchOk(r)'
      <3>1. PICK p : p = req'[r]
          OBVIOUS
      <3>2. /\ p.pc = "lookStorage" /\ p.id = q.id /\ p.node = q.node /\ p.clean = q.clean
            /\ p.pass = q.pass /\ p.asked = q.asked
          BY <2>0, <2>3, <3>1 DEF ActiveReq
      <3>3. Missed(p) = Missed(q)
          BY <2>0, <3>2 DEF Missed
      <3> QED BY <1>f, <1>g, <2>0, <2>3, <3>1, <3>2, <3>3 DEF Searching
    <2> QED BY <1>4, <1>d, <2>1, <2>2, <2>3 DEF AskPeer
  <1>5. CASE PeerError(r)
    <2>0. q.pc = "lookUploaded" /\ q \in ActiveReq
        BY <1>5, <1>c DEF PeerError
    <2>1. PICK p : p = [q EXCEPT !.pc = "askPeer", !.clean = FALSE] /\ req'[r] = p
        BY <1>5, <1>d DEF PeerError
    <2>2. p.pc = "askPeer" /\ p.id = q.id /\ p.clean = FALSE
        BY <2>0, <2>1 DEF ActiveReq
    <2> QED BY <1>e, <2>0, <2>1, <2>2 DEF SearchOk, Searching
  <1>6. CASE LookStorage(r)
    <2>0. q.pc = "lookStorage" /\ q \in ActiveReq
        BY <1>6, <1>c DEF LookStorage
    <2>1. CASE q.id \in storage
      <3>1. req'[r] = [q EXCEPT !.pc = "openRemote", !.src = "whole"]
          BY <1>6, <1>d, <2>1 DEF LookStorage
      <3>2. req'[r].pc \notin Searching
          BY <2>0, <3>1 DEF ActiveReq, Searching
      <3> QED BY <3>2 DEF SearchOk
    <2>2. CASE q.id \notin storage
      <3>1. req'[r] = NextPass(q)
          BY <1>6, <1>d, <2>2 DEF LookStorage
      <3>2. NextPass(q).clean = q.clean
          BY <2>0 DEF NextPass, ActiveReq
      <3>3. [q EXCEPT !.clean = req'[r].clean] = q
          BY <2>0, <3>1, <3>2 DEF ActiveReq
      <3> QED BY <1>b, <2>0, <2>2, <3>1, <3>2, <3>3, SearchNext
    <2> QED BY <2>1, <2>2
  <1>7. CASE StorageError(r)
    <2>0. q.pc = "lookStorage" /\ q \in ActiveReq
        BY <1>7, <1>c DEF StorageError
    <2>1. PICK z : z = [q EXCEPT !.clean = FALSE]
        OBVIOUS
    <2>a. z \in ActiveReq /\ z.clean = FALSE
        BY <2>0, <2>1 DEF ActiveReq
    <2>2. req'[r] = NextPass(z)
        BY <1>7, <1>d, <2>1 DEF StorageError
    <2>3. NextPass(z).clean = FALSE
        BY <2>a DEF NextPass, ActiveReq
    <2>4. req'[r] = NextPass([q EXCEPT !.clean = req'[r].clean])
        BY <2>1, <2>2, <2>3
    <2> QED BY <1>b, <2>0, <2>2, <2>3, <2>4, SearchNext
  <1>8. CASE Stall(r)
    <2>0. q.pc = "stall" /\ q \in ActiveReq
        BY <1>8, <1>c DEF Stall
    <2>1. PICK p : /\ req'[r] = p
                   /\ \/ p = At(q, "failed")
                      \/ p = [q EXCEPT !.pc = "lookUploaded", !.tries = @ - 1]
        BY <1>8, <1>d DEF Stall
    <2>2. \/ p.pc = "failed"
          \/ /\ p.pc = "lookUploaded" /\ p.id = q.id /\ p.node = q.node
             /\ p.clean = q.clean /\ p.pass = q.pass
        BY <2>0, <2>1 DEF At, ActiveReq
    <2>3. CASE p.pc = "failed"
        BY <2>1, <2>3 DEF SearchOk, Searching
    <2>4. CASE p.pc = "lookUploaded"
      <3>1. HasStorage /\ PeerEnabled /\ q.clean => q.pass = 3
          BY <2>0 DEF SearchOk, Searching
      <3> QED BY <1>f, <2>0, <2>1, <2>2, <2>4, <3>1 DEF Searching
    <2> QED BY <2>2, <2>3, <2>4
  <1>9. CASE FinishDownload(r)
      BY <1>9, <1>d DEF FinishDownload, IdleReq, SearchOk, Searching
  <1> QED BY <1>1, <1>2, <1>3, <1>4, <1>5, <1>6, <1>7, <1>8, <1>9 DEF DownloadStep

LEMMA DownloadMoves ==
  ASSUME TypeInv, NEW r \in Reqs, DownloadStep(r)
  PROVE  \A s \in Reqs \ {r} : req'[s] = req[s]
  <1>1. \E p : Become(r, p)
      BY DEF DownloadStep, StartDownload, LookUploaded, LookCached, AskPeer, PeerError,
         LookStorage, StorageError, Stall, FinishDownload
  <1> QED BY <1>1 DEF Become, TypeInv, TypeOK

LEMMA SearchInvNext == TypeInv /\ Safe /\ SearchInv /\ [Next]_vars => SearchInv'
  <1> SUFFICES ASSUME TypeInv, Safe, SearchInv, [Next]_vars, NEW s \in Reqs
               PROVE  SearchOk(s)'
      BY DEF SearchInv
  <1>0. Grows /\ SearchOk(s)
      BY GrowsNext DEF SearchInv
  <1>1. IdleReq.pc \notin Searching
      BY DEF IdleReq, Searching
  <1>2. CASE \/ UploadStep \/ (\E i \in Ids : Age(i))
             \/ (\E i \in Ids, w \in Routines : WritebackStep(i, w))
             \/ PurgeStep \/ NodeStep \/ UNCHANGED vars
      BY <1>0, <1>1, <1>2, OtherMoves, SearchSame
  <1>3. ASSUME NEW r \in Reqs, DownloadStep(r) PROVE SearchOk(s)'
    <2>1. CASE s = r
        BY <1>0, <1>3, <2>1, SearchDownload
    <2>2. CASE s # r
        BY <1>0, <1>3, <2>2, DownloadMoves, SearchSame DEF SameLook, SameStep
    <2> QED BY <2>1, <2>2
  <1>4. ASSUME NEW r \in Reqs, RecacheStep(r) PROVE SearchOk(s)'
    <2>1. \A pc \in RecacheSteps : pc \notin Searching
        BY DEF RecacheSteps, Searching
    <2>2. SameLook(req'[s], req[s]) \/ req'[s].pc \notin Searching
        BY <1>1, <1>4, <2>1, RecacheMoves
    <2> QED BY <1>0, <2>2, SearchSame
  <1> QED BY <1>2, <1>3, <1>4 DEF Next

(***************************************************************************)
(* With peers, a download that met no fault stalls only for content whose  *)
(* upload was aborted after its commit or whose node went too early, for   *)
(* any number of nodes and however uploads, writebacks, purges, crashes of *)
(* other nodes and scale-ins interleave with its lookups (NewPuller, More).*)
(***************************************************************************)
THEOREM CleanDownloadNeverStalls == Spec => []NeverStalls
  <1>1. Init => SearchInv
    <2> SUFFICES ASSUME Init, NEW r \in Reqs PROVE SearchOk(r)
        BY DEF SearchInv
    <2>1. req[r].pc = "idle"
        BY DEF Init, IdleReq
    <2> QED BY <2>1 DEF SearchOk, Searching
  <1>2. SearchInv => NeverStalls
      BY DEF SearchInv, SearchOk, NeverStalls, Searching, Lost
  <1> QED BY <1>1, <1>2, TypeInit, TypeNext, SafeInit, SafeNext, SearchInvNext, PTL DEF Spec
--------------------------------------------------------------------------------
(* Recaching without peers *)

LEMMA RecacheSame ==
  ASSUME Grows, NEW r \in Reqs, RecacheOk(r),
         SameStep(req'[r], req[r]) \/ req'[r].pc = "idle"
  PROVE  RecacheOk(r)'
  BY DEF RecacheOk, Grows, SameStep

LEMMA RecacheDownload ==
  ASSUME TypeInv, ~PeerEnabled, NEW r \in Reqs, DownloadStep(r), RecacheOk(r)
  PROVE  RecacheOk(r)'
  <1> DEFINE q == req[r]
  <1>a. req \in Requests
      BY DEF TypeInv, TypeOK, Requests
  <1>b. storage' = storage
      BY DEF DownloadStep, StartDownload, LookUploaded, LookCached, AskPeer, PeerError,
         LookStorage, StorageError, Stall, FinishDownload, OnlyReq
  <1>c. q.pc # "idle" => q \in ActiveReq
      BY <1>a, ActiveType
  <1>d. \A p : Become(r, p) => req'[r] = p
      BY <1>a DEF Become, Requests
  <1>e. ASSUME q.pc # "idle", NEW p, req'[r] = p, p.at = p.node,
               \/ p.pc \in LookupSteps \ {"openRemote"}
               \/ p.pc = "openRemote" /\ p.id \in storage
        PROVE  RecacheOk(r)'
      BY <1>b, <1>e DEF RecacheOk, LookupSteps, RecacheSteps
  <1>f. q.pc # "idle" => q.at = q.node
      BY DEF RecacheOk
  <1>g. ASSUME NEW z \in ActiveReq, z.at = z.node
        PROVE  /\ NextPass(z).at = NextPass(z).node
               /\ NextPass(z).pc \in LookupSteps \ {"openRemote"}
      BY <1>g DEF NextPass, ActiveReq, LookupSteps
  <1>h. ASSUME q \in ActiveReq, NEW pc, q.at = q.node
        PROVE  At(q, pc).at = At(q, pc).node /\ At(q, pc).pc = pc
      BY <1>h DEF At, ActiveReq
  <1>i. ASSUME q \in ActiveReq, NEW c, q.at = q.node
        PROVE  Opened(q, c).at = Opened(q, c).node /\ Opened(q, c).pc = "openLocal"
      BY <1>i DEF Opened, ActiveReq
  <1>1. ASSUME NEW i \in Ids, NEW n \in Nodes, StartDownload(r, i, n) PROVE RecacheOk(r)'
      BY <1>1, <1>d DEF StartDownload, FirstLook, RecacheOk, RecacheSteps
  <1>2. CASE LookUploaded(r)
    <2>1. q.pc = "lookUploaded" /\ \/ req'[r] = Opened(q, uploaded[q.at][q.id])
                                   \/ req'[r] = At(q, "lookCached")
        BY <1>2, <1>d DEF LookUploaded
    <2> QED BY <1>c, <1>e, <1>f, <1>h, <1>i, <2>1 DEF LookupSteps
  <1>3. CASE LookCached(r)
    <2>1. q.pc = "lookCached" /\ \/ req'[r] = Opened(q, cached[q.at][q.id])
                                 \/ req'[r] = At(q, "askPeer")
                                 \/ req'[r] = At(q, "lookStorage")
        BY <1>3, <1>d DEF LookCached
    <2> QED BY <1>c, <1>e, <1>f, <1>h, <1>i, <2>1 DEF LookupSteps
  <1>4. CASE AskPeer(r)
    <2>1. q.pc = "askPeer" /\ \/ req'[r] = [q EXCEPT !.pc = "lookStorage", !.at = q.node]
                              \/ req'[r] = NextPass(q)
        BY <1>4, <1>d DEF AskPeer
    <2>2. q \in ActiveReq
        BY <1>c, <2>1
    <2>3. PICK p : p = [q EXCEPT !.pc = "lookStorage", !.at = q.node]
        OBVIOUS
    <2>4. p.at = p.node /\ p.pc = "lookStorage"
        BY <2>2, <2>3 DEF ActiveReq
    <2> QED BY <1>e, <1>f, <1>g, <2>1, <2>2, <2>3, <2>4 DEF LookupSteps
  <1>5. CASE PeerError(r)
      BY <1>5, <1>f DEF PeerError
  <1>6. CASE LookStorage(r)
    <2>1. q.pc = "lookStorage" /\ q \in ActiveReq
        BY <1>6, <1>c DEF LookStorage
    <2>2. CASE q.id \in storage
      <3>1. PICK p : p = [q EXCEPT !.pc = "openRemote", !.src = "whole"] /\ req'[r] = p
          BY <1>6, <1>d, <2>2 DEF LookStorage
      <3>2. p.at = q.at /\ p.node = q.node /\ p.pc = "openRemote" /\ p.id = q.id
          BY <2>1, <3>1 DEF ActiveReq
      <3> QED BY <1>e, <1>f, <2>1, <2>2, <3>1, <3>2
    <2>3. CASE q.id \notin storage
      <3>1. req'[r] = NextPass(q)
          BY <1>6, <1>d, <2>3 DEF LookStorage
      <3> QED BY <1>e, <1>f, <1>g, <2>1, <3>1
    <2> QED BY <2>2, <2>3
  <1>7. CASE StorageError(r)
    <2>1. q.pc = "lookStorage" /\ q \in ActiveReq
        BY <1>7, <1>c DEF StorageError
    <2>2. PICK z : z = [q EXCEPT !.clean = FALSE]
        OBVIOUS
    <2>3. z \in ActiveReq /\ z.at = z.node
        BY <1>f, <2>1, <2>2 DEF ActiveReq
    <2>4. req'[r] = NextPass(z)
        BY <1>7, <1>d, <2>2 DEF StorageError
    <2> QED BY <1>e, <1>g, <2>1, <2>3, <2>4
  <1>8. CASE Stall(r)
    <2>1. q.pc = "stall" /\ q \in ActiveReq
        BY <1>8, <1>c DEF Stall
    <2>2. PICK p : /\ req'[r] = p
                   /\ \/ p = At(q, "failed")
                      \/ p = [q EXCEPT !.pc = "lookUploaded", !.tries = @ - 1]
        BY <1>8, <1>d DEF Stall
    <2>3. p.at = q.at /\ p.node = q.node /\ p.pc \in {"failed", "lookUploaded"}
        BY <2>1, <2>2 DEF At, ActiveReq
    <2> QED BY <1>e, <1>f, <2>1, <2>2, <2>3 DEF LookupSteps
  <1>9. CASE FinishDownload(r)
      BY <1>9, <1>d DEF FinishDownload, IdleReq, RecacheOk
  <1> QED BY <1>1, <1>2, <1>3, <1>4, <1>5, <1>6, <1>7, <1>8, <1>9 DEF DownloadStep

(* Where a file may appear: in a recache, or when a writeback is done. *)
LEMMA RecacheFiles ==
  ASSUME TypeInv, Safe, HasStorage, Grows, RecacheInv, [Next]_vars,
         NEW n \in Nodes, NEW i \in Ids
  PROVE  /\ caching'[n][i] # "absent" => i \in storage'
         /\ cached'[n][i] # "absent" /\ i \notin EmptyIds => i \in storage'
  <1>0. /\ caching[n][i] # "absent" => i \in storage'
        /\ cached[n][i] # "absent" /\ i \notin EmptyIds => i \in storage'
        /\ caching \in Files /\ cached \in Files /\ uploaded \in Files
      BY DEF RecacheInv, CachedIsStored, Grows, TypeInv, TypeOK, Files
  <1>1. CASE UNCHANGED <<caching, cached>>
      BY <1>0, <1>1
  <1>2. CASE \/ UploadStep \/ (\E j \in Ids : Age(j)) \/ UNCHANGED vars
             \/ (\E r \in Reqs : DownloadStep(r))
      BY <1>1, <1>2 DEF UploadStep, BeginUpload, FinishReceive, FailReceive, Abort, Commit,
         ReturnEarly, Respond, Age, vars, disk, DownloadStep, StartDownload, LookUploaded,
         LookCached, AskPeer, PeerError, LookStorage, StorageError, Stall, FinishDownload,
         OnlyReq
  <1>3. ASSUME NEW j \in Ids, NEW w \in Routines, WritebackStep(j, w)
        PROVE  /\ caching'[n][i] # "absent" => i \in storage'
               /\ cached'[n][i] # "absent" /\ i \notin EmptyIds => i \in storage'
    <2>1. CASE UNCHANGED cached
        BY <1>1, <1>3, <2>1 DEF WritebackStep, OpenWriteback, Store, StoreFails, RenameUploaded,
           disk
    <2>2. CASE ~UNCHANGED cached
      <3>1. /\ RenameUploaded(j, w) /\ drain[j][w] = "stored" /\ UNCHANGED <<caching, storage>>
            /\ cached' = Put(cached, home[j], j, uploaded[home[j]][j])
          BY <1>3, <2>2 DEF WritebackStep, OpenWriteback, Store, StoreFails, RenameUploaded, disk
      <3>2. home[j] \in Nodes /\ uploaded[home[j]][j] \in Content
          BY <3>1 DEF TypeInv, HomeInv, TypeOK
      <3>3. cached'[n][i] = IF n = home[j] /\ i = j THEN uploaded[home[j]][j] ELSE cached[n][i]
          BY <1>0, <3>1, <3>2, PutType
      <3>4. j \in storage \cup EmptyIds
          BY <3>1 DEF Safe, StoredInv
      <3> QED BY <1>0, <3>1, <3>3, <3>4
    <2> QED BY <2>1, <2>2
  <1>4. CASE PurgeStep
    <2>1. PICK m \in Nodes, j \in Ids :
            PurgeCached(m, j) \/ EmptyCached(m, j) \/ PurgeGarbage(m, j)
        BY <1>4 DEF PurgeStep
    <2>2. /\ UNCHANGED caching \/ caching' = Put(caching, m, j, "absent")
          /\ \/ UNCHANGED cached \/ cached' = Put(cached, m, j, "absent")
             \/ cached[m][j] # "absent" /\ cached' = Put(cached, m, j, "partial")
        BY <2>1 DEF PurgeCached, EmptyCached, PurgeGarbage
    <2>3. \A f \in Files, c \in Content :
            Put(f, m, j, c)[n][i] = IF n = m /\ i = j THEN c ELSE f[n][i]
        BY PutType
    <2> QED BY <1>0, <2>2, <2>3 DEF Content
  <1>5. ASSUME NEW r \in Reqs, RecacheStep(r)
        PROVE  /\ caching'[n][i] # "absent" => i \in storage'
               /\ cached'[n][i] # "absent" /\ i \notin EmptyIds => i \in storage'
    <2>1. /\ req[r].node \in Nodes /\ req[r].id \in Ids /\ req[r].id \in storage'
      <3>1. req[r] \in ActiveReq /\ req[r].pc \in RecacheSteps \cup {"openRemote"}
          BY <1>5, RecacheMoves
      <3> QED BY <3>1 DEF ActiveReq, RecacheInv, RecacheOk, Grows, RecacheSteps
    <2>2. PICK m \in Nodes, j \in Ids : m = req[r].node /\ j = req[r].id
        BY <2>1
    <2>3. /\ UNCHANGED caching \/ \E c \in Content : caching' = Put(caching, m, j, c)
          /\ UNCHANGED cached \/ \E c \in Content : cached' = Put(cached, m, j, c)
      <3>1. caching[m][j] \in Content
          BY DEF TypeInv, TypeOK
      <3> QED BY <1>5, <2>2, <3>1 DEF RecacheStep, BackgroundRecache, StartDownloadToCache,
                 FinishWrite, DownloadFails, CopyFromPeer, NoPeerHasFile, CopyFails,
                 RenameCaching, RemoveCaching, CreateCaching, Written, Content
    <2>4. \A f \in Files, c \in Content :
            Put(f, m, j, c)[n][i] = IF n = m /\ i = j THEN c ELSE f[n][i]
        BY PutType
    <2> QED BY <1>0, <2>1, <2>2, <2>3, <2>4
  <1>6. CASE NodeStep
    <2>1. PICK m \in Nodes : Crash(m) \/ ReadyToTerminate(m) \/ Terminate(m)
        BY <1>6 DEF NodeStep
    <2>2. CASE Terminate(m)
        BY <1>0, <2>2 DEF Terminate, NoFiles, Files
    <2>3. CASE Crash(m) \/ ReadyToTerminate(m)
        BY <1>1, <2>3 DEF Crash, ReadyToTerminate, disk
    <2> QED BY <2>1, <2>2, <2>3
  <1> QED BY <1>2, <1>3, <1>4, <1>5, <1>6 DEF Next

LEMMA RecacheNext ==
  ASSUME HasStorage, ~PeerEnabled
  PROVE  TypeInv /\ Safe /\ RecacheInv /\ [Next]_vars => RecacheInv'
  <1> SUFFICES ASSUME TypeInv, Safe, RecacheInv, [Next]_vars PROVE RecacheInv'
      OBVIOUS
  <1>0. Grows
      BY GrowsNext
  <1>1. \A n \in Nodes, i \in Ids :
          /\ caching'[n][i] # "absent" => i \in storage'
          /\ cached'[n][i] # "absent" /\ i \notin EmptyIds => i \in storage'
      BY <1>0, RecacheFiles
  <1>2. ASSUME NEW s \in Reqs PROVE RecacheOk(s)'
    <2>0. RecacheOk(s) /\ IdleReq.pc = "idle"
        BY DEF RecacheInv, IdleReq
    <2>1. CASE \/ UploadStep \/ (\E i \in Ids : Age(i))
               \/ (\E i \in Ids, w \in Routines : WritebackStep(i, w))
               \/ PurgeStep \/ NodeStep \/ UNCHANGED vars
        BY <1>0, <2>0, <2>1, OtherMoves, RecacheSame DEF SameLook
    <2>2. ASSUME NEW r \in Reqs, DownloadStep(r) PROVE RecacheOk(s)'
        BY <1>0, <2>0, <2>2, DownloadMoves, RecacheDownload, RecacheSame DEF SameStep
    <2>3. ASSUME NEW r \in Reqs, RecacheStep(r) PROVE RecacheOk(s)'
      <3>1. CASE s # r
          BY <1>0, <2>0, <2>3, <3>1, RecacheMoves, RecacheSame DEF SameLook
      <3>2. CASE s = r
        <4>1. /\ req[r].pc \in RecacheSteps \cup {"openRemote"}
              /\ \/ req'[r] = IdleReq
                 \/ /\ req'[r].pc \in RecacheSteps
                    /\ SameFile(req'[r], req[r]) /\ req'[r].at = req[r].at
                    /\ req'[r].pc \in {"p2p", "copy"} => req[r].pc = "p2p"
            BY <2>3, RecacheMoves
        <4>2. req[r].pc # "p2p" /\ req[r].id \in storage /\ req[r].at = req[r].node
            BY <2>0, <3>2, <4>1 DEF RecacheOk, RecacheSteps
        <4> QED BY <1>0, <2>0, <3>2, <4>1, <4>2 DEF RecacheOk, SameFile, Grows, RecacheSteps
      <3> QED BY <3>1, <3>2
    <2> QED BY <2>1, <2>2, <2>3 DEF Next
  <1> QED BY <1>1, <1>2 DEF RecacheInv, CachedIsStored

(***************************************************************************)
(* Where nodes do not copy from each other, whatever CachePurge may remove *)
(* as .cached is in PermanentStorage, through every order of writebacks,   *)
(* aborted uploads, recaches, purges, crashes and scale-ins                *)
(* (filePurgeVisit).  A copy from a peer may be ahead of the writeback.    *)
(***************************************************************************)
THEOREM CachedFilesAreStored ==
  ASSUME HasStorage, ~PeerEnabled
  PROVE  Spec => []CachedIsStored
  <1>1. Init => RecacheInv
      BY DEF Init, NoFiles, IdleReq, RecacheInv, RecacheOk, CachedIsStored
  <1>2. RecacheInv => CachedIsStored
      BY DEF RecacheInv
  <1>3. TypeInv /\ Safe /\ RecacheInv /\ [Next]_vars => RecacheInv'
      BY RecacheNext
  <1> QED BY <1>1, <1>2, <1>3, TypeInit, TypeNext, SafeInit, SafeNext, PTL DEF Spec
--------------------------------------------------------------------------------
(* One recache of a file at a time *)

Recaching(r) == req[r].pc \in RecacheSteps

(***************************************************************************)
(* No two requests recache the same file into the same directory: the look *)
(* at i.caching and its creation are not one step, so the code can miss it.*)
(***************************************************************************)
OneRecache ==
  \A q, r \in Reqs :
    Recaching(q) /\ Recaching(r) /\ SameFile(req[q], req[r]) => q = r

(***************************************************************************)
(* A recache writes an i.caching of its own, and renames it when the whole *)
(* content is in it.                                                       *)
(***************************************************************************)
Copying(q) == q.pc = "download" /\ q.file = "caching" /\ q.sole /\ q.src = "whole"
WholeOk(r) ==
  /\ req[r].pc = "download" => Copying(req[r])
  /\ req[r].pc = "rename" => caching[req[r].node][req[r].id] = "whole"
WholeInv == \A r \in Reqs : WholeOk(r)

SameCopy(p, q) ==
  /\ SameFile(p, q) /\ p.pc = q.pc
  /\ Copying(q) => Copying(p)

(* What happens to i.cached, and to another file, leaves a recache alone. *)
LEMMA MovedCopy ==
  ASSUME req \in Requests, NEW n \in Nodes, NEW i \in Ids, NEW r \in Reqs
  PROVE  /\ SameCopy(Unlinked(n, i, "cached")[r], req[r])
         /\ SameCopy(Truncated(n, i, "cached")[r], req[r])
         /\ \A name \in {"caching", "cached"} :
              req[r].node # n \/ req[r].id # i =>
                /\ Unlinked(n, i, name)[r] = req[r]
                /\ Truncated(n, i, name)[r] = req[r]
                /\ Renamed(n, i)[r] = req[r]
  <1>1. CASE req[r].node # n \/ req[r].id # i
      BY <1>1 DEF Unlinked, Renamed, Truncated, SameCopy, SameFile
  <1>2. CASE req[r].node = n /\ req[r].id = i
    <2>1. req[r] \in ActiveReq
        BY <1>2, NoNodeAssumption DEF Requests, IdleReq
    <2>2. CASE req[r].file = "cached"
        BY <1>2, <2>1, <2>2 DEF Unlinked, Truncated, ActiveReq, SameCopy, SameFile, Copying
    <2>3. CASE req[r].file # "cached"
        BY <1>2, <2>3 DEF Unlinked, Truncated, SameCopy, SameFile
    <2> QED BY <1>2, <2>2, <2>3
  <1> QED BY <1>1, <1>2

(* Everybody but the requests leaves a running recache and its file alone. *)
LEMMA OtherCopies ==
  ASSUME TypeInv,
         \/ UploadStep \/ (\E i \in Ids : Age(i))
         \/ (\E i \in Ids, w \in Routines : WritebackStep(i, w))
         \/ PurgeStep \/ NodeStep \/ UNCHANGED vars,
         NEW r \in Reqs
  PROVE  \/ req'[r] = IdleReq
         \/ /\ SameCopy(req'[r], req[r])
            /\ Recaching(r) => caching'[req[r].node][req[r].id] = caching[req[r].node][req[r].id]
  <1>0. req \in Requests /\ caching \in Files
      BY DEF TypeInv, TypeOK, Requests, Files
  <1>1. CASE UNCHANGED <<req, caching>>
      BY <1>1 DEF SameCopy, SameFile
  <1>2. CASE UploadStep \/ (\E i \in Ids : Age(i)) \/ UNCHANGED vars
      BY <1>1, <1>2 DEF UploadStep, BeginUpload, FinishReceive, FailReceive, Abort, Commit,
         ReturnEarly, Respond, Age, vars, disk
  <1>3. ASSUME NEW i \in Ids, NEW w \in Routines, WritebackStep(i, w)
        PROVE  SameCopy(req'[r], req[r]) /\ UNCHANGED caching
    <2>1. /\ UNCHANGED req \/ (req' = Unlinked(home[i], i, "cached") /\ drain[i][w] = "stored")
          /\ UNCHANGED caching
        BY <1>3 DEF WritebackStep, OpenWriteback, Store, StoreFails, RenameUploaded, disk
    <2>2. drain[i][w] = "stored" => home[i] \in Nodes
        BY DEF TypeInv, HomeInv
    <2> QED BY <1>0, <2>1, <2>2, MovedCopy DEF SameCopy, SameFile
  <1>4. CASE PurgeStep
    <2>1. PICK n \in Nodes, i \in Ids :
            PurgeCached(n, i) \/ EmptyCached(n, i) \/ PurgeGarbage(n, i)
        BY <1>4 DEF PurgeStep
    <2>2. CASE PurgeCached(n, i) \/ EmptyCached(n, i)
        BY <1>0, <2>2, MovedCopy DEF PurgeCached, EmptyCached
    <2>3. CASE PurgeGarbage(n, i)
      <3>1. UNCHANGED req
          BY <2>3 DEF PurgeGarbage
      <3>2. CASE UNCHANGED caching
          BY <1>1, <3>1, <3>2
      <3>3. CASE ~UNCHANGED caching
        <4>1. /\ caching' = Put(caching, n, i, "absent")
              /\ ~(req[r].node = n /\ req[r].id = i /\ Recaching(r))
            BY <2>3, <3>3 DEF PurgeGarbage, Recaching
        <4>2. Recaching(r) => req[r].node \in Nodes /\ req[r].id \in Ids
            BY <1>0, ActiveType DEF Recaching, RecacheSteps, ActiveReq
        <4>3. \A m \in Nodes, j \in Ids :
                caching'[m][j] = IF m = n /\ j = i THEN "absent" ELSE caching[m][j]
          <5>1. "absent" \in Content
              BY DEF Content
          <5> QED BY <1>0, <4>1, <5>1, PutType
        <4> QED BY <3>1, <4>1, <4>2, <4>3 DEF SameCopy, SameFile
      <3> QED BY <3>2, <3>3
    <2> QED BY <2>1, <2>2, <2>3
  <1>5. CASE NodeStep
    <2>1. PICK n \in Nodes : Crash(n) \/ ReadyToTerminate(n) \/ Terminate(n)
        BY <1>5 DEF NodeStep
    <2>2. req'[r] = IdleReq \/ (req'[r] = req[r] /\ (req[r].node # n \/ UNCHANGED caching))
      <3>1. CASE ReadyToTerminate(n)
          BY <3>1 DEF ReadyToTerminate, disk
      <3>2. CASE Crash(n) \/ Terminate(n)
        <4>1. req' = [s \in Reqs |-> IF req[s].node = n THEN IdleReq ELSE req[s]]
            BY <3>2 DEF Crash, Terminate, StopProcess
        <4> QED BY <4>1
      <3> QED BY <2>1, <3>1, <3>2
    <2>3. UNCHANGED caching \/ caching' = [caching EXCEPT ![n] = NoFiles[n]]
        BY <2>1 DEF Crash, ReadyToTerminate, Terminate, disk
    <2>4. Recaching(r) => req[r].node \in Nodes
        BY <1>0, ActiveType DEF Recaching, RecacheSteps, ActiveReq
    <2> QED BY <1>0, <2>2, <2>3, <2>4 DEF SameCopy, SameFile, Files
  <1> QED BY <1>2, <1>3, <1>4, <1>5

(* A request that looks for content has not begun to recache it. *)
LEMMA DownloadLooks ==
  ASSUME TypeInv, NEW r \in Reqs, DownloadStep(r)
  PROVE  ~Recaching(r)' /\ UNCHANGED caching
  <1> DEFINE q == req[r]
             Looks == req'[r].pc \in LookupSteps \cup {"idle"}
  <1>a. req \in Requests
      BY DEF TypeInv, TypeOK, Requests
  <1>b. UNCHANGED caching
      BY DEF DownloadStep, StartDownload, LookUploaded, LookCached, AskPeer, PeerError,
         LookStorage, StorageError, Stall, FinishDownload, OnlyReq, disk
  <1>c. q.pc # "idle" => q \in ActiveReq
      BY <1>a, ActiveType
  <1>d. \A p : Become(r, p) => req'[r] = p
      BY <1>a DEF Become, Requests
  <1>e. ASSUME NEW z \in ActiveReq
        PROVE  /\ NextPass(z).pc \in LookupSteps
               /\ \A c : Opened(z, c).pc \in LookupSteps
               /\ \A pc : At(z, pc).pc = pc
    <2>1. NextPass(z).pc \in LookupSteps
        BY DEF NextPass, ActiveReq, LookupSteps
    <2>2. \A c : Opened(z, c).pc \in LookupSteps
        BY DEF Opened, ActiveReq, LookupSteps
    <2>3. \A pc : At(z, pc).pc = pc
        BY DEF At, ActiveReq
    <2> QED BY <2>1, <2>2, <2>3
  <1> SUFFICES Looks
      BY <1>b DEF Recaching, LookupSteps, RecacheSteps
  <1>1. ASSUME NEW i \in Ids, NEW n \in Nodes, StartDownload(r, i, n) PROVE Looks
      BY <1>1, <1>d DEF StartDownload, FirstLook, LookupSteps
  <1>2. CASE LookUploaded(r)
    <2>1. q.pc = "lookUploaded" /\ \/ req'[r] = Opened(q, uploaded[q.at][q.id])
                                   \/ req'[r] = At(q, "lookCached")
        BY <1>2, <1>d DEF LookUploaded
    <2> QED BY <1>c, <1>e, <2>1 DEF LookupSteps
  <1>3. CASE LookCached(r)
    <2>1. q.pc = "lookCached" /\ \/ req'[r] = Opened(q, cached[q.at][q.id])
                                 \/ req'[r] = At(q, "askPeer")
                                 \/ req'[r] = At(q, "lookStorage")
        BY <1>3, <1>d DEF LookCached
    <2> QED BY <1>c, <1>e, <2>1 DEF LookupSteps
  <1>4. CASE AskPeer(r)
    <2>1. /\ q.pc = "askPeer"
          /\ \/ \E m : req'[r] = [q EXCEPT !.pc = "lookUploaded", !.at = m, !.asked = @ \cup {m}]
             \/ req'[r] = [q EXCEPT !.pc = "lookStorage", !.at = q.node]
             \/ req'[r] = NextPass(q)
        BY <1>4, <1>d DEF AskPeer
    <2>2. q \in ActiveReq
        BY <1>c, <2>1
    <2>3. CASE req'[r] = NextPass(q)
        BY <1>e, <2>2, <2>3
    <2>4. CASE req'[r] # NextPass(q)
        BY <2>1, <2>2, <2>4 DEF ActiveReq, LookupSteps
    <2> QED BY <2>3, <2>4
  <1>5. CASE PeerError(r)
    <2>1. q.pc = "lookUploaded" /\ req'[r] = [q EXCEPT !.pc = "askPeer", !.clean = FALSE]
        BY <1>5, <1>d DEF PeerError
    <2> QED BY <1>c, <2>1 DEF ActiveReq, LookupSteps
  <1>6. CASE LookStorage(r)
    <2>1. q.pc = "lookStorage" /\ \/ req'[r] = [q EXCEPT !.pc = "openRemote", !.src = "whole"]
                                  \/ req'[r] = NextPass(q)
        BY <1>6, <1>d DEF LookStorage
    <2>2. q \in ActiveReq
        BY <1>c, <2>1
    <2>3. CASE req'[r] = NextPass(q)
        BY <1>e, <2>2, <2>3
    <2>4. CASE req'[r] # NextPass(q)
        BY <2>1, <2>2, <2>4 DEF ActiveReq, LookupSteps
    <2> QED BY <2>3, <2>4
  <1>7. CASE StorageError(r)
    <2>1. q.pc = "lookStorage"
        BY <1>7 DEF StorageError
    <2>2. PICK z : z = [q EXCEPT !.clean = FALSE]
        OBVIOUS
    <2>3. z \in ActiveReq
        BY <1>c, <2>1, <2>2 DEF ActiveReq
    <2>4. req'[r] = NextPass(z)
        BY <1>7, <1>d, <2>2 DEF StorageError
    <2> QED BY <1>e, <2>3, <2>4
  <1>8. CASE Stall(r)
    <2>1. q.pc = "stall" /\ \/ req'[r] = At(q, "failed")
                            \/ req'[r] = [q EXCEPT !.pc = "lookUploaded", !.tries = @ - 1]
        BY <1>8, <1>d DEF Stall
    <2> QED BY <1>c, <2>1 DEF At, ActiveReq, LookupSteps
  <1>9. CASE FinishDownload(r)
      BY <1>9, <1>d DEF FinishDownload, IdleReq
  <1> QED BY <1>1, <1>2, <1>3, <1>4, <1>5, <1>6, <1>7, <1>8, <1>9 DEF DownloadStep
(* The steps of a recache leave those of other files alone. *)
LEMMA RecacheCopies ==
  ASSUME TypeInv, NEW r \in Reqs, RecacheStep(r), NEW s \in Reqs \ {r},
         ~SameFile(req[s], req[r]) \/ req[r].pc = "openRemote"
  PROVE  /\ req'[s] = req[s]
         /\ Recaching(s) => caching'[req[s].node][req[s].id] = caching[req[s].node][req[s].id]
  <1> DEFINE q == req[r]
  <1>a. req \in Requests /\ caching \in Files
      BY DEF TypeInv, TypeOK, Requests, Files
  <1>b. q \in ActiveReq /\ q.pc \in RecacheSteps \cup {"openRemote"}
      BY RecacheMoves
  <1>c. q.node \in Nodes /\ q.id \in Ids /\ caching[q.node][q.id] \in Content
      BY <1>a, <1>b DEF ActiveReq, Files
  <1>1. CASE BackgroundRecache(r)
    <2>1. \E p : Become(r, p)
        BY <1>1 DEF BackgroundRecache
    <2> QED BY <1>1, <1>a, <2>1 DEF BackgroundRecache, Become, Requests
  <1>2. CASE ~BackgroundRecache(r)
    <2>1. ~SameFile(req[s], q)
        BY <1>2 DEF RecacheStep, StartDownloadToCache, FinishWrite, DownloadFails,
           CopyFromPeer, NoPeerHasFile, CopyFails, RenameCaching, RemoveCaching
    <2>2. UNCHANGED caching \/ \E c \in Content : caching' = Put(caching, q.node, q.id, c)
        BY <1>2, <1>c DEF RecacheStep, StartDownloadToCache, FinishWrite, DownloadFails,
           CopyFromPeer, NoPeerHasFile, CopyFails, RenameCaching, RemoveCaching,
           CreateCaching, Written, Content
    <2>3. Recaching(s) => caching'[req[s].node][req[s].id] = caching[req[s].node][req[s].id]
      <3>1. Recaching(s) => req[s].node \in Nodes /\ req[s].id \in Ids
          BY <1>a, ActiveType DEF Recaching, RecacheSteps, ActiveReq
      <3>2. \A c \in Content, m \in Nodes, j \in Ids :
              Put(caching, q.node, q.id, c)[m][j]
                = IF m = q.node /\ j = q.id THEN c ELSE caching[m][j]
          BY <1>a, <1>c, PutType
      <3> QED BY <2>1, <2>2, <3>1, <3>2 DEF SameFile
    <2>4. \/ \E p : req' = [req EXCEPT ![r] = p]
          \/ \E p : req' = [Truncated(q.node, q.id, "caching") EXCEPT ![r] = p]
          \/ \E p : req' = [Unlinked(q.node, q.id, "caching") EXCEPT ![r] = p]
          \/ \E p : req' = [Renamed(q.node, q.id) EXCEPT ![r] = p]
      <3>1. CASE StartDownloadToCache(r) \/ CopyFromPeer(r)
          BY <3>1 DEF StartDownloadToCache, CopyFromPeer, CreateCaching, Become
      <3>2. CASE RenameCaching(r) \/ RemoveCaching(r)
          BY <3>2 DEF RenameCaching, RemoveCaching, Become
      <3>3. CASE FinishWrite(r) \/ DownloadFails(r) \/ NoPeerHasFile(r) \/ CopyFails(r)
          BY <3>3 DEF FinishWrite, DownloadFails, NoPeerHasFile, CopyFails, Become
      <3> QED BY <1>2, <3>1, <3>2, <3>3 DEF RecacheStep
    <2>5. req'[s] = req[s]
      <3>1. /\ Unlinked(q.node, q.id, "caching")[s] = req[s]
            /\ Truncated(q.node, q.id, "caching")[s] = req[s]
            /\ Renamed(q.node, q.id)[s] = req[s]
          BY <1>a, <1>c, <2>1, MovedCopy DEF SameFile
      <3>2. \A t \in Requests : \A p : [t EXCEPT ![r] = p][s] = t[s]
          BY DEF Requests
      <3>3. /\ Unlinked(q.node, q.id, "caching") \in Requests
            /\ Truncated(q.node, q.id, "caching") \in Requests
            /\ Renamed(q.node, q.id) \in Requests
          BY <1>a, <1>c, MovedType
      <3>4. PICK t \in Requests : (\E p : req' = [t EXCEPT ![r] = p]) /\ t[s] = req[s]
          BY <1>a, <2>4, <3>1, <3>3
      <3> QED BY <3>2, <3>4
    <2> QED BY <2>3, <2>5
  <1> QED BY <1>1, <1>2

(* A recache's own steps: only a complete copy comes to the rename. *)
LEMMA RecacheWhole ==
  ASSUME TypeInv, HasStorage, ~PeerEnabled, NEW r \in Reqs, RecacheStep(r),
         RecacheOk(r), WholeOk(r)
  PROVE  WholeOk(r)'
  <1> DEFINE q == req[r]
  <1>a. req \in Requests /\ caching \in Files
      BY DEF TypeInv, TypeOK, Requests, Files
  <1>b. q \in ActiveReq /\ q.pc \in RecacheSteps \cup {"openRemote"}
      BY RecacheMoves
  <1>c. q.node \in Nodes /\ q.id \in Ids /\ q.pc \notin {"p2p", "copy"}
      BY <1>b DEF ActiveReq, RecacheOk, RecacheSteps
  <1>d. \A p : Become(r, p) => req'[r] = p
      BY <1>a DEF Become, Requests
  <1>e. ASSUME req'[r].pc \notin {"download", "rename"} PROVE WholeOk(r)'
      BY <1>e DEF WholeOk
  <1>f. NextAttempt(q).pc \in {"create", "remove"}
    <2>1. CASE HasStorage /\ q.tries > 0
      <3> DEFINE c == Closed(q, "create")
      <3>1. c \in ActiveReq /\ c.pc = "create"
          BY <1>b, StepType DEF RecacheSteps, Closed, ActiveReq
      <3> HIDE DEF c
      <3>2. [c EXCEPT !.pass = 2, !.tries = @ - 1].pc = "create"
          BY <3>1 DEF ActiveReq
      <3> QED BY <2>1, <3>2 DEF NextAttempt, c
    <2>2. CASE ~(HasStorage /\ q.tries > 0)
        BY <1>b, <2>2 DEF NextAttempt, Closed, ActiveReq
    <2> QED BY <2>1, <2>2
  <1>1. CASE BackgroundRecache(r)
    <2>1. q.pc = "openRemote" /\ \/ req'[r] = [q EXCEPT !.pc = "create", !.pass = 1, !.tries = Tries]
                                 \/ req'[r] = IdleReq
        BY <1>1, <1>d DEF BackgroundRecache
    <2>2. [q EXCEPT !.pc = "create", !.pass = 1, !.tries = Tries].pc = "create"
        BY <1>b DEF ActiveReq
    <2>3. IdleReq.pc = "idle"
        BY DEF IdleReq
    <2>4. req'[r].pc = "create" \/ req'[r].pc = "idle"
        BY <2>1, <2>2, <2>3
    <2> QED BY <1>e, <2>4
  <1>2. CASE StartDownloadToCache(r)
    <2>1. CreateCaching(r, "download", "whole")
        BY <1>2 DEF StartDownloadToCache
    <2>2. Truncated(q.node, q.id, "caching") \in Requests
        BY <1>a, <1>c, MovedType
    <2>3. req'[r] = [q EXCEPT !.pc = "download", !.file = "caching", !.sole = TRUE, !.src = "whole"]
        BY <2>1, <2>2 DEF CreateCaching, Requests
    <2> QED BY <1>b, <2>3 DEF ActiveReq, WholeOk, Copying
  <1>3. CASE FinishWrite(r)
    <2>1. q.pc = "download" /\ Copying(q)
        BY <1>3, <1>c DEF FinishWrite, WholeOk
    <2>2. caching' = Put(caching, q.node, q.id, "whole")
        BY <1>3, <2>1 DEF FinishWrite, Written, Copying
    <2>3. req'[r] = Closed(q, "rename")
        BY <1>3, <1>d DEF FinishWrite
    <2>4. req'[r].node = q.node /\ req'[r].id = q.id /\ req'[r].pc = "rename"
        BY <1>b, <2>3 DEF Closed, ActiveReq
    <2>5. caching'[q.node][q.id] = "whole"
      <3>1. "whole" \in Content
          BY DEF Content
      <3> QED BY <1>a, <1>c, <2>2, <3>1, PutType
    <2> QED BY <2>4, <2>5 DEF WholeOk
  <1>4. CASE DownloadFails(r)
    <2>1. req'[r] = NextAttempt(q)
        BY <1>4, <1>d DEF DownloadFails
    <2> QED BY <1>e, <1>f, <2>1
  <1>5. CASE CopyFromPeer(r) \/ NoPeerHasFile(r) \/ CopyFails(r)
      BY <1>5, <1>c DEF CopyFromPeer, NoPeerHasFile, CopyFails
  <1>6. CASE RenameCaching(r)
    <2>1. CASE caching[q.node][q.id] = "absent"
      <3>1. req'[r] = At(q, "remove")
          BY <1>6, <1>d, <2>1 DEF RenameCaching
      <3>2. req'[r].pc = "remove"
          BY <1>b, <3>1 DEF At, ActiveReq
      <3> QED BY <1>e, <3>2
    <2>2. CASE caching[q.node][q.id] # "absent"
      <3>1. PICK t \in Requests : t = Renamed(q.node, q.id)
          BY <1>a, <1>c, MovedType
      <3>2. req'[r] = Closed(t[r], "remove")
          BY <1>6, <2>2, <3>1 DEF RenameCaching, Requests
      <3>3. t[r].pc = q.pc
          BY <1>a, <1>c, <3>1, MovedSame DEF SameStep
      <3>4. t[r] \in ActiveReq
          BY <1>b, <3>3 DEF Requests, IdleReq, RecacheSteps
      <3>5. req'[r].pc = "remove"
          BY <3>2, <3>4 DEF Closed, ActiveReq
      <3> QED BY <1>e, <3>5
    <2> QED BY <2>1, <2>2
  <1>7. CASE RemoveCaching(r)
    <2>1. Unlinked(q.node, q.id, "caching") \in Requests
        BY <1>a, <1>c, MovedType
    <2>2. req'[r] = IdleReq
        BY <1>7, <2>1 DEF RemoveCaching, Requests
    <2> QED BY <1>e, <2>2 DEF IdleReq
  <1> QED BY <1>1, <1>2, <1>3, <1>4, <1>5, <1>6, <1>7 DEF RecacheStep

LEMMA WholeNext ==
  ASSUME HasStorage, ~PeerEnabled
  PROVE  TypeInv /\ RecacheInv /\ OneRecache /\ WholeInv /\ [Next]_vars => WholeInv'
  <1> SUFFICES ASSUME TypeInv, RecacheInv, OneRecache, WholeInv, [Next]_vars,
                      NEW s \in Reqs
               PROVE  WholeOk(s)'
      BY DEF WholeInv
  <1>0. WholeOk(s) /\ RecacheOk(s) /\ IdleReq.pc = "idle"
      BY DEF WholeInv, RecacheInv, IdleReq
  <1>1. ASSUME SameCopy(req'[s], req[s]),
               Recaching(s) => caching'[req[s].node][req[s].id] = caching[req[s].node][req[s].id]
        PROVE  WholeOk(s)'
      BY <1>0, <1>1 DEF WholeOk, SameCopy, SameFile, Recaching, RecacheSteps
  <1>2. CASE \/ UploadStep \/ (\E i \in Ids : Age(i))
             \/ (\E i \in Ids, w \in Routines : WritebackStep(i, w))
             \/ PurgeStep \/ NodeStep \/ UNCHANGED vars
    <2>1. CASE req'[s] = IdleReq
        BY <1>0, <2>1 DEF WholeOk
    <2>2. CASE req'[s] # IdleReq
        BY <1>1, <1>2, <2>2, OtherCopies
    <2> QED BY <2>1, <2>2
  <1>3. ASSUME NEW r \in Reqs, DownloadStep(r) PROVE WholeOk(s)'
    <2>1. CASE s = r
        BY <1>3, <2>1, DownloadLooks DEF WholeOk, Recaching, RecacheSteps
    <2>2. CASE s # r
        BY <1>1, <1>3, <2>2, DownloadLooks, DownloadMoves DEF SameCopy, SameFile
    <2> QED BY <2>1, <2>2
  <1>4. ASSUME NEW r \in Reqs, RecacheStep(r) PROVE WholeOk(s)'
    <2>1. CASE s = r
        BY <1>0, <1>4, <2>1, RecacheWhole
    <2>2. CASE s # r /\ ~Recaching(s)
      <3>1. req'[s].pc = req[s].pc
          BY <1>4, <2>2, RecacheMoves DEF SameLook, SameStep
      <3> QED BY <2>2, <3>1 DEF WholeOk, Recaching, RecacheSteps
    <2>3. CASE s # r /\ Recaching(s)
      <3>1. ~SameFile(req[s], req[r]) \/ req[r].pc = "openRemote"
        <4>1. req[r].pc \in RecacheSteps \cup {"openRemote"}
            BY <1>4, RecacheMoves
        <4> QED BY <2>3, <4>1 DEF OneRecache, Recaching
      <3>2. /\ req'[s] = req[s]
            /\ Recaching(s) => caching'[req[s].node][req[s].id] = caching[req[s].node][req[s].id]
          BY <1>4, <2>3, <3>1, RecacheCopies
      <3> QED BY <1>1, <3>2 DEF SameCopy, SameFile
    <2> QED BY <2>1, <2>2, <2>3
  <1> QED BY <1>2, <1>3, <1>4 DEF Next

(* Of the steps that take an i.caching away, only the rename keeps it. *)
LEMMA RenamesWhole ==
  ASSUME HasStorage, ~PeerEnabled, TypeInv, RecacheInv, WholeInv, [Next]_vars,
         NEW n \in Nodes, NEW i \in Ids,
         caching[n][i] # "absent", caching'[n][i] = "absent",
         cached'[n][i] # cached[n][i], life'[n] # "gone"
  PROVE  cached'[n][i] = "whole"
  <1>a. caching \in Files /\ cached \in Files
      BY DEF TypeInv, TypeOK, Files
  <1>1. ~UNCHANGED caching /\ ~UNCHANGED cached
      OBVIOUS
  <1>2. PICK r \in Reqs : RecacheStep(r)
    <2>1. ~(UploadStep \/ (\E j \in Ids : Age(j)) \/ (\E r \in Reqs : DownloadStep(r)) \/ UNCHANGED vars)
        BY <1>1 DEF UploadStep, BeginUpload, FinishReceive, FailReceive, Abort, Commit,
           ReturnEarly, Respond, Age, vars, disk, DownloadStep, StartDownload, LookUploaded,
           LookCached, AskPeer, PeerError, LookStorage, StorageError, Stall, FinishDownload,
           OnlyReq
    <2>2. ~(\E j \in Ids, w \in Routines : WritebackStep(j, w))
        BY <1>1 DEF WritebackStep, OpenWriteback, Store, StoreFails, RenameUploaded, disk
    <2>3. ~PurgeStep
        BY <1>1 DEF PurgeStep, PurgeCached, EmptyCached, PurgeGarbage
    <2>4. ~NodeStep
      <3> SUFFICES ASSUME NEW m \in Nodes, Terminate(m) PROVE FALSE
          BY <1>1 DEF NodeStep, Crash, ReadyToTerminate, disk
      <3>1. caching'[n] = IF n = m THEN NoFiles[n] ELSE caching[n]
          BY <1>a DEF Terminate, Files
      <3>2. life'[m] = "gone"
          BY DEF Terminate, TypeInv, TypeOK
      <3> QED BY <3>1, <3>2
    <2> QED BY <2>1, <2>2, <2>3, <2>4 DEF Next
  <1> DEFINE q == req[r]
  <1>b. /\ q.node \in Nodes /\ q.id \in Ids /\ q.pc \notin {"p2p", "copy"}
        /\ WholeOk(r) /\ caching[q.node][q.id] \in Content
    <2>1. q \in ActiveReq /\ q.pc \in RecacheSteps \cup {"openRemote"} /\ RecacheOk(r) /\ WholeOk(r)
        BY <1>2, RecacheMoves DEF RecacheInv, WholeInv
    <2> QED BY <1>a, <2>1 DEF ActiveReq, RecacheOk, RecacheSteps, Files
  <1>3. RenameCaching(r)
    <2>1. ~FinishWrite(r)
      <3> SUFFICES ASSUME FinishWrite(r) PROVE FALSE
          OBVIOUS
      <3>1. q.pc = "download" /\ q.file = "caching"
          BY <1>b DEF FinishWrite, WholeOk, Copying
      <3> QED BY <1>1, <3>1 DEF FinishWrite, Written
    <2> QED BY <1>1, <1>2, <2>1 DEF RecacheStep, BackgroundRecache, StartDownloadToCache,
           DownloadFails, CopyFromPeer, NoPeerHasFile, CopyFails, RemoveCaching
  <1>4. /\ q.pc = "rename"
        /\ cached' = Put(cached, q.node, q.id, caching[q.node][q.id])
      BY <1>1, <1>3 DEF RenameCaching
  <1>5. cached'[n][i] = IF n = q.node /\ i = q.id THEN "whole" ELSE cached[n][i]
    <2>1. caching[q.node][q.id] = "whole"
        BY <1>4, <1>b DEF WholeOk
    <2> QED BY <1>4, <1>a, <1>b, <2>1, PutType
  <1> QED BY <1>5

(***************************************************************************)
(* What Recache renames to i.cached is the whole ciphertext, whichever of  *)
(* its downloads fail and whatever crashes, purges and writebacks do       *)
(* meanwhile, as long as nodes do not copy from each other and no two      *)
(* requests recache one file into one directory at the same time (Recache).*)
(* A peer that has nothing breaks it (ViolWhole.cfg), and so does the gap  *)
(* between BackgroundRecache's look at i.caching and its creation.         *)
(***************************************************************************)
THEOREM RecachedFilesAreWhole ==
  ASSUME HasStorage, ~PeerEnabled
  PROVE  Spec /\ []OneRecache => RecachedWhole
  <1> DEFINE A == \A n \in Nodes, i \in Ids :
                    /\ caching[n][i] # "absent" /\ caching'[n][i] = "absent"
                    /\ cached'[n][i] # cached[n][i]
                    /\ life'[n] # "gone"
                    => cached'[n][i] = "whole"
  <1>1. Init => RecacheInv /\ WholeInv
      BY DEF Init, NoFiles, IdleReq, RecacheInv, RecacheOk, CachedIsStored, WholeInv, WholeOk
  <1>2. TypeInv /\ Safe /\ RecacheInv /\ [Next]_vars => RecacheInv'
      BY RecacheNext
  <1>3. TypeInv /\ RecacheInv /\ OneRecache /\ WholeInv /\ [Next]_vars => WholeInv'
      BY WholeNext
  <1>4. TypeInv /\ RecacheInv /\ WholeInv /\ [Next]_vars => [A]_vars
      BY RenamesWhole
  <1> QED BY <1>1, <1>2, <1>3, <1>4, TypeInit, TypeNext, SafeInit, SafeNext, PTL
          DEF Spec, RecachedWhole
================================================================================
