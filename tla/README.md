# Object Drive server: TLA+ specifications

Object Drive stores objects: metadata rows in a MySQL database, and encrypted
content ("ciphertext") in a bucket, PermanentStorage, in front of which every
server node keeps a cache directory. Nodes find each other and the authorization
service (AAC) through ZooKeeper. This directory models the parts where
concurrency, failure or a chain of small rules decides what users get:

| Module | Subject |
|---|---|
| `CiphertextCache` | content between the first byte of an upload and every later download, on nodes that crash and are scaled in |
| `ObjectStore`, `Revisions` | concurrent creates, updates, moves, deletes, restores and expunges of the rows, and the atomic store they implement |
| `Sharing` | permissions, the share of the ACM and the requests that change them, two at a time |
| `AuthorizationCache` | which ACMs a user is associated with: placeholder, builds on several nodes, lost builds |
| `Listings` | pages of every listing, and the loops that change what they page through |
| `Streaming` | byte ranges in counter mode, revisions, zip archives |
| `Discovery` | ZooKeeper connections, watches, announcements, the AAC client, start and stop |
| `Gateway`, `Client` | caller, whitelist, routes, paths of names; the calls of the client library |

`MC*.tla` and the `.cfg` files are the instances TLC checks, `*Proofs.tla` the
proofs, `PROJECT.json` maps every definition to its lines of code and lists
components, hazards, runs and mutants.

## Inventory

| Component | State | Operations | Interacts with | Modelled in |
|---|---|---|---|---|
| ciphertext cache (`ciphertext/cache.go`, `interface.go`, `s3.go`) | files `.uploading`, `.uploaded`, `.caching`, `.cached`, `.orphaned`; PermanentStorage | Writeback, background drain, BackgroundRecache, Recache, CountUploaded, masterKeyCheck | uploads, downloads, purge, autoscaling | `CiphertextCache`, but masterKeyCheck |
| cache purge (`cachepurge.go`) | the same files | walk and removal by state, age, disk usage | cache | `CiphertextCache` |
| download (`puller.go`, `ciphertext.go`, `server/ciphertext.go`) | one Puller per request, peer map | NewPuller, More, getFileHandle, UseLocalFile, useP2PFile | cache, peers | `CiphertextCache` |
| upload (`uploadDownload.go`, `createObject.go`, `updateObjectStream.go`) | one handler per request | receive, commit, abort, answer, start the drain | cache, database | `CiphertextCache` |
| autoscaling (`autoscale/signals.go`) | lifecycle message | prepareForTermination | cache | `CiphertextCache`: count and termination |
| object tree (`dao/*Object.go`, `dao.Logic.go`, the object triggers) | rows: parent, trash flags, change count and token | create, update, move, delete, expunge, undelete | every handler | `ObjectStore` |
| sharing, owners, copies (`addObjectShare.go`, `removeObjectShare.go`, `changeOwner.go`, `copyObject.go`, `restoreVersion.go`, `auth/aacoff.go`, `mapping/ODPermissionToPermission.go`) | permission rows with key and MAC, share of the ACM | share, unshare, update, change owner, restore, copy | object tree, AAC | `Sharing` |
| authorization object cache (`UserCache.go`, `dao.UserAOCache.go`), ACM association (`dao.ObjectAcm.go`) | tracking record and parts per user, links user to ACM, copies in memory | placeholder, builds with timeouts, association of new ACMs | all nodes through the database | `AuthorizationCache` |
| queries, listings, recursive updates, emptying the trash (`dao.Search*.go`, `dao.Get*.go`, `paging.go`, `expungeDeleted.go`) | none, or the page of a loop | pages, filters, loops | object tree | `Listings` |
| streams and zips (`getObjectStream.go`, `getObjectStreamForRevision.go`, `getZip.go`, `crypto.go`) | one request | ranges, counters, headers, archive | download, object tree | `Streaming` |
| discovery, start and stop (`zookeeper/service.go`, `start.go`) | shared ZKState, AAC client | track, recover, announce, stop | ZooKeeper, AAC | `Discovery` |
| HTTP server (`AppServer.go`, `Caller.go`, `getObjectByPath.go`), client (`client.go`) | none | identity, whitelist, routes, paths | every handler | `Gateway`, `Client` |
| bulk operations | none | loops over single operations | object tree | routes and single operations |
| Kafka, audit, CloudWatch, configuration, schema and tools | | | | no |

What is hard here: nothing on a node locks a cached file, the rename of a file
is the only synchronisation; a crash leaves the directory as it is; a peer may
be asked for a file that it is about to rename; the database runs at
READ-COMMITTED, so what a transaction checked may have changed when it writes;
access rules are kept twice, as rows and in the ACM, and each request changes
both; nodes build a user's association independently of each other; goroutines
share and replace one ZooKeeper state; loops page through what they change; and
several errors are logged or overwritten rather than returned. `PROJECT.json`
lists these hazards, each at its line, with the properties that would catch them.

## CiphertextCache

A file id (`FileId`, the content connector) names one upload, because
`CreateRandomName` gives each a fresh one. Each extension is a variable, a
function of node and id, whose value says if the file is absent, partial or
whole; the bytes, the byte ranges and the encryption are the subject of `Streaming`.

| Actions | Code |
|---|---|
| `BeginUpload`, `FinishReceive`, `FailReceive` | `beginUploadTimed` |
| `Commit`, `Abort`, `ReturnEarly`, `Respond` | `createObject`, `updateObjectStream`, `removeOrphanedFile`, `dao.CreateObject` |
| `OpenWriteback`, `Store`, `StoreFails`, `RenameUploaded`, `Age` | `Writeback`, run by the handler's goroutine and by `DrainUploadedFilesToSafetyRaw` |
| `PurgeCached`, `EmptyCached`, `PurgeGarbage` | `filePurgeVisit`, `attemptToEmptyFile` |
| `StartDownload`, `LookUploaded`, `LookCached`, `AskPeer`, `PeerError`, `LookStorage`, `StorageError`, `Stall`, `FinishDownload` | `getAndStreamFile`, `NewPuller`, `More`, `getFileHandle`, `UseLocalFile`, `useP2PFile` |
| `BackgroundRecache` ... `RemoveCaching` | `BackgroundRecache`, `Recache`, `doDownloadFromPermanentStorage` |
| `Crash`, `ReadyToTerminate`, `Terminate` | restart of the process; `prepareForTermination` |

Every call of the operating system that another goroutine can come between is a
step of its own: open, upload and rename of a writeback, the two lookups of
`UseLocalFile`, the test and the creation of `.caching`. An open file keeps its
inode when its name is removed, renamed or truncated (`Unlinked`, `Renamed`,
`Truncated`), which matters when two recaches write the same file. A fault (I/O
or network error, crash) can happen at every step where the code handles one.

Abstractions: the purge may take a file of the right state at any time,
whatever the thresholds and the age; a file untouched for a week is one that no
live request writes. Time is `fresh`, the ids whose `.uploaded` file is too
young for the background drain. A terminated node's disk is gone. The forced
exit of `prepareForTermination` after 30 tries or two minutes is a `Crash`: the
lifecycle hook that takes the disk later is outside of the program.

## ObjectStore

A row has its place in the tree, its trash flags and its change count, which
stands for the change token (a hash of it). The tree starts as any forest of the
existing objects. A request is a handler's read and checks (`Begin*`) followed
by the statements of its transaction, each one step:

| Actions | Code |
|---|---|
| `BeginCreate` ... `BeginUndelete` | the handlers up to their call of the DAO |
| `Walk` | `IsParentIDADescendent`, one row per step |
| `ReadForUpdate`, `UpdateRow`, `InsertRow`, `ReferToParent` | `updateObjectInTransaction`, `createObjectInTransaction`, triggers `tu_object` and `ti_object`, the foreign key |
| `ReadForDelete`, `MarkDeleted` | `deleteObjectInTransaction`, `expungeObjectInTransaction` |
| `MarkUndeleted` | `undeleteObjectInTransaction`, `undeleteAncestorChildren` |
| `Commit`, `CommitFails`, `LockFails`, `Answer` | ends of the transactions, the retry loops, the answer |

The database is external and modelled as it is configured
(`docker/metadatadb/my.cnf`: READ-COMMITTED): a SELECT sees committed rows and
the transaction's own writes (`Visible`), an UPDATE waits for the row
(`CanWrite`) and works on its latest version, a new reference to a parent takes
a shared lock of the parent's row (`CanRefer`), locks go with the transaction
(`Release`). A waiting statement may be told of a deadlock or a timeout.

Abstractions: the listing of children fits on one page and does not fail (`Listings` has
the pages and the dropped error). The mark of an object
and the listing of its children are one step: while the mark's lock is held no
child can be attached (the foreign key waits), and what other transactions do
to other rows in between could as well be done before the mark. A delete visits the
objects below in any order, which includes the code's depth first. Every object
has a permission row, so the join of the restore finds it. A change of owner is
a move to the root. An update throttled by `updateTimeWindowMS` is an update that
starts later. Permissions and ACMs are the subject of `Sharing`; properties are not
part of a row.

`Revisions.tla` is what the store promises its callers, without reads, locks,
waits and retries: the rows change one request at a time and all at once, by the
creation of one object, the next revision of one object that is not deleted, the
removal of an object with others because of it, or its return with others.
`RevisionsAtomic` says that `ObjectStore` implements it (`INSTANCE Revisions WITH`,
the rows map to themselves): no interleaving of transactions skips, repeats or
halves a revision. `Restore` promises less than one would like, because the code
does: a child looked up as gone with its parent comes back even if it was deleted
for itself before its own UPDATE, and the object named is revised twice when a
cycle of parents makes it a child of its own subtree.

## Sharing

One object, its permission rows and the share of its ACM (a set of grantees,
empty for everyone), one right `U` for create, update and delete, which this code
treats alike. A request reads the object and makes its plan (`AddObjectShare`,
`RemoveObjectShare`, `UpdateObject`, `ChangeOwner`, `BulkOwnership`,
`RestoreVersion`: the rows to delete, the rows to add, the share), then
`BeginUpdate` compares the change token and `WriteObject` runs the UPDATE and the
permission statements. If another request wrote the row in between, no row is
affected and the permissions are changed all the same (`missed`), as in
`dao.UpdateObject`. `MapPermissionToODPermissions` and
`MapODPermissionsToPermission` are the two directions of the API's permission;
`Resend` sends back what was shown. The grantees of a share come in any order, as
Go's maps give them; the shares of one request are applied one after another, and
`Left(i)` of `AddObjectShare` is what those before the i-th have left.
`SharingAssumption` says what requests may contain: rights and grantees of the
model, owners that are users or groups. The classification of an ACM is left out.

## AuthorizationCache

One user, requests on any node. A snippet definition is a set of fields and its
own hash; an ACM maps keys to values. `Check`, `Recheck`, `SetUserAOCache`,
`DeleteParts`, `InsertParts`, `GetAttributes` and `Save` are the steps of
`CheckUserAOCache`; `BuildRead`, `BuildWrite` and `BuildFinish` those of
`RebuildUserACMCache`, in the request or in the background; `SaveAcm`,
`AssociateAuthor`, `FindUsers` and `AssociateUser` the association of a new ACM.
Statements that gave up after their retries (`ExecFails`) go on or end the request,
as their callers do. Where the code does not look at an error, neither does the model:
a commit that fails leaves the rows as they were and the request or the build goes on as
after one that worked (`SetUserAOCache`, `BuildWrite`); a build that cannot begin a
transaction calls `Rollback` on none and panics (`BuildPanics`). Two history variables say
what the association can be expected to hold: `covered`, the ACMs that the build which
wrote last had looked at, and `lost`, whether a full build was lost (its commit failed, or
it was in the background and failed or went with its node) since one was written.
`Tick` ages a placeholder past the timeout, `Expire` drops
the copy in memory, `Crash` ends a node's requests and builds. `PartsAgree` says
of the definitions that rows left by several of them admit no new ACM that none of
them admits; `InstanceAgrees` has TLC evaluate it for the instance.

## Listings

One of four loops runs while other users change rows: a client's listing, the walk
of `updateObjectRecursive` and `changeOwnerRecursive`, `expungeDeleted`, and the
loop over children of `DeleteObject`. `Page` is the query with its conditions
(`Where`), filters before (`BuildFilter`) and after the count (`PostProcess`),
offset and page count. The order built by the code has nothing that breaks a tie, so each
page is cut from any of the `Arrangements` that the sort field allows: by name, rows of one
name come in either order; dates are taken to differ. Every listing the server answers with
loads properties and filters by them, that of a group too (`listGroupObjects.go:59`
asks `GetRootObjectsWithPropertiesByGroup`). `order` is the order of modification, which an
update changes under the loop: `WalkReaches` is about updates, which push the other
rows back, and leaves out rows that are removed, which pull them forward past a
page already read. `TrashEmptied` promises an empty trash in batches of more than one object;
a batch of one ends after its first. Errors are
those of the code: the one of the trash's listing is overwritten and that of a batch's commit
not looked at (`EmptyBatch`), others roll the batch back (`EmptyFails`); the one of
a page of children is dropped (`RemoveUnlisted`), whatever the page held by then. Whether the transaction of a delete is
committed, which nobody looks at either, is `CommitFails` of `ObjectStore`. An error
of the walk's own, which ends it or passes a row over, is left out: `WalkReaches`
promises nothing then.

## Streaming

A byte of ciphertext is its position with the counter and the place in the block
it was encrypted with; a byte decrypted with another counter is `Garbage`, so that
`AdjustIV` and the cut of the range are checked byte by byte. Blocks, bytes and
counters are small (two bytes a block, three values a byte, four bytes a counter)
so that contents cross all carries. `StreamingAssumption` has a revision for every
object, ranges without negative numbers (`extractByteRange` splits at the `-`), and
for every revision, the one that is stored meanwhile too, a counter as `createIV` makes
it: `IVLen` bytes, of which the last `Zeros` are zero, and no more blocks than those
count (`Stored`). `AddByte` is one round of the loop of `adjustIV`, which goes through
the bytes once and never looks back at a carry out of an earlier one. `StopLeft` is what
it leaves of the end of the range: -1, the mark of a range without an end, when the range
stops on the byte before the block it starts in. A zip fetches, checks and writes its objects
one at a time while other requests store revisions, trash and withdraw; any error of AAC
is taken for "no access" (`ZipFetch`).

## Discovery

Each goroutine that uses the shared ZKState is a process: the trackers of AAC and
of the other nodes, two keepalive tickers, `Start`, `ServiceStop`. A request to
ZooKeeper is a step, so that outages, expired sessions, `ServiceStop` and another tracker's
recovery come between. An announcement takes up to five: `Test` of `IsTerminated` and of the
remembered announcement, then `Exists` and `Create` of the protocol's znode and of the
node's own, on the connection in use when `Exists` is asked. `Register` is
`*z = *zNew`, which replaces announcements and `IsTerminated` too. That copy, which
goroutines without a lock may read half done, is one step, and so are the two fields
that `Test` reads. ZooKeeper and AAC are external: they fail and come back.
`EarlyStop` lets `ServiceStop` come before the node serves; no property looks there, so
the run leaves it out, and the theorems hold with and without it.

## Gateway and Client

`Client` has the method and the URI of every call of the client library, as
sequences of segments. `Gateway` takes an arrival through `CallerFromRequest`, the
whitelist, the cases of `ServeHTTP` in their order, searched for anywhere in the
URI as the unanchored expressions are, and `getObjectByPath`. `MCGateway` has the
library's calls and those `docs/rest.md` documents, each with the handler that is
meant; the names in a call (of a group, an owner, an object, a search phrase) include every
word of the routes. `Taken` says which of them an earlier case takes: for each
kind of name, the ones at the end of a URI (`Ends`) and the ones before others (`Inside`).
`ReachesHandler` and `PathFindsObject` are exact: a request reaches what it is
meant for if, and only if, none of its names is taken. Names of 32, 52 or 64 hexadecimal digits,
which a route takes for an identifier, are not among the names. `ActsForSubject` compares
a subject's two spellings only where a common name stands at an end: a name without one
is reversed twice on its way through a header, once through a certificate, and is two
callers. A user named by separators only is not empty for the code (`Trim`), so a
listed system acts for that name and not for itself. The read only flag is the one the request
finds when it is tested.

## Runs

All runs are small instances chosen so that each hazard can happen. `MaxReads`,
`MaxOps`, `MaxRequests`, `MaxChanges`, `MaxOthers` and `MaxFaults` bound requests,
changes of others and faults, `Tries` the retries (the code has 4, 20 and
`DeadlockRetryCounter`); one retry has the loop taken and left both ways. Deadlock
is not checked: what may happen is bounded, so a run comes to rest with all work
done.

| Run | Instance | Shows |
|---|---|---|
| `cache_durable` | 2 nodes, 1 upload, 1 download at a time, 2 reads, 2 faults, peers, scale-in of both nodes | `TypeOK`, `AckedDurable`, `NeverStalls`, `UploadedLeavesSafely`: no interleaving of aborts, writebacks, purges, recaches, crashes and terminations loses acknowledged content, and a download that met no fault never stalls |
| `cache_live` | 2 nodes, 1 download at a time, 3 faults, peers off, fair drains | `CachedIsStored`, `RecachedWhole`, `EventuallyStored` |
| `store_moves` | 3 objects in any forest, a fourth to create, 2 requests at a time, 3 in all, one of the two moves, 1 fault | `TypeOK`, `Acyclic`, `UpdatesAreCurrent`, `RevisionsAtomic` |
| `store_trash` | the same objects, 4 requests, no moves | `RestoredWithParent` |
| `sharing` | 2 users, a group both are in, everyone; 2 requests at a time, 3 in all; private, public and group owned objects | `AcmFollowsPermissions`, `OwnerControls`, `KeysUsable`, `SharesWhatIsHeld`, `ShareTakesEffect`, `ResendChangesNothing` |
| `authorization` | 2 nodes with a request each that comes again and again, 4 ACMs of 2 keys, a writer of a new ACM, 1 fault | `TypeOK`, `LinksSound`, `DoneIsComplete`, `AssociationRecovers` |
| `listings` | 3 objects, pages of 1 and 2, 8 kinds of rows, 8 listings, 2 changes of others, listings and commits that fail | `PagesExact`, `WalkReaches`, `TrashEmptied`, `ChildrenGone`, `LoopsEnd` |
| `streaming` | 3 objects, contents up to 18 bytes, 13 ranges, two that stop before they start, a download or a zip with 2 changes of others | `RangeExact`, `LengthHonest`, `ZipNamesDistinct`, `ZipComplete`, `DownloadsEnd` |
| `discovery` | 2 trackers, 2 AAC instances, 1 outage, expiry or death | `ConnectionUsable`, `StopIsFinal`, `Reannounced`, `AACRecovers` |
| `gateway` | every call of the library and of the documentation, headers of every kind, small trees of names, names from the words of the routes | `ReachesHandler`, `PathFindsObject`, `ReadOnlyChangesNothing`, `ActsForSubject` |
| `recache_empty` | violation of `RecachedWhole` | with peers on, an incomplete file is installed as `.cached` |
| `move_cycle` | violation of `Acyclic` | two concurrent moves make a cycle, on which `GetParents` does not end |

Why these sizes are enough: files of different ids never meet (the id is in every
name), and what a second peer could do the first can do on another visit. Two
objects make a cycle, three a chain with a middle; a race needs two requests, and
what was done before it at most two more. Three rights, two users, a group and
everyone tell every rule of the permissions apart. Three rows on pages of one and
two give full, last and empty pages and a page that shifts under a loop. A second
tracker is what meets the first one's recovery; `MaxConns` is one more than the
trackers, because a replaced state remembers no announcement that could fail.

What a property leaves out, and why: `AckedDurable` excludes what was answered
after the node had been counted empty, `NeverStalls` content whose upload was
aborted after its commit. `RecachedWhole` and `CachedIsStored` are checked with
peers off and one download at a time; a node that is disposed of takes its files, whole
or not. `Acyclic` passes with one mover,
`RestoredWithParent` without moves. `AcmFollowsPermissions` and `OwnerControls` hold
as long as no update missed its row. `DoneIsComplete` does not count the build of
the root that a full build is to follow, nor a full build that was lost without a
trace (`lost`), and promises the ACMs that the last build to write has looked at
(`covered`): the link of an ACM that was committed after that build had read, which its
write deletes, and one whose own statements failed are promised by nothing.
`AssociationRecovers` excepts what is lost and a stuck placeholder (`Stuck`), and is
checked for one new definition. `PagesExact` promises
once exactly what no other row ties with. `TrashEmptied` and `ChildrenGone` except a page
that could not be listed, and `TrashEmptied` a commit that failed (`lost` of the batch);
`ChildrenGone` is about children that may all be deleted.
`StopIsFinal` is about who begins to announce after the stop; a goroutine that had
passed `Test` before may go on. `Reannounced` is about a node that still remembers its
announcement. `ZipComplete` excepts the objects AAC gave no answer about (`denied`);
`RangeExact` has the one kind of range that is taken for an open one (`Taken`).
`LengthHonest` is about ranges inside the content, and `StreamingAssumption` bounds
the content by what the zero bytes of a counter count. In each case the
excluded behaviour is one the code has; the next section says what TLC found.

Each property of a passing run has a mutant in the module, an operator with a
plausible bug (a dropped check, an ignored error, an inverted test) under which
TLC finds the property violated.

## Where the code and its texts disagree

Two are runs (`recache_empty`, `move_cycle`). TLC found these too, in the same models
with the exclusion above taken away:

* **A failed read back deletes committed content.** `dao.CreateObject` commits, reads the
  object back and returns that read's error as its own (`dao.CreateObject.go:100`);
  `createObject` then removes the uploaded file. `cache.go:70`: "the whole file should
  be available once the database object exists".
* **Two downloads recache one file at once.** The tests at the head of `Recache` ask
  `os.IsExist` of the error of a `Stat`, which is never so (`cache.go:437`, `444`), and the
  test of `BackgroundRecache` (`cache.go:414`) comes before the file is created. Without
  peers and without a fault, two requests write the same `.caching` file, the second
  truncates what the first has written, and the first to end renames it to `.cached`
  incomplete (`cache_live` with a second request). `cache.go:441`: "We are not supposed to
  be trying to get multiple copies of the same ciphertext into cache at same time".
* **An upload in flight is not counted.** `CountUploaded` sees no `.uploading` file;
  the upload completes, is answered and goes with the node (`signals.go:156`).
* **A missed update is a success.** An UPDATE that affects no row is logged
  (`dao.UpdateObject.go:214`) and the transaction goes on: the caller is told of
  success, and the permissions are changed while the ACM keeps what another request
  made of it. `addObjectShare.go` says of the call that it "handles permissions
  transactionally".
* **A child moved while its old parent is deleted** ends implicitly deleted under a
  parent that is not (`dao.DeleteObject.go:85` selects it by id alone) and can
  never be restored.
* **A lost build is not taken up again once the snippets changed**
  (`UserCache.go:160`): the age of a placeholder is looked at only if the hash is the
  same. The comment at `UserCache.go:99` promises a rebuild after a time.
* **A build that was not committed is done.** `RebuildUserACMCache` does not look at the error
  of `tx.Commit()` (`dao.UserAOCache.go:356`) and marks the association as built all
  the same; so does a build in the background whose error nobody reads. Until the
  snippets change nobody builds it again.
* **A build deletes a new link.** The ids are read before the transaction that deletes
  the other links: what the writer of a new ACM has associated in between goes
  (`dao.UserAOCache.go:344`).
* **A node that stops may be announced again.** A tracker or the keepalive ticker that read
  `IsTerminated` before `ServiceStop` set it (`service.go:386`) still creates
  the znode after `ServiceStop` has deleted it, and the node gets work while it drains.
* **A recovered node forgets its announcement** (`service.go:328`): the state that
  replaces the shared one has none to repeat, although the next line is meant
  to "re-announce again".
* **A trash that could not be listed is empty.** The error of the listing is overwritten
  (`dao.ExpungeDeletedByUser.go:56`) and a batch of none ends the loop with success ("If we
  deleted 0 objects this time, then we are clean"); a commit's error is not looked at
  (line 41), so a last batch that was rolled back is reported as expunged, and
  batches that never commit keep the loop going. `DeleteObject` and `ExpungeObject`
  drop the error of the children's listing in the same way.
* **A range that ends too early is open.** `bytes=20-15` asks for nothing; the shift by the
  blocks skipped makes its end -1 (`getObjectStream.go:228`), which `crypto.go:185` takes
  for none, and everything from byte 20 is sent.
* **A zip without an answer of AAC is complete.** `zipHasAccess` takes every error for "no
  access" (`getZip.go:232`), so a file is left out and nothing says so.
* **Names that are words of routes.** The routes are searched for anywhere in a URI: a file
  named `stats`, `userstats`, `objects` or `favicon.ico`, a folder named `static`, or
  something in a root folder named `groupobjects` cannot be reached by its path; a search
  for a word like `shares`, a group or an owner of such a name goes elsewhere. `MCGateway`
  has them all.
* **The last object of the last batch is not reported** when the trash is emptied: the
  page count is made before the total it is made from (`dao.ExpungeDeletedByUser.go:73`).

Read in the code while modelling, and left as remarks: when no transaction can be
begun, `Rollback` is called on a nil one (`dao.UserAOCache.go:331`), which in a build in the
background ends the process (`BuildPanics`, `Crash`); a copy has only the oldest
revision (`copyObject.go` asks for a page of size zero, which is one); a zip
does not look at the error of copying a file (`getZip.go:209`), and `postZip` uses the
answer of a failed rollup; a range that ends beyond the content announces too long
a length; the status goes out before the ciphertext is opened; every update adds
the ACM's readers as new rows; the timed out wait for a build leaves its
goroutine blocked on an unbuffered channel (`UserCache.go:249`,
`dao.UpdateObject.go:69`); `GetRevisionStream` of the client turns the change count into
a character (`client.go:403`); `listObjects` shadows an error and answers with an
empty list; a file at the root of a path that is named by its id is listed, not
streamed; a child can be created under a parent that is being deleted (the trigger
reads it without a lock), and a restore that waits for an expunge makes the
expunged object live again.

## Fairness

| Specification | Fairness | Because |
|---|---|---|
| `CiphertextCache!FairSpec` | weak, of `Age` and of each writeback's own steps | `DrainUploadedFilesToSafetyRaw` is an endless loop in every process, the handler's writeback a goroutine the scheduler does not forget |
| `AuthorizationCache!FairSpec` | weak, of each request, each build and `Tick` | their goroutines go on and time passes; that requests come is a premise of `AssociationRecovers`, not assumed |
| `Listings!Spec` | weak, of the server's loop | a request once begun is worked on |
| `Streaming!Spec` | weak, of opening and sending | `io.Copy` reads until the end or an error |
| `Discovery!Spec` | weak, of each goroutine (each tracker, `Start`, the two tickers) and of the return of ZooKeeper | endless loops and tickers; that AAC comes back is a premise of `AACRecovers` |

Faults are excluded by `MaxFaults` only. Nothing is assumed of clients, handlers,
purges and downloads of the cache. Reads are bounded by `MaxReads`: each read of a
`.uploaded` file touches it and postpones the background drain.

## Proofs

A theorem holds for every value of the constants that satisfies the module's
`ASSUME`: any sets of nodes, objects, requests, users and any bounds. Each
invariant below was checked with TLC on the instances of the runs before it was
proved. 32 of the 40 properties of the passing runs are theorems.

| Theorem | Statement | Hypotheses |
|---|---|---|
| `CiphertextCacheProofs!TypeCorrect` | `Spec => []TypeOK` | |
| `CiphertextCacheProofs!AcknowledgedIsDurable` | `Spec => []AckedDurable` | |
| `CiphertextCacheProofs!UploadedNeverDropped` | `Spec => UploadedLeavesSafely` | |
| `CiphertextCacheProofs!CleanDownloadNeverStalls` | `Spec => []NeverStalls` | |
| `CiphertextCacheProofs!CachedFilesAreStored` | `Spec => []CachedIsStored` | storage, no peers |
| `CiphertextCacheProofs!RecachedFilesAreWhole` | `Spec /\ []OneRecache => RecachedWhole` | storage, no peers |
| `ObjectStoreProofs!StoreTypeCorrect` | `Spec => []TypeOK` | |
| `ObjectStoreProofs!UpdateReplacesNamedRevision` | `Spec => UpdatesAreCurrent` | |
| `ObjectStoreProofs!StoreImplementsRevisions` | `Spec => RevisionsAtomic` | |
| `ObjectStoreProofs!OneMoverKeepsForest` | `Spec => []Acyclic` | at most one mover |
| `ObjectStoreProofs!TrashStaysRestorable` | `Spec => []RestoredWithParent` | no moves |
| `SharingProofs!PermissionsHaveKeys` | `Spec => []KeysUsable` | |
| `SharingProofs!AcmAlwaysFollows` | `Spec => []AcmFollowsPermissions` | |
| `SharingProofs!OwnerKeepsControl` | `Spec => []OwnerControls` | |
| `SharingProofs!NobodySharesMore` | `Spec => SharesWhatIsHeld` | |
| `SharingProofs!SharesTakeEffect` | `Spec => ShareTakesEffect` | |
| `SharingProofs!ResendIsHarmless` | `Spec => ResendChangesNothing` | |
| `AuthorizationCacheProofs!AuthorizationTypes` | `Spec => []TypeOK` | |
| `AuthorizationCacheProofs!BuiltIsComplete` | `Spec => []DoneIsComplete` | |
| `AuthorizationCacheProofs!AssociationIsSound` | `Spec => []LinksSound` | `PartsAgree` |
| `ListingsProofs!PagesCorrect` | `Spec => []PagesExact` | |
| `ListingsProofs!WalkCorrect` | `Spec => []WalkReaches` | |
| `ListingsProofs!EmptyCorrect` | `Spec => []TrashEmptied` | |
| `ListingsProofs!RemoveCorrect` | `Spec => []ChildrenGone` | |
| `GatewayProofs!CallerCorrect` | `Spec => []ActsForSubject` | |
| `GatewayProofs!ReadOnlyCorrect` | `Spec => []ReadOnlyChangesNothing` | |
| `DiscoveryProofs!ConnectionStaysUsable` | `Spec => []ConnectionUsable` | |
| `DiscoveryProofs!StoppedStaysStopped` | `Spec => StopIsFinal` | |
| `StreamingProofs!LengthAnnouncedIsSent` | `Spec => []LengthHonest` | |
| `StreamingProofs!BlocksAreCounted` | `Value(AdjustIV(rev.iv, start)) = Value(rev.iv) + start \div BlockSize` | `rev \in Stored`, `start` inside it |
| `StreamingProofs!RangesAreExact` | `Spec => []RangeExact` | |
| `StreamingProofs!ZipNamesNeverClash` | `Spec => []ZipNamesDistinct` | |
| `StreamingProofs!ZipsAreComplete` | `Spec => []ZipComplete` | |

The hypotheses are the ones of the runs, and each is needed. A copy from a peer may
be in a cache before the writeback has stored the content. Two movers make a
cycle (`move_cycle`). A move takes a child from under a parent that is being deleted,
which leaves it deleted because of a parent that is not. `DoneIsComplete` has its premises in itself: a full build that is lost without a trace
leaves a row that says "done", and two definitions that race write each
other's associations under the row of one of them. A failed statement can leave
the parts of several definitions mixed, and by such rows `AssociateUsersToNewACM` may
admit a user to an ACM that is valid under none of them: `PartsAgree` excludes that
by a condition on the definitions alone, which says nothing of the steps. Two
recaches of a file break `RecachedWhole` (see above) and so does a peer that has
nothing (`recache_empty`); `OneRecache` allows any number of requests, as long as no two
recache the same file into the same directory at the same time.

### The arguments

**Content is durable.** `AckedDurable` is not inductive. `Safe` adds that a running
handler's node is not gone and that what is acknowledged is done and committed
(`HandlerInv`, `RowsInv`: so nothing can abort it any more), that a `.uploaded` file
is whole and in its home's directory (`UploadedInv`), that a writeback about to
rename has stored the content (`StoredInv`), that what is committed is kept on a
node that is not gone (`KeptInv`), that a node counted empty holds nothing
acknowledged before the count (`CountedInv`), and, without PermanentStorage, that a
download on the node which has the content finds it there and so never recaches
over it (`LocalInv`). The rename of a writeback keeps `KeptInv` by `StoredInv` and
`UploadedInv`; the purge by its guard `HasStorage`; the termination of a node by
`CountedInv`.

**Downloads do not stall.** `SearchInv` follows a request through its passes: as long
as only its home has the content, in the `.uploaded` file, a second pass without a
fault has not missed the home, and it asks PermanentStorage only after every peer;
what has left the home by then is in PermanentStorage, from which nothing is removed.
So a third pass means that the content is lost. `RecacheInv` says that without peers a
request which recaches, and each `.caching` file, is of content in PermanentStorage,
also with several recaches of one file, whose renames replace each other's.

**What a recache installs is whole.** `WholeInv` says that a request which downloads writes
an `.caching` file of its own, still under that name and never truncated, and that one
about to rename finds it whole. The purge leaves the file of a running recache alone,
writebacks touch `.uploaded` and `.cached` only, and `OneRecache` excludes the steps of
other recaches. An attempt that fails goes back to the creation, which truncates, or
to the removal: no way leads from it to the rename. `RenamesWhole` goes through the
steps that take an `.caching` file away and finds that only the rename keeps it.

**Updates are current.** `StoreInv` says that an uncommitted row is a newer revision
of the committed one and belongs to an unfinished transaction (`LockOk`), that tokens
never run ahead of counts, and that an update which wrote holds its row while
the committed row still is the undeleted revision named by the token (`TokenOk`).
`CreateOk` and `TrashOk` say which rows exist. Nobody else can commit a row that is
locked, and counts only grow, so the committed row is the named one when the
update commits.

**The store implements `Revisions`.** `WorkOk` says what each transaction has written so
far in terms of the abstract operation it will be: every row it holds is what
`Create`, `Revise`, `Discard` or `Restore` makes of the committed row (`Written`), and
what is still to be visited is not yet written, but for the top of a restore
(`OrderOk`). A commit is then that operation, every other step a stutter.

**The tree stays a forest.** `TreeOk` adds what the walk to the root has met: a set of
existing objects, closed under parents up to the next row to be read, without the
object to be moved (`WalkOk`). Only a move changes the parent of an existing
object, so with one mover the set stays closed, and when it reaches the root
the new parent is not below the object. `TrashInv` says of a delete under way that
what it marks goes together with its parent, and of a restore that each child of a
row it brought back is on its list or brought back too: so no commit leaves a child
marked under a parent that is not deleted.

**Sharing.** `SharingInv` says that a plan made from the object as it still is, told by
the change token, fits it: written to it, the plan leaves the owner every right, rows
with keys, and a share that names its readers (`Fits`, `RequestOk`). Plans made
from older objects miss their row, and then only what does not depend on the
object is claimed: the key of each row, and that no row gives more than the sharer
held (`Modest`).

**An association that is done is complete.** `DoneInv` says that either everything
covered and valid is associated, or a full build was lost or is still to come (`Pending`), or
the row does not say "done" and no build is about to say so (`ClaimOk`); and that a
full build about to write has the ids of every valid ACM among those it has seen
(`BuildOk`). A write sets what is covered and what is linked in one transaction, a commit
that fails neither.

**An association is sound.** `SoundInv` adds to `LinksSound` that the parts are the rows of
some set of definitions, all of which the user had (`PartsMixed`: a request deletes them all
and inserts those of its own, a failed statement leaves out one or the other), that what
a build is about to write was valid when it was read (`BuildSound`), and that a writer
about to link its ACM has found it valid (`WriterSound`), which from mixed rows takes
`PartsAgree`.

**Pages.** A selection from a sequence (`Only`) is written as a function, so that
what it does to every sequence is proved by an induction stated for sets (`NatInd`,
`SeqInd`). Two pages of one listing may come from different arrangements. What they agree
on is how many rows sort before a row (`RankBefore`), which places a row without ties at the
same position in each of them (`RankSame`); so the pages read so far hold it exactly when
they have passed that position (`ListInv`), and a filter applied to each page loses nothing
although the page count was made before it (`PagesHoldAll`, `FiltersAsk`).

**Loops over what they change.** An update brings a row to the front and shifts only the
rows that were before it, by one (`FrontShifts`). So a row that the walk is still to
change is on the page in hand or on none of the pages before the next one (`WalkAhead`),
with the token it was listed with, since nobody touched it (`WalkTokens`). Where all
children may be deleted and each page could be listed, a page of `DeleteObject` takes its
rows out of the listing and the page number stays at one, so the last page is the rest
(`RemoveInv`). What a batch of the trash expunged was told, but by the last, whose page count
of zero means that it had one row at most (`EmptyInv`): also when a commit in between
failed, after which the next batch begins with the same rows.

**Callers and routes.** The case taken is one of those listed for the method, the read
only cases among them (`FirstIsACase`, `CasesRead`), and the walk along a path never leaves
the listings and the streaming of content (`PathLists`, an induction over the path). A
name with a part is trimmed and turned so that a common name at an end comes first; doing that twice,
or to the reversed name, gives the same name (`NormalizedParts`, `NormalizedTwice`); one of
separators only has no part and stays as it is, which is not empty.

**Connections.** Connections are numbered as they are made, the one in use is the
newest, and a recovery discards an older one (`ConnInv`); every armed watch is on
an open one (`WatchInv`). After `ServiceStop` the state is terminated, or was replaced
by one that remembers no announcement, and `Start`'s own is made (`StopInv`), so `Test` lets
nobody through; who is past it has an announcement of its own under way, which `Out`
excludes. An announcement belongs to a stage that announces (`OnInv`, `Begun`).

**Streams and zips.** `GetInv` counts: n bytes read are n less the ones before the
range sent, never past the end of range or content (`Progress`); revisions are only
added, so the row may change under the download. `BytesInv` adds that the i-th byte
sent is the i-th of the range that was taken, which is where counters enter: the block read at the
start of the range has the number that `BlocksAreCounted` gives. That lemma follows
the loop: after i rounds the last i bytes are the sum's last i digits, and what is
left to add is the quotient (`Rounds`, `Rounded`); the bytes that could carry into one
already done are the zero ones of `createIV`. `ZipInv` follows the files,
the used names and the manifest; that an unused number exists is a pigeonhole
argument over the finite set of used names.

### Only model checked

Liveness under fairness is out of the prover's reach: `EventuallyStored`,
`AssociationRecovers`, `LoopsEnd`, `DownloadsEnd`, `Reannounced`, `AACRecovers`.
`ReachesHandler` and `PathFindsObject` compare the router with a table of what each
request is meant to reach, the library's calls and the documentation's, and with the words
that are taken; the table is data of the instance, on which TLC evaluates all of it. `OneRecache`, `PartsAgree`, one
mover and no moves are premises of theorems, not facts of the code. No module declares a
RECURSIVE operator: folds are recursive functions where something is proved of them.

## Not modelled

Event publishing and audit (copies of the answers, which nothing reads back),
metrics, the reading of the configuration, schema migration and command line tools,
the text of the SQL statements, the parsing of snippets, certificates and JSON, the
classification of an ACM, and the reports of bulk operations item by item.
`masterKeyCheck` runs once at startup; it is listed as a hazard.

## Plan

1. `MasterKeyCheck`: the canary at startup of several nodes with different keys; the
   bulk operations and what they report.
2. `ReachesHandler` for every URI that a call of the library can make, from a
   description of the calls instead of a table.
3. Several recaches of one file: what a repaired `BackgroundRecache`, which creates the file
   exclusively, would let be proved without `OneRecache`.
