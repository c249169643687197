--------------------------- MODULE AuthorizationCache ---------------------------
(***************************************************************************)
(* The association of a user to the ACMs he may see: how it is built from  *)
(* his snippets (CheckUserAOCache, RebuildUserACMCache), how an ACM that is *)
(* new gets its users (AssociateUsersToNewACM), and the placeholder row by  *)
(* which the nodes keep each other from building it twice.                 *)
(*                                                                         *)
(* One user is modelled, whose requests reach any node.  A snippet         *)
(* definition is known by its hash, which is taken of its sorted fields    *)
(* and values; an ACM, by its id, has values for each key.                 *)
(*                                                                         *)
(* Time is abstracted to what the code asks of it: whether a cachedate is  *)
(* older than OD_USERAOCACHE_TIMEOUT and whether an item of the LRU cache  *)
(* has expired, when it is as good as gone.                                *)
(***************************************************************************)
EXTENDS Naturals, FiniteSets

CONSTANTS
  Nodes,      \* odrive processes that share the database
  Reqs,       \* requests of the user, each can be sent again when answered
  NodeOf,     \* NodeOf[r]: the node that serves request r
  Keys,       \* ACM keys
  Acms,       \* ACMs
  ValuesOf,   \* ValuesOf[a][k]: the values of ACM a for key k
  Existing,   \* the ACMs of the objects there are at the start
  RootAcms,   \* those of the objects in the user's root
  Before,     \* the snippet definition the association was built from before
  Snippets,   \* the definitions AAC returns for the user from now on
  FieldsOf,   \* FieldsOf[s]: the fields of definition s, each for a key
  RootReqs,   \* the requests that are GET /objects
  Writers,    \* requests that save an object with an ACM of NewAcms
  MaxFaults   \* bound on failures

NewAcms == Acms \ Existing
None == "none"

ASSUME AuthorizationAssumption ==
  /\ NodeOf \in [Reqs -> Nodes]
  /\ Existing \subseteq Acms
  /\ RootAcms \subseteq Existing
  /\ RootReqs \subseteq Reqs
  /\ {} \notin Snippets \cup {Before}
  /\ MaxFaults \in Nat

VARIABLES
  user,     \* whether the user has a row in the user table
  known,    \* known[n]: whether UsersLruCache of n has the user
  lru,      \* lru[n]: the user's item of UserAOsLruCache, or NoRow
  aoc,      \* the newest useraocache row of the user, or NoRow
  parts,    \* the useraocachepart rows of the user
  acms,     \* the committed acm2 rows
  linked,   \* the ACMs of the user's useracm rows
  req,      \* req[r]: the state of request r
  uao,      \* uao[r]: its variable useraocache, which its builds share
  build,    \* build[r]: the state of the RebuildUserACMCache it has called
  writer,   \* writer[w]: the state of a request that saves an object
  faults,
  covered,  \* history: the ACMs that the build which wrote last has looked at
  lost      \* history: whether a full build was lost since one has been written

database == <<user, aoc, parts, acms, linked, covered, lost>>
memory == <<known, lru>>
vars == <<database, memory, req, uao, build, writer, faults>>

--------------------------------------------------------------------------------
(* Which ACMs a user may see *)

(***************************************************************************)
(* getACMIDsValidForUserBySnippets: no value that is disallowed, and for   *)
(* each allowed field no value at all or one that is allowed.              *)
(***************************************************************************)
ValidForUser(snippets, a) ==
  \A f \in FieldsOf[snippets] :
    LET values == ValuesOf[a][f.key] IN
    IF f.allowed THEN values = {} \/ values \cap f.values # {}
    ELSE values \cap f.values = {}

(***************************************************************************)
(* insertUserAOCacheParts: one row per value, one without for a field that *)
(* has none.                                                               *)
(***************************************************************************)
PartsOf(snippets) ==
  UNION {IF f.values = {} THEN {[key |-> f.key, allowed |-> f.allowed, value |-> None]}
         ELSE {[key |-> f.key, allowed |-> f.allowed, value |-> v] : v \in f.values}
         : f \in FieldsOf[snippets]}

(***************************************************************************)
(* buildUsersValidForACMByIDSQL: for each key of the ACM a row that allows *)
(* one of its values, or one that disallows something else.                *)
(***************************************************************************)
ValidForAcm(rows, a) ==
  /\ rows # {}
  /\ \A k \in Keys : ValuesOf[a][k] # {} =>
       \E p \in rows : p.key = k /\ (p.allowed <=> p.value \in ValuesOf[a][k])

--------------------------------------------------------------------------------

AllSnippets == Snippets \cup {Before}
Row == [caching : BOOLEAN, old : BOOLEAN, hash : AllSnippets]
NoRow == [caching |-> FALSE, old |-> FALSE, hash |-> {}]
Part == UNION {PartsOf(s) : s \in AllSnippets}

ReqSteps == {"getuser", "createuser", "retryuser", "check", "recheck", "place", "deleteparts",
             "insertparts", "attributes", "build", "save", "wait"}
Active == [pc : ReqSteps, hash : AllSnippets, waits : BOOLEAN]
Idle == [pc |-> "idle", hash |-> {}, waits |-> FALSE]

(***************************************************************************)
(* A build is of the ACMs in the user's root, in full while the request    *)
(* waits, or in full after one of the root in the background.  It holds    *)
(* the ACMs there were when it read them, and those that are to be linked. *)
(***************************************************************************)
Build == [pc : {"read", "write", "finish"}, mode : {"root", "sync", "async"},
          seen : SUBSET Acms, ids : SUBSET Acms]
NoBuild == [pc |-> "none", mode |-> "none", seen |-> {}, ids |-> {}]
NewBuild(mode) == [pc |-> "read", mode |-> mode, seen |-> {}, ids |-> {}]

Writer == [pc : {"idle", "author", "users", "link", "end"}, acm : Acms \cup {None}]

TypeOK ==
  /\ user \in BOOLEAN
  /\ known \in [Nodes -> BOOLEAN]
  /\ lru \in [Nodes -> Row \cup {NoRow}]
  /\ aoc \in Row \cup {NoRow}
  /\ parts \subseteq Part
  /\ acms \subseteq Acms
  /\ linked \subseteq acms
  /\ req \in [Reqs -> Active \cup {Idle}]
  /\ uao \in [Reqs -> Row \cup {NoRow}]
  /\ build \in [Reqs -> Build \cup {NoBuild}]
  /\ writer \in [Writers -> Writer]
  /\ faults \in 0 .. MaxFaults
  /\ covered \subseteq acms
  /\ lost \in BOOLEAN

(***************************************************************************)
(* The user is new, his association was built from an older definition, or *)
(* a build for that one has been lost with its node.                       *)
(***************************************************************************)
Init ==
  /\ \/ user = FALSE /\ aoc = NoRow /\ parts = {} /\ linked = {}
     \/ /\ user = TRUE
        /\ aoc = [caching |-> FALSE, old |-> FALSE, hash |-> Before]
        /\ parts = PartsOf(Before)
        /\ linked = {a \in Existing : ValidForUser(Before, a)}
     \/ /\ user = TRUE
        /\ aoc = [caching |-> TRUE, old |-> TRUE, hash |-> Before]
        /\ parts = PartsOf(Before)
        /\ linked = {}
  /\ acms = Existing
  /\ covered = Existing
  /\ lost = FALSE
  /\ known = [n \in Nodes |-> FALSE]
  /\ lru = [n \in Nodes |-> NoRow]
  /\ req = [r \in Reqs |-> Idle]
  /\ uao = [r \in Reqs |-> NoRow]
  /\ build = [r \in Reqs |-> NoBuild]
  /\ writer = [w \in Writers |-> [pc |-> "idle", acm |-> None]]
  /\ faults = 0

Fault == faults < MaxFaults /\ faults' = faults + 1
Become(r, t) == req' = [req EXCEPT ![r] = t]

(***************************************************************************)
(* The request is answered, with an error or by its handler.  Its variable *)
(* lives on while a build in the background has it.                        *)
(***************************************************************************)
End(r) ==
  /\ Become(r, Idle)
  /\ uao' = [uao EXCEPT ![r] = IF build[r].pc = "none" THEN NoRow ELSE @]

GoTo(r, step) == Become(r, [req[r] EXCEPT !.pc = step]) /\ UNCHANGED uao

--------------------------------------------------------------------------------
(* FetchUser *)

(***************************************************************************)
(* A request arrives at a node with the snippets AAC has for the user.     *)
(***************************************************************************)
FetchUser(r, s) ==
  /\ req[r].pc = "idle" /\ build[r].pc = "none"
  /\ Become(r, [pc |-> IF known[NodeOf[r]] THEN "check" ELSE "getuser", hash |-> s,
                waits |-> FALSE])
  /\ uao' = [uao EXCEPT ![r] = NoRow]
  /\ UNCHANGED <<database, memory, build, writer, faults>>

HaveUser(r) ==
  /\ known' = [known EXCEPT ![NodeOf[r]] = TRUE]
  /\ GoTo(r, "check")

(***************************************************************************)
(* getOrCreateUser: any error but that there is no such row ends it.       *)
(***************************************************************************)
GetUser(r) ==
  /\ req[r].pc = "getuser"
  /\ \/ user /\ HaveUser(r) /\ UNCHANGED faults
     \/ ~user /\ GoTo(r, "createuser") /\ UNCHANGED <<known, faults>>
     \/ Fault /\ End(r) /\ UNCHANGED known
  /\ UNCHANGED <<database, lru, build, writer>>

(***************************************************************************)
(* createUserInTransaction: a row that a parallel request has added makes  *)
(* the insert fail, and is fetched.  Once it fails it is tried again, with *)
(* a look for the user before.                                             *)
(***************************************************************************)
CreateUser(r) ==
  /\ req[r].pc \in {"createuser", "retryuser"}
  /\ \/ user' = TRUE /\ HaveUser(r) /\ UNCHANGED faults
     \/ /\ Fault
        /\ IF req[r].pc = "createuser" THEN GoTo(r, "retryuser") ELSE ~user /\ End(r)
        /\ UNCHANGED <<user, known>>
  /\ UNCHANGED <<aoc, parts, acms, linked, covered, lost, lru, build, writer>>

--------------------------------------------------------------------------------
(* CheckUserAOCache *)

(* Mutant: a build that seems to be under way is never done again. *)
NeedsRebuildNoTimeout(row, s) == row = NoRow \/ (row.hash # s /\ ~row.caching)

(***************************************************************************)
(* Whether the row asks for a build.  The age of the row is looked at only *)
(* when its hash is the same.                                              *)
(***************************************************************************)
NeedsRebuild(row, s) ==
  \/ row = NoRow
  \/ row.hash # s /\ ~row.caching
  \/ row.hash = s /\ row.caching /\ row.old

(***************************************************************************)
(* isUserAOCacheBeingBuilt, after a random delay.                          *)
(***************************************************************************)
BeingBuilt(s) ==
  aoc # NoRow /\ aoc.caching /\ ~aoc.old /\ aoc.hash = s

Placeholder(s) == [caching |-> TRUE, old |-> FALSE, hash |-> s]

InMemory(r) == lru[NodeOf[r]] # NoRow

(***************************************************************************)
(* GetUserAOCacheByDistinguishedName, unless the node has the row.         *)
(***************************************************************************)
UserAOCache(r) == IF InMemory(r) THEN lru[NodeOf[r]] ELSE aoc

Check(r) ==
  LET row == UserAOCache(r)
      s   == req[r].hash IN
  /\ req[r].pc = "check"
  /\ \/ /\ Become(r, [req[r] EXCEPT !.waits = NeedsRebuild(row, s),
                                    !.pc = IF NeedsRebuild(row, s) THEN "recheck" ELSE "save"])
        /\ uao' = [uao EXCEPT ![r] = IF NeedsRebuild(row, s) THEN Placeholder(s) ELSE row]
        /\ UNCHANGED faults
     \/ ~InMemory(r) /\ Fault /\ End(r)
  /\ UNCHANGED <<database, memory, build, writer>>

(***************************************************************************)
(* The database is asked once more whether a peer is building; an error    *)
(* reads as no.                                                            *)
(***************************************************************************)
Recheck(r) ==
  /\ req[r].pc = "recheck"
  /\ \/ GoTo(r, IF BeingBuilt(req[r].hash) THEN "save" ELSE "place") /\ UNCHANGED faults
     \/ Fault /\ GoTo(r, "place")
  /\ UNCHANGED <<database, memory, build, writer>>

(***************************************************************************)
(* setUserAOCache inserts a row and deletes the older ones of the user.    *)
(* The error of its commit is not looked at: the request goes on as if     *)
(* there were the row.                                                     *)
(***************************************************************************)
SetUserAOCache(r) ==
  /\ req[r].pc = "place"
  /\ \/ /\ \/ aoc' = Placeholder(req[r].hash) /\ UNCHANGED faults
           \/ Fault /\ UNCHANGED aoc
        /\ uao' = [uao EXCEPT ![r] = Placeholder(req[r].hash)]
        /\ Become(r, [req[r] EXCEPT !.pc = "deleteparts"])
     \/ Fault /\ End(r) /\ UNCHANGED aoc
  /\ UNCHANGED <<user, parts, acms, linked, covered, lost, memory, build, writer>>

(***************************************************************************)
(* execStatementWithDeadlockRetry returns no error when all its tries have *)
(* failed, only when it cannot begin one.                                  *)
(***************************************************************************)
ExecFails(r, next) == Fault /\ (GoTo(r, next) \/ End(r))

(***************************************************************************)
(* SetUserAOCacheByDistinguishedName: after the row the parts are replaced,*)
(* each statement a transaction of its own.                                *)
(***************************************************************************)
DeleteParts(r) ==
  /\ req[r].pc = "deleteparts"
  /\ \/ parts' = {} /\ GoTo(r, "insertparts") /\ UNCHANGED faults
     \/ ExecFails(r, "insertparts") /\ UNCHANGED parts
  /\ UNCHANGED <<user, aoc, acms, linked, covered, lost, memory, build, writer>>

InsertParts(r) ==
  /\ req[r].pc = "insertparts"
  /\ \/ parts' = parts \cup PartsOf(req[r].hash) /\ GoTo(r, "attributes") /\ UNCHANGED faults
     \/ ExecFails(r, "attributes") /\ UNCHANGED parts
  /\ UNCHANGED <<user, aoc, acms, linked, covered, lost, memory, build, writer>>

(***************************************************************************)
(* The user's groups are asked for and saved as grantees, and the build is *)
(* called: of his root first when the request lists it.                    *)
(***************************************************************************)
GetAttributes(r) ==
  /\ req[r].pc = "attributes"
  /\ \/ /\ Become(r, [req[r] EXCEPT !.pc = "build", !.waits = FALSE])
        /\ UNCHANGED uao
        /\ build' = [build EXCEPT ![r] = NewBuild(IF r \in RootReqs THEN "root" ELSE "sync")]
        /\ UNCHANGED faults
     \/ Fault /\ End(r) /\ UNCHANGED build
  /\ UNCHANGED <<database, memory, writer>>

(***************************************************************************)
(* The row is kept in memory, for a shorter time when it says that the     *)
(* association is being built; who found a peer building it waits.         *)
(***************************************************************************)
Save(r) ==
  /\ req[r].pc = "save"
  /\ lru' = [lru EXCEPT ![NodeOf[r]] = uao[r]]
  /\ IF req[r].waits THEN GoTo(r, "wait") ELSE End(r)
  /\ UNCHANGED <<database, known, build, writer, faults>>

(***************************************************************************)
(* The wait ends when nobody is building any more, or in a timeout.        *)
(***************************************************************************)
WaitDone(r) ==
  /\ req[r].pc = "wait"
  /\ ~BeingBuilt(req[r].hash)
  /\ End(r)
  /\ UNCHANGED <<database, memory, build, writer, faults>>

WaitTimeout(r) ==
  /\ req[r].pc = "wait"
  /\ BeingBuilt(req[r].hash)
  /\ End(r)
  /\ UNCHANGED <<database, memory, build, writer, faults>>

--------------------------------------------------------------------------------
(* RebuildUserACMCache *)

(* Mutant: the build of the user's root is taken for all of it. *)
EndBuildAtRoot(r, row) ==
  LET b == build[r] IN
  /\ build' = [build EXCEPT ![r] = NoBuild]
  /\ IF b.mode = "async" THEN UNCHANGED req ELSE Become(r, [req[r] EXCEPT !.pc = "save"])
  /\ UNCHANGED lru

(***************************************************************************)
(* The end of a build.  One of the root is followed by a full one in the   *)
(* background, which a goroutine waits for: the row goes to memory when it *)
(* ends, unless the timeout of that goroutine has come before.             *)
(***************************************************************************)
EndBuild(r, row) ==
  LET b == build[r] IN
  /\ build' = [build EXCEPT ![r] = IF b.mode = "root" THEN NewBuild("async") ELSE NoBuild]
  /\ IF b.mode = "async" THEN UNCHANGED req ELSE Become(r, [req[r] EXCEPT !.pc = "save"])
  /\ \/ b.mode = "async" /\ lru' = [lru EXCEPT ![NodeOf[r]] = row]
     \/ UNCHANGED lru

(* Mutant: the ids are not those of committed ACMs. *)
BuildReadAll(r) ==
  /\ build[r].pc = "read"
  /\ build' = [build EXCEPT ![r].pc = "write",
                            ![r].seen = acms,
                            ![r].ids = {a \in Acms : ValidForUser(uao[r].hash, a)}]
  /\ UNCHANGED <<database, memory, req, uao, writer, faults>>

(***************************************************************************)
(* The ids of the ACMs that are valid for the user are read, ...           *)
(***************************************************************************)
BuildRead(r) ==
  LET valid == {a \in acms : ValidForUser(uao[r].hash, a)} IN
  /\ build[r].pc = "read"
  /\ build' = [build EXCEPT ![r].pc = "write",
                            ![r].seen = acms,
                            ![r].ids = IF build[r].mode = "root" THEN valid \cap RootAcms ELSE valid]
  /\ UNCHANGED <<database, memory, req, uao, writer, faults>>

(***************************************************************************)
(* ... the associations to other ACMs are deleted and those missing are    *)
(* inserted, in a transaction: also those made since the ids were read go. *)
(* The error of the commit is not looked at: a build that is rolled back   *)
(* goes on like one that is not.                                           *)
(***************************************************************************)
BuildWrite(r) ==
  LET full == build[r].mode # "root" IN
  /\ build[r].pc = "write"
  /\ \/ /\ linked' = build[r].ids /\ covered' = build[r].seen
        /\ lost' = (lost /\ ~full)
        /\ UNCHANGED faults
     \/ Fault /\ lost' = (lost \/ full) /\ UNCHANGED <<linked, covered>>
  /\ build' = [build EXCEPT ![r].pc = "finish", ![r].seen = {}, ![r].ids = {}]
  /\ UNCHANGED <<user, aoc, parts, acms, memory, req, uao, writer>>

(***************************************************************************)
(* The row is replaced by one that says that nobody is building.  An error *)
(* of this leaves the placeholder.                                         *)
(***************************************************************************)
BuildFinish(r) ==
  LET row == [uao[r] EXCEPT !.caching = FALSE, !.old = FALSE] IN
  /\ build[r].pc = "finish"
  /\ uao' = [uao EXCEPT ![r] = row]
  /\ EndBuild(r, row)
  /\ \/ aoc' = row /\ UNCHANGED faults
     \/ Fault /\ UNCHANGED aoc
  /\ UNCHANGED <<user, parts, acms, linked, covered, lost, known, writer>>

(***************************************************************************)
(* An error ends a build before it has changed anything.  Nobody looks at  *)
(* the error it returns, and a build in the background is not repeated.    *)
(***************************************************************************)
BuildFails(r) ==
  /\ build[r].pc \in {"read", "write"}
  /\ Fault
  /\ EndBuild(r, uao[r])
  /\ lost' = (lost \/ build[r].mode = "async")
  /\ UNCHANGED <<user, aoc, parts, acms, linked, covered, known, uao, writer>>

(***************************************************************************)
(* When there is no transaction to begin, Rollback is called on none: the  *)
(* panic ends the request, with no build of the user's root or in full to  *)
(* follow.  In the background it takes the node down, which Crash is.      *)
(***************************************************************************)
BuildPanics(r) ==
  /\ build[r].pc = "read" /\ build[r].mode # "async"
  /\ Fault
  /\ build' = [build EXCEPT ![r] = NoBuild]
  /\ Become(r, Idle)
  /\ uao' = [uao EXCEPT ![r] = NoRow]
  /\ UNCHANGED <<database, memory, writer>>

--------------------------------------------------------------------------------
(* The ACM of an object that is saved *)

WriterTo(w, step) == writer' = [writer EXCEPT ![w].pc = step]

(***************************************************************************)
(* getAcm2ByNameInTransaction and the end of its transaction: the insert   *)
(* of an ACM that another transaction has inserted waits for the end of    *)
(* that one and then fetches it, so that only one of them has created it.  *)
(* Only that one associates users to it (CreateObject, UpdateObject), in   *)
(* the background once it is committed.                                    *)
(***************************************************************************)
SaveAcm(w) ==
  /\ writer[w].pc = "idle"
  /\ \/ \E a \in NewAcms :
          /\ acms' = acms \cup {a}
          /\ writer' = [writer EXCEPT ![w] = [pc |-> IF a \in acms THEN "end" ELSE "author",
                                             acm |-> a]]
        /\ UNCHANGED faults
     \/ Fault /\ WriterTo(w, "end") /\ UNCHANGED acms
  /\ UNCHANGED <<user, aoc, parts, linked, covered, lost, memory, req, uao, build>>

(***************************************************************************)
(* insertAssociationOfACMToModifiedByIfValid: the user may be who saved    *)
(* the object, if he may see it.  An error is logged.                      *)
(***************************************************************************)
AssociateAuthor(w) ==
  /\ writer[w].pc = "author"
  /\ \/ /\ user /\ \E s \in Snippets : ValidForUser(s, writer[w].acm)
        /\ linked' = linked \cup {writer[w].acm}
     \/ UNCHANGED linked
  /\ WriterTo(w, "users")
  /\ UNCHANGED <<user, aoc, parts, acms, covered, lost, memory, req, uao, build, faults>>

(* Mutant: a row that matches one key of the ACM is enough. *)
UserFoundAnyKey(a) ==
  user /\ \E p \in parts : /\ ValuesOf[a][p.key] # {}
                          /\ p.allowed <=> p.value \in ValuesOf[a][p.key]

(***************************************************************************)
(* getUsersValidForACMByID, as far as the user goes.                       *)
(***************************************************************************)
UserFound(a) == user /\ ValidForAcm(parts, a)

(***************************************************************************)
(* associateUsersToNewACM: the users whose parts match.  While there are   *)
(* none it is tried again, up to maxRetry times, and changes nothing; it   *)
(* ends with others than the user, or with none.                           *)
(***************************************************************************)
FindUsers(w) ==
  /\ writer[w].pc = "users"
  /\ WriterTo(w, IF UserFound(writer[w].acm) THEN "link" ELSE "end")
  /\ UNCHANGED <<database, memory, req, uao, build, faults>>

AssociateUser(w) ==
  /\ writer[w].pc = "link"
  /\ \/ linked' = linked \cup {writer[w].acm} /\ UNCHANGED faults
     \/ Fault /\ UNCHANGED linked
  /\ WriterTo(w, "end")
  /\ UNCHANGED <<user, aoc, parts, acms, covered, lost, memory, req, uao, build>>

--------------------------------------------------------------------------------
(* Time and crashes *)

Aged(row) == [row EXCEPT !.old = row.caching]

(***************************************************************************)
(* OD_USERAOCACHE_TIMEOUT passes: the dates there are become old, which    *)
(* matters in a placeholder only.                                          *)
(***************************************************************************)
Tick ==
  /\ aoc' = Aged(aoc)
  /\ uao' = [r \in Reqs |-> Aged(uao[r])]
  /\ lru' = [n \in Nodes |-> Aged(lru[n])]
  /\ UNCHANGED <<user, parts, acms, linked, covered, lost, known, req, build, writer, faults>>

(***************************************************************************)
(* An item has been in memory for its time without being saved again.      *)
(***************************************************************************)
Expire(n) ==
  /\ lru[n] # NoRow
  /\ lru' = [lru EXCEPT ![n] = NoRow]
  /\ UNCHANGED <<database, known, req, uao, build, writer, faults>>

(* A full build is still to follow what has been written to the associations. *)
Pending(r) ==
  \/ build[r].mode = "root" /\ build[r].pc = "finish"
  \/ build[r].mode = "async" /\ build[r].pc \in {"read", "write"}

(***************************************************************************)
(* A node goes down and is started again.                                  *)
(***************************************************************************)
Crash(n) ==
  /\ Fault
  /\ req' = [r \in Reqs |-> IF NodeOf[r] = n THEN Idle ELSE req[r]]
  /\ build' = [r \in Reqs |-> IF NodeOf[r] = n THEN NoBuild ELSE build[r]]
  /\ known' = [known EXCEPT ![n] = FALSE]
  /\ lru' = [lru EXCEPT ![n] = NoRow]
  /\ uao' = [r \in Reqs |-> IF NodeOf[r] = n THEN NoRow ELSE uao[r]]
  /\ lost' = (lost \/ \E r \in Reqs : NodeOf[r] = n /\ Pending(r))
  /\ UNCHANGED <<user, aoc, parts, acms, linked, covered, writer>>

--------------------------------------------------------------------------------

Begin(r) == \E s \in Snippets : FetchUser(r, s)

Step(r) ==
  \/ GetUser(r) \/ CreateUser(r)
  \/ Check(r) \/ Recheck(r) \/ SetUserAOCache(r) \/ DeleteParts(r) \/ InsertParts(r)
  \/ GetAttributes(r) \/ Save(r) \/ WaitDone(r) \/ WaitTimeout(r)

BuildStep(r) == BuildRead(r) \/ BuildWrite(r) \/ BuildFinish(r)

SaveObject(w) ==
  SaveAcm(w) \/ AssociateAuthor(w) \/ FindUsers(w) \/ AssociateUser(w)

Next ==
  \/ \E r \in Reqs : Begin(r) \/ Step(r) \/ BuildStep(r) \/ BuildFails(r) \/ BuildPanics(r)
  \/ \E w \in Writers : SaveObject(w)
  \/ \E n \in Nodes : Expire(n) \/ Crash(n)
  \/ Tick

Spec == Init /\ [][Next]_vars

(***************************************************************************)
(* A request and a build go on, as their goroutines do, and time passes.   *)
(* That requests come is no promise of the code.                           *)
(***************************************************************************)
FairSpec ==
  /\ Spec
  /\ \A r \in Reqs : WF_vars(Step(r)) /\ WF_vars(BuildStep(r))
  /\ WF_vars(Tick)

--------------------------------------------------------------------------------

(***************************************************************************)
(* The user is associated to no ACM that was not valid for him under a     *)
(* definition of his snippets: neither way of associating, by his snippets *)
(* or by the rows of his parts, which a failed statement can leave mixed,  *)
(* may show him more (getACMIDsValidForUserBySnippets against              *)
(* buildUsersValidForACMByIDSQL).                                          *)
(***************************************************************************)
LinksSound == \A a \in linked : \E s \in AllSnippets : ValidForUser(s, a)

(* The rows there are when statements of requests with these definitions failed. *)
Mixture(definitions) == UNION {PartsOf(s) : s \in definitions}

(* No such rows match a new ACM that no definition is valid for. *)
PartsAgree ==
  \A T \in SUBSET AllSnippets, a \in NewAcms :
    ValidForAcm(Mixture(T), a) => \E s \in AllSnippets : ValidForUser(s, a)

(***************************************************************************)
(* Every ACM is associated that is valid for s and was there when the last *)
(* build to write has read the ids.  One that was committed since is not   *)
(* promised: that build deletes what its writer has associated in the      *)
(* meantime, and a writer's own attempt may fail.                          *)
(***************************************************************************)
Complete(s) == {a \in covered : ValidForUser(s, a)} \subseteq linked

(***************************************************************************)
(* When the row says that the association is built (RebuildUserACMCache:   *)
(* "Done caching") for a definition AAC still returns, the only one, and   *)
(* no full build is to follow one of the user's root, the association is   *)
(* complete for it, whichever builds failed, were repeated or ran on       *)
(* several nodes at once.  The code does not promise it when the commit of *)
(* a full build or a full build in the background was lost: nothing looks  *)
(* at that error, and the row says that it is built all the same.          *)
(***************************************************************************)
DoneIsComplete ==
  (/\ aoc # NoRow /\ ~aoc.caching /\ Snippets = {aoc.hash}
   /\ ~lost
   /\ \A r \in Reqs : build[r].mode \notin {"root", "async"})
  => Complete(aoc.hash)

(***************************************************************************)
(* A placeholder for another definition, whose build was lost: its age is  *)
(* not looked at, and no request with s builds.                            *)
(***************************************************************************)
Stuck(s) == aoc # NoRow /\ aoc.caching /\ aoc.hash # s

(***************************************************************************)
(* While requests with a definition keep coming, and none with another     *)
(* does any more, the association is complete for it again and again: a    *)
(* build that failed, or was lost with its node while a request waited for *)
(* it, is taken up again (CheckUserAOCache: "it will be rebuilt, if and    *)
(* only if no other process is already rebuilding it, unless the time ...  *)
(* is older").  Two cases are not taken up, and are excepted: what is lost *)
(* when the row says that it is built, and a placeholder that is stuck.    *)
(***************************************************************************)
AssociationRecovers ==
  \A s \in Snippets :
    (/\ []<>(\E r \in Reqs : req[r].pc # "idle")
     /\ <>[](\A r \in Reqs : req[r].pc # "idle" => req[r].hash = s))
    => []<>(Complete(s) \/ lost \/ Stuck(s))
================================================================================
