--------------------------------- MODULE Gateway ---------------------------------
(***************************************************************************)
(* The HTTP front of a node: who the caller is (Caller.go), which handler a *)
(* request is routed to (AppServer.InitRegex and ServeHTTP), and which     *)
(* object a path under /files leads to (getObjectByPath).                  *)
(*                                                                         *)
(* Routes are regular expressions that are searched for in the URI: the    *)
(* first of a method's cases that is found anywhere in it is taken.  A     *)
(* pattern starts with a slash, so that it is matched from the start of    *)
(* some segment, to the end of the URI.                                    *)
(***************************************************************************)
EXTENDS Client, Naturals, FiniteSets, SequencesExt

CONSTANTS
  Ids,        \* segments of 32 hexadecimal digits
  Rnames,     \* segments of 52 or 64 hexadecimal digits
  Streams,    \* the segment stream, and stream with an extension
  Whitelist,  \* normalized names of the systems that may impersonate
  CommonNames, \* the parts of distinguished names that start with cn
  Arrivals    \* requests as they arrive, each with [headers, readOnly, tree, request], with
              \* [handler, object], what it is meant to reach, and with the kind of names its
              \* URI has after the first fixed segments

ASSUME GatewayAssumption ==
  /\ Ids \cap Rnames = {} /\ "stream" \in Streams
  /\ \A a \in Arrivals :
       /\ a.request.uri \in Seq(STRING)
       /\ {a.headers.user, a.headers.cert, a.headers.ssl, a.headers.ext} \subseteq Seq(STRING)

--------------------------------------------------------------------------------
(* Routes *)

(***************************************************************************)
(* A route is a sequence of patterns for segments; when it has a ".*", that *)
(* stands for any segments, at least one, between head and tail.           *)
(***************************************************************************)
ID == "objectId"
OptID == "folderId?"
Rname == "rname"
Zone == "zone?"
Stream == "stream.ext?"

Fits(pattern, segment) ==
  CASE pattern = ID -> segment \in Ids
    [] pattern = OptID -> segment \in Ids \cup {""}
    [] pattern = Rname -> segment \in Rnames
    [] pattern = Zone -> TRUE
    [] pattern = Stream -> segment \in Streams
    [] OTHER -> segment = pattern

AllFit(patterns, segments) ==
  /\ Len(patterns) = Len(segments)
  /\ \A i \in 1 .. Len(patterns) : Fits(patterns[i], segments[i])

Exactly(head) == [head |-> head, any |-> FALSE, tail |-> <<>>]
AnyAfter(head) == [head |-> head, any |-> TRUE, tail |-> <<>>]
Between(head, tail) == [head |-> head, any |-> TRUE, tail |-> tail]

MatchesAt(route, uri, i) ==
  LET h == Len(route.head)
      t == Len(route.tail)
      n == Len(uri) - i + 1 IN
  IF ~route.any THEN n = h /\ AllFit(route.head, SubSeq(uri, i, Len(uri)))
  ELSE /\ n > h + t
       /\ AllFit(route.head, SubSeq(uri, i, i + h - 1))
       /\ AllFit(route.tail, SubSeq(uri, Len(uri) - t + 1, Len(uri)))

Matches(route, uri) == \E i \in 1 .. Len(uri) : MatchesAt(route, uri, i)

(***************************************************************************)
(* parseCaptureGroups: the segment that the identifier of the leftmost     *)
(* match captures, or "" when the route captures none.                     *)
(***************************************************************************)
Captured(route, uri) ==
  LET start == CHOOSE i \in 1 .. Len(uri) :
                 MatchesAt(route, uri, i) /\ \A j \in 1 .. i - 1 : ~MatchesAt(route, uri, j)
      at == {k \in 1 .. Len(route.head) : route.head[k] = ID} IN
  IF at = {} THEN "" ELSE uri[start + (CHOOSE k \in at : TRUE) - 1]

Rx ==
  [Favicon            |-> Exactly(<<"favicon.ico">>),
   StatsObject        |-> Exactly(<<"stats">>),
   StaticFiles        |-> AnyAfter(<<"static">>),
   APIDocumentation   |-> Exactly(<<"">>),
   UserStats          |-> Exactly(<<"userstats">>),
   Ping               |-> Exactly(<<"ping">>),
   Objects            |-> Exactly(<<"objects">>),
   Object             |-> Exactly(<<"objects", ID>>),
   ObjectProperties   |-> Exactly(<<"objects", ID, "properties">>),
   ObjectCopy         |-> Exactly(<<"objects", ID, "copy">>),
   ObjectStream       |-> Exactly(<<"objects", ID, Stream>>),
   Ciphertext         |-> Exactly(<<"ciphertext", Zone, Rname>>),
   BulkProperties     |-> Exactly(<<"objects", "properties">>),
   ObjectChangeOwner  |-> AnyAfter(<<"objects", ID, "owner">>),
   ObjectDelete       |-> Exactly(<<"objects", ID, "trash">>),
   ObjectUndelete     |-> Exactly(<<"objects", ID, "untrash">>),
   ObjectExpunge      |-> Exactly(<<"objects", ID>>),
   ObjectMove         |-> Exactly(<<"objects", ID, "move", OptID>>),
   ObjectsMove        |-> Exactly(<<"objects", "move">>),
   ObjectsChangeOwner |-> AnyAfter(<<"objects", "owner">>),
   Revisions          |-> Exactly(<<"revisions", ID>>),
   RevisionRestore    |-> Between(<<"revisions", ID>>, <<"restore">>),
   RevisionStream     |-> Between(<<"revisions", ID>>, <<Stream>>),
   SharedToMe         |-> Exactly(<<"shares">>),
   SharedToOthers     |-> Exactly(<<"shared">>),
   SharedToEveryone   |-> Exactly(<<"sharedpublic">>),
   SharedObject       |-> Exactly(<<"shared", ID>>),
   GroupObjects       |-> AnyAfter(<<"groupobjects">>),
   Groups             |-> Exactly(<<"groups">>),
   Search             |-> AnyAfter(<<"search">>),
   Trash              |-> Exactly(<<"trashed">>),
   Zip                |-> Exactly(<<"zip">>),
   Files              |-> AnyAfter(<<"files">>)]

Case(route, handler) == [route |-> route, handler |-> handler]

(***************************************************************************)
(* The cases of ServeHTTP, in their order: those that need no user first,  *)
(* where /files is let through as the documentation is at the root.        *)
(***************************************************************************)
WithoutDatabaseCases ==
  <<Case("Favicon", "favicon"), Case("StatsObject", "getStats"), Case("StaticFiles", "serveStatic"),
    Case("Files", "database"), Case("APIDocumentation", "docs")>>

GetCases ==
  <<Case("UserStats", "do404"), Case("ObjectProperties", "getObject"),
    Case("ObjectStream", "getObjectStream"), Case("Ciphertext", "getCiphertext"),
    Case("Objects", "listObjects"), Case("Files", "getObjectByPath"),
    Case("GroupObjects", "listGroupObjects"), Case("Object", "listObjects"),
    Case("Trash", "listObjectsTrashed"), Case("SharedToMe", "listUserObjectShares"),
    Case("SharedToOthers", "listUserObjectsShared"),
    Case("SharedToEveryone", "listUserObjectsSharedToEveryone"),
    Case("Revisions", "listObjectRevisions"), Case("RevisionStream", "getObjectStreamForRevision"),
    Case("Search", "query"), Case("Groups", "listMyGroupsWithObjects"), Case("Ping", "ping")>>

PostCases ==
  <<Case("Objects", "createObject"), Case("ObjectDelete", "deleteObject"),
    Case("ObjectUndelete", "removeObjectFromTrash"), Case("ObjectProperties", "updateObject"),
    Case("ObjectCopy", "copyObject"), Case("ObjectStream", "updateObjectStream"),
    Case("SharedObject", "addObjectShare"), Case("ObjectMove", "moveObject"),
    Case("ObjectChangeOwner", "changeOwner"), Case("Zip", "postZip"),
    Case("BulkProperties", "getBulkProperties"), Case("ObjectsMove", "doBulkMove"),
    Case("ObjectsChangeOwner", "doBulkOwnership"), Case("RevisionRestore", "restoreVersion")>>

DeleteCases ==
  <<Case("ObjectExpunge", "deleteObjectForever"), Case("SharedObject", "removeObjectShare"),
    Case("Trash", "expungeDeleted"), Case("Objects", "doBulkDelete")>>

NotFound == Case("none", "do404")

FirstCase(cases, uri) ==
  LET found == {i \in 1 .. Len(cases) : Matches(Rx[cases[i].route], uri)} IN
  IF found = {} THEN NotFound
  ELSE cases[CHOOSE i \in found : \A j \in found : i <= j]

Cases(method) ==
  CASE method = "GET" -> GetCases
    [] method = "POST" -> PostCases
    [] method = "DELETE" -> DeleteCases
    [] OTHER -> <<>>

(* Mutant: the documentation at the root takes every URI that ends with a slash. *)
WithoutDatabaseNoFiles(request) ==
  LET cases == SelectSeq(WithoutDatabaseCases, LAMBDA c : c.route # "Files") IN
  IF request.method = "OPTIONS" THEN Case("none", "cors")
  ELSE IF request.method = "GET" THEN FirstCase(cases, request.uri) ELSE NotFound

WithoutDatabase(request) ==
  IF request.method = "OPTIONS" THEN Case("none", "cors")
  ELSE IF request.method = "GET" THEN FirstCase(WithoutDatabaseCases, request.uri) ELSE NotFound

(* Mutant: only POST is refused. *)
ServeDeletes(request, readOnly) ==
  LET first == WithoutDatabase(request)
      case == FirstCase(Cases(request.method), request.uri) IN
  IF first.handler \notin {"do404", "database"} THEN [handler |-> first.handler, object |-> ""]
  ELSE IF readOnly /\ request.method = "POST" THEN [handler |-> "unavailable", object |-> ""]
  ELSE [handler |-> case.handler,
        object |-> IF case = NotFound THEN "" ELSE Captured(Rx[case.route], request.uri)]

(***************************************************************************)
(* ServeHTTP: POST and DELETE are refused while the database is read only. *)
(***************************************************************************)
Serve(request, readOnly) ==
  LET first == WithoutDatabase(request)
      case == FirstCase(Cases(request.method), request.uri) IN
  IF first.handler \notin {"do404", "database"} THEN [handler |-> first.handler, object |-> ""]
  ELSE IF readOnly /\ request.method \in {"POST", "DELETE"}
    THEN [handler |-> "unavailable", object |-> ""]
  ELSE [handler |-> case.handler,
        object |-> IF case = NotFound THEN "" ELSE Captured(Rx[case.route], request.uri)]

--------------------------------------------------------------------------------
(* Callers *)

Parts(dn) == ToSet(dn) \ {""}

(* trim: the parts of a name that are not empty; a name of separators only, *)
(* which has none, is left as it is.                                       *)
Trim(dn) ==
  LET upTo[i \in 0 .. Len(dn)] ==
        IF i = 0 THEN <<>>
        ELSE IF dn[i] = "" THEN upTo[i - 1] ELSE Append(upTo[i - 1], dn[i])
  IN IF Parts(dn) = {} THEN dn ELSE upTo[Len(dn)]

(***************************************************************************)
(* GetNormalizedDistinguishedName: of the parts between slashes or commas, *)
(* without the empty ones, reversed unless a common name is first.         *)
(***************************************************************************)
Normalized(dn) ==
  LET parts == Trim(dn) IN
  IF parts = <<>> \/ parts[1] \in CommonNames THEN parts ELSE Reverse(parts)

Have(dn) == dn # <<>>

(***************************************************************************)
(* CallerFromRequest: the name of the certificate replaces SSL_CLIENT_S_DN *)
(* when the connection is a TLS one.                                       *)
(***************************************************************************)
CallerFromRequest(h) ==
  LET user == Normalized(h.user)
      ssl == IF h.https THEN h.cert ELSE h.ssl IN
  [user |-> user, ssl |-> ssl, ext |-> h.ext,
   dn |-> Normalized(IF Have(user) THEN user ELSE ssl)]

CanImpersonate(system) == Normalized(system) \in {Normalized(w) : w \in Whitelist}

(* Mutant: of two systems one that is listed is enough. *)
ValidateHeadersEither(h, c) ==
  \/ h.https /\ ~Have(c.user) /\ Have(c.ssl) /\ ~Have(c.ext)
  \/ /\ Have(c.user) /\ Have(c.ssl)
     /\ CanImpersonate(c.ssl) \/ (Have(c.ext) /\ CanImpersonate(c.ext))

(***************************************************************************)
(* ValidateHeaders: a caller is himself with a certificate only, or is     *)
(* named by systems that may impersonate.                                  *)
(***************************************************************************)
ValidateHeaders(h, c) ==
  \/ h.https /\ ~Have(c.user) /\ Have(c.ssl) /\ ~Have(c.ext)
  \/ /\ Have(c.user) /\ Have(c.ssl)
     /\ CanImpersonate(c.ssl)
     /\ Have(c.ext) => CanImpersonate(c.ext)

--------------------------------------------------------------------------------
(* Paths *)

(***************************************************************************)
(* A tree maps identifiers to [parent, name, size, group]; in a root, whose *)
(* parent is "", group is that of the owner, or "" for the caller.         *)
(***************************************************************************)
NameOrId(tree, part) == {o \in DOMAIN tree : tree[o].name = part \/ o = part}
RootsOf(tree, group, part) ==
  {o \in NameOrId(tree, part) : tree[o].parent = "" /\ tree[o].group = group}
ChildrenOf(tree, parent, part) == {o \in NameOrId(tree, part) : tree[o].parent = parent}

Walking(target, group, groupname) ==
  [done |-> FALSE, handler |-> "", object |-> target, group |-> group, groupname |-> groupname]
Ended(handler, object) ==
  [done |-> TRUE, handler |-> handler, object |-> object, group |-> FALSE, groupname |-> ""]
PathNotFound == Ended("notfound", "")

(***************************************************************************)
(* The first of the objects that are found; at a root what is hexadecimal  *)
(* is taken for an identifier.                                             *)
(***************************************************************************)
GoTo(found) == IF found = {} THEN PathNotFound ELSE Walking(CHOOSE o \in found : TRUE, FALSE, "")
GoToRoot(found, part) ==
  IF found = {} /\ part \in Ids THEN Walking(part, FALSE, "") ELSE GoTo(found)

(* Mutant: below a group's root the walk is still among the roots. *)
PathPartStaysInGroup(tree, path, walk, i) ==
  LET part == path[i] IN
  IF walk.done THEN walk
  ELSE IF part = "" THEN
    IF ~walk.group THEN Ended("listObjects", walk.object)
    ELSE IF walk.groupname = "" THEN Ended("listMyGroupsWithObjects", "")
    ELSE Ended("listGroupObjects", walk.groupname)
  ELSE IF i = 1 THEN IF part = "groupobjects" THEN Walking("", TRUE, "")
                     ELSE GoToRoot(RootsOf(tree, "", part), part)
  ELSE IF ~walk.group THEN GoTo(ChildrenOf(tree, walk.object, part))
  ELSE IF i = 2 THEN Walking("", TRUE, part)
  ELSE [GoToRoot(RootsOf(tree, walk.groupname, part), part) EXCEPT
          !.group = TRUE, !.groupname = walk.groupname]

(***************************************************************************)
(* One part of a path: a name, or "" after a slash at its end.             *)
(***************************************************************************)
PathPart(tree, path, walk, i) ==
  LET part == path[i] IN
  IF walk.done THEN walk
  ELSE IF part = "" THEN
    IF ~walk.group THEN Ended("listObjects", walk.object)
    ELSE IF walk.groupname = "" THEN Ended("listMyGroupsWithObjects", "")
    ELSE Ended("listGroupObjects", walk.groupname)
  ELSE IF i = 1 THEN IF part = "groupobjects" THEN Walking("", TRUE, "")
                     ELSE GoToRoot(RootsOf(tree, "", part), part)
  ELSE IF ~walk.group THEN GoTo(ChildrenOf(tree, walk.object, part))
  ELSE IF i = 2 THEN Walking("", TRUE, part)
  ELSE GoToRoot(RootsOf(tree, walk.groupname, part), part)

(***************************************************************************)
(* getObjectByPath: what is not ended by a slash is streamed when it has   *)
(* content.                                                                *)
(***************************************************************************)
ByPath(tree, path) ==
  LET upTo[i \in 0 .. Len(path)] ==
        IF i = 0 THEN Walking("", FALSE, "") ELSE PathPart(tree, path, upTo[i - 1], i)
      walk == upTo[Len(path)]
      file == walk.object \in DOMAIN tree /\ tree[walk.object].size > 0 IN
  IF path = <<"">> THEN [handler |-> "listObjects", object |-> ""]
  ELSE IF walk.done THEN [handler |-> walk.handler, object |-> walk.object]
  ELSE [handler |-> IF file THEN "getObjectStream" ELSE "listObjects", object |-> walk.object]

(* The segments that the route of /files captures. *)
PathOf(uri) ==
  LET start == CHOOSE i \in 1 .. Len(uri) :
                 MatchesAt(Rx.Files, uri, i) /\ \A j \in 1 .. i - 1 : ~MatchesAt(Rx.Files, uri, j)
  IN SubSeq(uri, start + 1, Len(uri))
--------------------------------------------------------------------------------
(* A request *)

VARIABLES
  stage,    \* how far the request is
  arrival,  \* the request
  caller,   \* who makes it
  answer    \* the handler that has answered it, and for which object

vars == <<stage, arrival, caller, answer>>

NoAnswer == [handler |-> "", object |-> ""]
Nobody == [user |-> <<>>, ssl |-> <<>>, ext |-> <<>>, dn |-> <<>>]

Init ==
  /\ stage = "received" /\ arrival \in Arrivals
  /\ caller = Nobody /\ answer = NoAnswer

(***************************************************************************)
(* Who is not valid is answered with 401.                                  *)
(***************************************************************************)
Authenticate ==
  LET c == CallerFromRequest(arrival.headers) IN
  /\ stage = "received"
  /\ caller' = c
  /\ \/ /\ ValidateHeaders(arrival.headers, c)
        /\ stage' = "routing" /\ UNCHANGED answer
     \/ /\ ~ValidateHeaders(arrival.headers, c)
        /\ stage' = "answered" /\ answer' = [NoAnswer EXCEPT !.handler = "unauthorized"]
  /\ UNCHANGED arrival

Route ==
  LET found == Serve(arrival.request, arrival.readOnly) IN
  /\ stage = "routing"
  /\ stage' = "answered"
  /\ answer' = IF found.handler = "getObjectByPath"
               THEN ByPath(arrival.tree, PathOf(arrival.request.uri)) ELSE found
  /\ UNCHANGED <<arrival, caller>>

Next == Authenticate \/ Route
Spec == Init /\ [][Next]_vars

--------------------------------------------------------------------------------

Accepted == stage = "answered" /\ answer.handler # "unauthorized"
AsMeant == answer.handler = arrival.handler /\ answer.object = arrival.object

(***************************************************************************)
(* The names in a URI, by kind, that no request can be made for: a name at  *)
(* the end that an earlier case ends with, and one before others that an    *)
(* earlier case takes with anything after it.                              *)
(***************************************************************************)
FileEnds == {<<"favicon.ico">>, <<"stats">>, <<"userstats">>, <<"objects">>}
Ends ==
  [none |-> {}, path |-> FileEnds, group |-> FileEnds \cup {<<"">>},
   search |-> FileEnds \cup {<<"">>, <<"trashed">>, <<"shares">>, <<"shared">>, <<"sharedpublic">>},
   owner |-> {<<"objects">>},
   owners |-> {<<"objects">>, <<"zip">>, <<"objects", "properties">>, <<"objects", "move">>}]
Inside ==
  [none |-> {}, path |-> {"static"}, group |-> {"static"},
   search |-> {"static", "files", "groupobjects"}, owner |-> {}, owners |-> {}]

Taken ==
  LET uri == arrival.request.uri
      names == SubSeq(uri, arrival.fixed + 1, Len(uri)) IN
  \/ \E end \in Ends[arrival.kind] : IsSuffix(end, names)
  \/ \E i \in 1 .. Len(names) - 1 : names[i] \in Inside[arrival.kind]

(***************************************************************************)
(* A request of the client library or of the documented API reaches the    *)
(* handler that is meant for it with the object it names, whichever other   *)
(* routes are found in its URI too, unless the name of a group, an owner or *)
(* a search phrase is one that an earlier case takes; and then it never     *)
(* does (ServeHTTP).                                                        *)
(***************************************************************************)
ReachesHandler ==
  (Accepted /\ ~arrival.readOnly /\ DOMAIN arrival.tree = {}) => (AsMeant <=> ~Taken)

(***************************************************************************)
(* The names of an object and of the folders it is in, from the caller's   *)
(* root or a group's, lead to that object and no other, as a stream or as  *)
(* a listing, exactly when no earlier case takes one of them and the first  *)
(* of the caller's root is not the word for the groups (getObjectByPath).  *)
(***************************************************************************)
PathFindsObject ==
  LET uri == arrival.request.uri
      toGroups == arrival.fixed = 1 /\ uri[2] = "groupobjects" IN
  (Accepted /\ DOMAIN arrival.tree # {}) => (AsMeant <=> ~Taken /\ ~toGroups)

Changing ==
  {"createObject", "deleteObject", "removeObjectFromTrash", "updateObject", "copyObject",
   "updateObjectStream", "addObjectShare", "moveObject", "changeOwner", "doBulkMove",
   "doBulkOwnership", "restoreVersion", "deleteObjectForever", "removeObjectShare",
   "expungeDeleted", "doBulkDelete"}

(***************************************************************************)
(* While the database is read only no handler that changes it is reached,  *)
(* by any method and URI ("Operation not permitted until database schema   *)
(* upgrade completed").                                                    *)
(***************************************************************************)
ReadOnlyChangesNothing == (Accepted /\ arrival.readOnly) => answer.handler \notin Changing

(***************************************************************************)
(* A request that is accepted acts for the holder of the certificate, or   *)
(* for the user of the header, even one of separators only, when every      *)
(* system that it names is listed; and a subject whose name begins or ends  *)
(* with a common name is one caller, by certificate or by header, with that *)
(* common name first whichever way round the name is written                *)
(* (CallerFromRequest, ValidateHeaders).                                    *)
(***************************************************************************)
ActsForSubject ==
  LET h == arrival.headers
      systems == {IF h.https THEN h.cert ELSE h.ssl, h.ext} \ {<<>>}
      named == Have(h.user)
      subject == IF named THEN h.user ELSE h.cert
      dn == caller.dn IN
  Accepted =>
    /\ named => \A s \in systems : CanImpersonate(s)
    /\ ~named => h.https /\ systems = {h.cert}
    /\ Have(dn) /\ Parts(dn) = Parts(subject)
    /\ Parts(subject) # {} => "" \notin ToSet(dn)
    /\ dn # <<>> /\ {dn[1], dn[Len(dn)]} \cap CommonNames # {} =>
         dn[1] \in CommonNames /\ dn = Normalized(subject)
================================================================================
