-------------------------------- MODULE MCGateway --------------------------------
(***************************************************************************)
(* The requests of the client library and those docs/rest.md documents,    *)
(* with the handlers that are meant for them, for small sets of names, and *)
(* headers of every kind.                                                  *)
(***************************************************************************)
EXTENDS Gateway

CONSTANTS Words,  \* names of groups and search phrases
          Names   \* names of objects

MCIds == {"id1", "id2", "id3"}
MCRnames == {"rname1"}
MCStreams == {"stream", "stream.txt"}
Bob == <<"cn=bob", "ou=dae", "c=us">>
BobSlashes == <<"", "c=us", "ou=dae", "cn=bob">>
Proxy == <<"cn=proxy", "c=us">>
ProxySlashes == <<"", "c=us", "cn=proxy">>
Edge == <<"cn=edge", "c=us">>
Slash == <<"", "">>
MCCommonNames == {"cn=bob", "cn=proxy", "cn=edge"}
MCWhitelist == {ProxySlashes, Edge}

Headers(https, user, cert, ssl, ext) ==
  [https |-> https, user |-> user, cert |-> cert, ssl |-> ssl, ext |-> ext]
Plain == Headers(TRUE, <<>>, Bob, <<>>, <<>>)

NoTree == [o \in {} |-> {}]
Arrival(headers, readOnly, tree, call) ==
  [headers |-> headers, readOnly |-> readOnly, tree |-> tree, request |-> call.request,
   handler |-> call.handler, object |-> call.object, kind |-> call.kind, fixed |-> call.fixed]

(* A call with names of some kind after its first fixed segments. *)
Named(kind, fixed, request, handler, object) ==
  [request |-> request, handler |-> handler, object |-> object, kind |-> kind, fixed |-> fixed]
Call(request, handler, object) == Named("none", Len(request.uri), request, handler, object)

Owners == {<<"user", "cn=bob">>} \cup {<<"group", w, v>> : w, v \in Words}

ClientCalls ==
  {Call(CreateObject, "createObject", ""), Call(Ping, "ping", ""),
   Call(SearchAll, "query", ""), Call(Search(""), "listObjects", "")}
  \cup UNION {{Call(CopyObject(id), "copyObject", id),
               Call(DeleteObject(id), "deleteObject", id),
               Call(ExpungeObject(id), "deleteObjectForever", id),
               Call(GetObject(id), "getObject", id),
               Call(GetObjectStream(id), "getObjectStream", id),
               Call(GetRevisions(id), "listObjectRevisions", id),
               Call(GetRevisionStream(id, 1), "getObjectStreamForRevision", id),
               Call(RestoreRevision(id, 1), "restoreVersion", id),
               Call(MoveObject(id, ""), "moveObject", id),
               Call(Search(id), "listObjects", id),
               Call(UpdateObject(id), "updateObject", id),
               Call(UpdateObjectAndStream(id), "updateObjectStream", id)} : id \in MCIds}
  \cup {Call(MoveObject(i, j), "moveObject", i) : i, j \in MCIds}
  \cup {Named("owner", 3, ChangeOwner(id, o), "changeOwner", id) : id \in MCIds, o \in Owners}

DocumentedCalls ==
  {Call(Delete(<<"objects">>), "doBulkDelete", ""),
   Call(Post(<<"objects", "properties">>), "getBulkProperties", ""),
   Call(Post(<<"objects", "move">>), "doBulkMove", ""),
   Call(Post(<<"zip">>), "postZip", ""),
   Call(Get(<<"groups">>), "listMyGroupsWithObjects", ""),
   Call(Get(<<"sharedpublic">>), "listUserObjectsSharedToEveryone", ""),
   Call(Get(<<"shares">>), "listUserObjectShares", ""),
   Call(Get(<<"shared">>), "listUserObjectsShared", ""),
   Call(Get(<<"trashed">>), "listObjectsTrashed", ""),
   Call(Delete(<<"trashed">>), "expungeDeleted", ""),
   Call(Get(<<"">>), "docs", ""),
   Call(Get(<<"stats">>), "getStats", ""),
   Call(Get(<<"favicon.ico">>), "favicon", ""),
   Call(Get(<<"static", "css", "home.css">>), "serveStatic", ""),
   Call(Get(<<"userstats">>), "do404", ""),
   Call([method |-> "PUT", uri |-> <<"objects">>], "do404", ""),
   Call([method |-> "OPTIONS", uri |-> <<"objects">>], "cors", "")}
  \cup {Named("owners", 2, Post(<<"objects", "owner">> \o o), "doBulkOwnership", "") : o \in Owners}
  \cup {Named("group", 1, Get(<<"groupobjects", w>>), "listGroupObjects", "") : w \in Words \cup {""}}
  \cup {Named("search", 1, Get(<<"search", w>>), "query", "") : w \in Words \cup {""}}
  \cup {Named("search", 1, Get(<<"search", w, v>>), "query", "") : w, v \in Words}
  \cup {Named("path", 2, Get(<<"files", "groupobjects", w, "">>), "listGroupObjects", w) : w \in Words}
  \cup {Call(Get(<<"files", "">>), "listObjects", ""),
        Call(Get(<<"files", "groupobjects", "">>), "listMyGroupsWithObjects", "")}
  \cup {Call(Get(<<"ciphertext", z, r>>), "getCiphertext", "") : z \in {"", "zone"}, r \in MCRnames}
  \cup UNION {{Call(Post(<<"objects", id, "untrash">>), "removeObjectFromTrash", id),
               Call(Post(<<"shared", id>>), "addObjectShare", id),
               Call(Delete(<<"shared", id>>), "removeObjectShare", id)} : id \in MCIds}
  \cup UNION {{Call(Get(<<"objects", id, e>>), "getObjectStream", id),
               Call(Post(<<"objects", id, e>>), "updateObjectStream", id),
               Call(Get(<<"revisions", id, "1", e>>), "getObjectStreamForRevision", id)}
              : id \in MCIds, e \in MCStreams}

(***************************************************************************)
(* Trees of three objects whose siblings have different names.  A group is *)
(* given for roots; objects without children are files.                    *)
(***************************************************************************)
Parents ==
  {p \in [MCIds -> MCIds \cup {""}] :
     p["id1"] = "" /\ p["id2"] \in {"", "id1"} /\ p["id3"] \in {"", "id1", "id2"}}
TreeOf(p, name, group) ==
  [o \in MCIds |-> [parent |-> p[o], name |-> name[o], group |-> group[o],
                    size |-> IF \E c \in MCIds : p[c] = o THEN 0 ELSE 1]]
Distinct(tree) ==
  \A a, b \in MCIds :
    (a # b /\ tree[a].parent = tree[b].parent /\ tree[a].group = tree[b].group)
    => tree[a].name # tree[b].name
MCTrees ==
  {t \in {TreeOf(p, n, g) : p \in Parents, n \in [MCIds -> Names], g \in [MCIds -> {"", "g1"}]} :
     Distinct(t) /\ \A o \in MCIds : t[o].parent # "" => t[o].group = ""}

Ancestors(tree, o) ==
  LET p == tree[o].parent IN
  IF p = "" THEN <<o>> ELSE IF tree[p].parent = "" THEN <<p, o>> ELSE <<tree[p].parent, p, o>>
PathTo(tree, o) ==
  LET line == Ancestors(tree, o)
      group == tree[line[1]].group IN
  <<"files">> \o (IF group = "" THEN <<>> ELSE <<"groupobjects", group>>)
              \o [i \in 1 .. Len(line) |-> tree[line[i]].name]

(* A folder is listed, with a slash at the end, and a file is streamed. *)
PathCall(tree, o) ==
  LET folder == tree[o].size = 0
      inGroup == tree[Ancestors(tree, o)[1]].group # "" IN
  Named("path", IF inGroup THEN 3 ELSE 1, Get(PathTo(tree, o) \o IF folder THEN <<"">> ELSE <<>>),
        IF folder THEN "listObjects" ELSE "getObjectStream", o)

PathArrivals == {Arrival(Plain, FALSE, t, PathCall(t, o)) : t \in MCTrees, o \in MCIds}

CallArrivals ==
  {Arrival(Plain, ro, NoTree, c) : ro \in BOOLEAN, c \in ClientCalls \cup DocumentedCalls}

Subjects == {<<>>, Bob, BobSlashes, Proxy, ProxySlashes, Edge}
HeaderArrivals ==
  {Arrival(Headers(https, u, c, s, e), FALSE, NoTree, Call(Ping, "ping", ""))
   : https \in BOOLEAN, c \in Subjects, u, s, e \in Subjects \cup {Slash}}

MCArrivals == CallArrivals \cup PathArrivals \cup HeaderArrivals
================================================================================
