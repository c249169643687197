--------------------------------- MODULE Client ---------------------------------
(***************************************************************************)
(* The requests that the Go client library makes (client.go), as the method *)
(* and the URI below the root of the service.  A URI is the sequence of the *)
(* segments between its slashes; one that ends with a slash ends with "".  *)
(* Request bodies, headers and the query are left out.                     *)
(***************************************************************************)
EXTENDS Sequences, TLC

Get(uri) == [method |-> "GET", uri |-> uri]
Post(uri) == [method |-> "POST", uri |-> uri]
Delete(uri) == [method |-> "DELETE", uri |-> uri]

(* newOwner is a resource string, which has slashes: a sequence. *)
ChangeOwner(id, newOwner) == Post(<<"objects", id, "owner">> \o newOwner)
CopyObject(id) == Post(<<"objects", id, "copy">>)
CreateObject == Post(<<"objects">>)
DeleteObject(id) == Post(<<"objects", id, "trash">>)
ExpungeObject(id) == Delete(<<"objects", id>>)
GetObject(id) == Get(<<"objects", id, "properties">>)
GetObjectStream(id) == Get(<<"objects", id, "stream">>)
GetRevisions(id) == Get(<<"revisions", id>>)

(***************************************************************************)
(* The revision is converted with string(changeCount), which is not its    *)
(* decimal form but the character of that code point.                      *)
(***************************************************************************)
CodePoint(n) == "char " \o ToString(n)
GetRevisionStream(id, n) == Get(<<"revisions", id, CodePoint(n), "stream">>)
Itoa(n) == ToString(n)
RestoreRevision(id, n) == Post(<<"revisions", id, Itoa(n), "restore">>)

(* parent is "" for the root of the caller. *)
MoveObject(id, parent) == Post(<<"objects", id, "move", parent>>)
Ping == Get(<<"ping">>)

(* Search of all objects, or the listing of a folder or, with "", the root. *)
SearchAll == Get(<<"search", "using-client-library">>)
Search(parent) == Get(<<"objects">> \o IF parent = "" THEN <<>> ELSE <<parent>>)
UpdateObject(id) == Post(<<"objects", id, "properties">>)
UpdateObjectAndStream(id) == Post(<<"objects", id, "stream">>)
================================================================================
