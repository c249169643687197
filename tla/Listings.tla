------------------------------ MODULE Listings ------------------------------
(***************************************************************************)
(* The listings of objects, page by page, and the loops of the server that *)
(* go through the pages of a listing while they change what it lists:      *)
(*   list    a client pages through one of the listings;                   *)
(*   walk    updateObjectRecursive and changeOwnerRecursive go through the *)
(*           children of a folder and update each of them;                 *)
(*   empty   expungeDeleted expunges the trash, batch by batch;            *)
(*   remove  DeleteObject and ExpungeObject go through the children of the *)
(*           object inside one transaction (what happens below a child is  *)
(*           the same again, and ObjectStore has the whole subtree).       *)
(* A listing without a recognised sort field is ordered by modifieddate,   *)
(* newest first: here "order" holds the rows in that order, and an update  *)
(* puts its row in front.  Dates differ here; names may not.               *)
(***************************************************************************)
EXTENDS Integers, Sequences, SequencesExt

CONSTANTS Objs,        \* the objects
          Top,         \* the folder or trash the loops work on, not one of Objs
          ListRows,    \* the rows a client may list
          Trees,       \* the parents the rows of a walk may have
          PageSizes,   \* page sizes asked for, out of range ones included
          MaxPageSize, \* OD_SERVER_MAXPAGESIZE
          Queries,     \* filters and sort order a client may ask with
          MaxOthers    \* bound on the changes of other users

ASSUME ListingsAssumption ==
    /\ IsFiniteSet(Objs) /\ Top \notin Objs /\ MaxPageSize \in Nat \ {0} /\ MaxOthers \in Nat
    /\ PageSizes \subseteq Int /\ \A r \in ListRows : r.name \in Int

VARIABLES job,      \* which of the loops runs
          row,      \* the rows
          order,    \* the rows, newest first
          ver,      \* their change token
          size,     \* the page size
          list,     \* the client's request, its page and what it got
          walk,     \* per folder: the walk through its children
          mode,     \* recursiveShare waits for a subtree, changeOwner does not
          applied,  \* the rows the walk updated
          others,   \* the rows other users changed meanwhile
          removed,  \* the rows other users put in the trash meanwhile
          batch     \* the loops "empty" and "remove"

vars == <<job, row, order, ver, size, list, walk, mode, applied, others, removed, batch>>
----------------------------------------------------------------------------
(* dao/paging.go and NewPagingRequest *)

(* What is left of a client's page size: between 1 and the maximum. *)
SanitizedSize(n) == IF n <= 0 THEN 1 ELSE IF n > MaxPageSize THEN MaxPageSize ELSE n

(* The filters of a query string: the i-th field goes with the i-th         *)
(* condition and expression, or with the first one when there are fewer.    *)
MakeFilterSettings(fields, conds, values) ==
    IF conds = <<>> \/ values = <<>> THEN <<>>
    ELSE [i \in DOMAIN fields |->
             [field |-> fields[i],
              cond  |-> IF i <= Len(conds) THEN conds[i] ELSE conds[1],
              value |-> IF i <= Len(values) THEN values[i] ELSE values[1]]]

NewPagingRequest(q) ==
    [filters |-> MakeFilterSettings(q.fields, q.conds, q.values),
     match |-> IF q.match \in {"all", "and"} THEN "and" ELSE "or",
     sort |-> q.sort, ascending |-> q.ascending]

GetOffset(page, n) == ((IF page < 1 THEN 1 ELSE page) - 1) * n

GetPageCount(total, n) == total \div n + (IF (total \div n) * n < total THEN 1 ELSE 0)
----------------------------------------------------------------------------
(* The queries *)

(* The where clauses.  read: the authorization cache links the row's ACM to *)
(* the user; owner is the user, one of his groups, or neither; everyone:    *)
(* f_share is empty; mine: the user gave another grantee a permission.      *)
JoinUserToACM(r) == r.read
IOwn(r) == r.owner = "me"
IOrMyGroupsOwn(r) == r.owner \in {"me", "group"}

GetChildObjects(f, r) == ~r.deleted /\ r.parent = f
GetChildObjectsByUser(f, r) == JoinUserToACM(r) /\ ~r.deleted /\ r.parent = f
GetRootObjectsByUser(r) == JoinUserToACM(r) /\ ~r.deleted /\ r.parent = "null" /\ IOwn(r)
GetRootObjectsWithPropertiesByGroup(r) == JoinUserToACM(r) /\ ~r.deleted /\ r.parent = "null" /\ r.owner = "group"
SearchObjects(r) == JoinUserToACM(r) /\ ~r.deleted /\ ~r.expunged /\ ~r.anc
GetTrashedObjectsByUser(r) == JoinUserToACM(r) /\ r.deleted /\ ~r.expunged /\ ~r.anc /\ IOrMyGroupsOwn(r)
GetObjectsSharedToEveryone(r) == JoinUserToACM(r) /\ ~r.deleted /\ r.everyone
GetObjectsSharedToMe(r) == JoinUserToACM(r) /\ ~r.deleted /\ ~IOrMyGroupsOwn(r) /\ ~r.everyone
GetObjectsIHaveShared(r) == JoinUserToACM(r) /\ ~r.deleted /\ r.mine

(* Which query a request makes; children is the server's own, for no user.  *)
(* Every one of them loads the properties of its rows.  (GetRootObjectsBy-  *)
(* Group, which does not, answers no listing: the server looks for a name   *)
(* with it.)                                                                *)
Where(kind, f, r) ==
    CASE kind = "children" -> GetChildObjects(f, r)
      [] kind = "folder"   -> GetChildObjectsByUser(f, r)
      [] kind = "root"     -> GetRootObjectsByUser(r)
      [] kind = "group"    -> GetRootObjectsWithPropertiesByGroup(r)
      [] kind = "search"   -> SearchObjects(r)
      [] kind = "trash"    -> GetTrashedObjectsByUser(r)
      [] kind = "public"   -> GetObjectsSharedToEveryone(r)
      [] kind = "toMe"     -> GetObjectsSharedToMe(r)
      [] kind = "byMe"     -> GetObjectsIHaveShared(r)

Kinds == {"folder", "root", "group", "search", "trash", "public", "toMe", "byMe"}

Compare(cond, v, x) ==
    CASE cond = "equals" -> v = x [] cond = "notequals" -> v # x
      [] cond = "morethan" -> v > x [] cond = "lessthan" -> v < x

(* A filter is on a column (here the name) or on a property of the object;  *)
(* 0 is the value of a property the object does not have.                   *)
KnownField(f) == f.field = "name"

(* buildFilter: the conditions on columns, joined by the match type.        *)
BuildFilter(req, r) ==
    LET known == {f \in ToSet(req.filters) : KnownField(f)}
        holds == {f \in known : Compare(f.cond, r.name, f.value)}
    IN  known = {} \/ (IF req.match = "and" THEN holds = known ELSE holds # {})

(* Mutant of PostProcess: a property the object lacks fails every filter. *)
PostProcessStrict(req, r) ==
    \/ req.match # "and"
    \/ \A f \in ToSet(req.filters) :
          KnownField(f) \/ (r.prop # 0 /\ Compare(f.cond, r.prop, f.value))

(* postProcessingFilterOnCustomProperties: with "and" only, and only on the *)
(* rows of the page; without the property a negated condition holds.        *)
PostProcess(req, r) ==
    \/ req.match # "and"
    \/ \A f \in ToSet(req.filters) :
          \/ KnownField(f)
          \/ IF r.prop # 0 THEN Compare(f.cond, r.prop, f.value) ELSE f.cond = "notequals"

(* The entries of s that are in S, in the order of s.                       *)
Only(s, S) ==
    LET upTo[i \in 0 .. Len(s)] ==
            IF i = 0 THEN <<>>
            ELSE IF s[i] \in S THEN Append(upTo[i - 1], s[i]) ELSE upTo[i - 1]
    IN  upTo[Len(s)]

(* The rows of the SQL result, and those the filter on properties leaves.   *)
Hits(kind, f, req) == {o \in Objs : Where(kind, f, row[o]) /\ BuildFilter(req, row[o])}
Kept(req) == {o \in Objs : PostProcess(req, row[o])}

(* buildOrderBy: the field asked for, or else the date of the last change   *)
(* (later in "order" is longer ago); descending unless asked otherwise.     *)
SortValue(req, o) ==
    IF req.sort = "name" THEN row[o].name ELSE Len(order) - (CHOOSE i \in DOMAIN order : order[i] = o)

Before(req, a, b) ==
    IF req.ascending THEN SortValue(req, a) < SortValue(req, b) ELSE SortValue(req, a) > SortValue(req, b)

(* The ways the database may arrange the result of a query.  The order has  *)
(* no further field that breaks a tie, and each page is a query of its own. *)
Arrangements(kind, f, req) ==
    {s \in SetToSeqs(Hits(kind, f, req)) : \A i, j \in DOMAIN s : i < j => ~Before(req, s[j], s[i])}

(* One page of the result "all": the rows between the limits, what the      *)
(* filter on properties leaves of them, and the counts, which are the SQL's.*)
Page(all, req, page, n) ==
    LET from == GetOffset(page, n)
        cut == SubSeq(all, from + 1, IF from + n < Len(all) THEN from + n ELSE Len(all))
    IN  [objs |-> Only(cut, Kept(req)), total |-> Len(all), pages |-> GetPageCount(Len(all), n)]

(* The server's own listings: no filter, newest first. *)
NoFilter == [filters |-> <<>>, match |-> "or", sort |-> "date", ascending |-> FALSE]
Newest(kind, f) == Only(order, Hits(kind, f, NoFilter))

Children(f, page, n) == Page(Newest("children", f), NoFilter, page, n)
----------------------------------------------------------------------------
(* A client pages through a listing *)

ListPage ==
    /\ job = "list" /\ ~list.done
    /\ \E all \in Arrangements(list.kind, Top, list.req) :
       LET p == Page(all, list.req, list.page, size)
       IN  list' = [list EXCEPT !.got = @ \o p.objs, !.page = @ + 1, !.done = list.page >= p.pages]
    /\ UNCHANGED <<job, row, order, ver, size, walk, mode, applied, others, removed, batch>>
----------------------------------------------------------------------------
(* The recursive walks *)

InFront(o) == <<o>> \o Only(order, Objs \ {o})
NoWalk == [st |-> "off", page |-> 0, todo |-> <<>>, more |-> FALSE, sub |-> Top]
Begin == [NoWalk EXCEPT !.st = "list", !.page = 1]

(* The next page of the children of folder f. *)
WalkList(f) ==
    /\ job = "walk" /\ walk[f].st = "list"
    /\ LET p == Children(f, walk[f].page, size)
       IN  walk' = [walk EXCEPT ![f].st = "apply",
                                ![f].todo = [i \in DOMAIN p.objs |-> [id |-> p.objs[i], ver |-> ver[p.objs[i]]]],
                                ![f].page = @ + 1,
                                ![f].more = walk[f].page + 1 <= p.pages]
    /\ UNCHANGED <<job, row, order, ver, size, list, mode, applied, others, removed, batch>>

(* The child may be changed by the caller, and UpdateObject takes it: its   *)
(* token is the one listed and it is not in the trash.                      *)
Takes(c) == row[c.id].may /\ ver[c.id] = c.ver /\ ~row[c.id].deleted

(* The children of a page one after the other: one that is refused is       *)
(* passed over with all that is below it; one that is updated is walked     *)
(* into, before the next (updateObjectRecursive) or besides it.             *)
WalkApply(f) ==
    /\ job = "walk" /\ walk[f].st = "apply" /\ walk[f].todo # <<>>
    /\ LET c == Head(walk[f].todo)
           w == [walk EXCEPT ![f].todo = Tail(@)]
       IN  IF Takes(c)
           THEN /\ applied' = applied \cup {c.id}
                /\ order' = InFront(c.id)
                /\ ver' = [ver EXCEPT ![c.id] = @ + 1]
                /\ walk' = [w EXCEPT ![c.id] = Begin,
                                     ![f].st = IF mode = "share" THEN "sub" ELSE @,
                                     ![f].sub = IF mode = "share" THEN c.id ELSE Top]
           ELSE walk' = w /\ UNCHANGED <<applied, order, ver>>
    /\ UNCHANGED <<job, row, size, list, mode, others, removed, batch>>

WalkReturn(f) ==
    /\ walk[f].st = "sub" /\ walk[walk[f].sub].st = "done"
    /\ walk' = [walk EXCEPT ![f].st = "apply", ![f].sub = Top]
    /\ UNCHANGED <<job, row, order, ver, size, list, mode, applied, others, removed, batch>>

(* Mutant of WalkNext: the walk ends with the first page. *)
WalkNextOnce(f) ==
    /\ job = "walk" /\ walk[f].st = "apply" /\ walk[f].todo = <<>>
    /\ walk' = [walk EXCEPT ![f].st = "done"]
    /\ UNCHANGED <<job, row, order, ver, size, list, mode, applied, others, removed, batch>>

(* The page is done: the next one, as long as there are more. *)
WalkNext(f) ==
    /\ job = "walk" /\ walk[f].st = "apply" /\ walk[f].todo = <<>>
    /\ walk' = [walk EXCEPT ![f].st = IF walk[f].more THEN "list" ELSE "done"]
    /\ UNCHANGED <<job, row, order, ver, size, list, mode, applied, others, removed, batch>>

Walk(f) == WalkList(f) \/ WalkApply(f) \/ WalkReturn(f) \/ WalkNext(f)

(* Another user updates a row, or puts one in the trash, meanwhile. *)
OtherUpdates(o) ==
    /\ job = "walk" /\ ~row[o].deleted /\ o \notin others
    /\ Cardinality(others \cup removed) < MaxOthers
    /\ others' = others \cup {o}
    /\ order' = InFront(o) /\ ver' = [ver EXCEPT ![o] = @ + 1]
    /\ UNCHANGED <<job, row, size, list, walk, mode, applied, removed, batch>>

OtherRemoves(o) ==
    /\ job = "walk" /\ ~row[o].deleted
    /\ Cardinality(others \cup removed) < MaxOthers
    /\ removed' = removed \cup {o}
    /\ row' = [row EXCEPT ![o].deleted = TRUE] /\ ver' = [ver EXCEPT ![o] = @ + 1]
    /\ UNCHANGED <<job, order, size, list, walk, mode, applied, others, batch>>
----------------------------------------------------------------------------
(* Emptying the trash *)

(* Mutants of BatchPages: a page that is not full does not count; a batch   *)
(* without objects counts as one page.                                      *)
BatchPagesDiv(k, n) == IF k = 0 THEN 0 ELSE (k - 1) \div n
BatchPagesNever(k, n) == IF k = 0 THEN 1 ELSE GetPageCount(k, n)

(* The page count of a batch of k objects: the total is set after the count *)
(* of pages was made from it, so it is the count for one object less.       *)
BatchPages(k, n) == IF k = 0 THEN 0 ELSE GetPageCount(k - 1, n)

(* One transaction of ExpungeDeletedByUser: always the first page of the    *)
(* trash.  "If we deleted 0 objects this time, then we are clean."  But an  *)
(* error of the listing is overwritten by the next statement's, and leaves  *)
(* a batch of none; and an error of Commit is not looked at.                *)
EmptyBatch ==
    /\ job = "empty" /\ ~batch.done
    /\ \E listed, committed \in BOOLEAN :
          LET p == IF listed THEN Page(Newest("trash", Top), NoFilter, 1, size).objs ELSE <<>>
              ids == ToSet(p)
              stop == BatchPages(Len(p), size) = 0
          IN  /\ row' = IF committed
                        THEN [o \in Objs |-> IF o \in ids THEN [row[o] EXCEPT !.expunged = TRUE] ELSE row[o]]
                        ELSE row
              /\ batch' = [batch EXCEPT !.done = stop, !.told = IF stop THEN @ ELSE @ \cup ids,
                                        !.lost = stop /\ ~(listed /\ committed)]
    /\ UNCHANGED <<job, order, ver, size, list, walk, mode, applied, others, removed>>

(* Any other error, of the details of a listed object or of an update,      *)
(* rolls the batch back, and the answer tells of none of them.              *)
EmptyFails ==
    /\ job = "empty" /\ ~batch.done
    /\ batch' = [batch EXCEPT !.done = TRUE, !.failed = TRUE, !.told = {}]
    /\ UNCHANGED <<job, row, order, ver, size, list, walk, mode, applied, others, removed>>

(* Another request of the user puts one more object in the trash. *)
OtherTrashes(o) ==
    /\ job = "empty" /\ ~batch.done /\ ~row[o].deleted
    /\ removed' = removed \cup {o}
    /\ row' = [row EXCEPT ![o].deleted = TRUE]
    /\ UNCHANGED <<job, order, ver, size, list, walk, mode, applied, others, batch>>
----------------------------------------------------------------------------
(* Deleting the children of an object *)

(* deletedAtLeastOne after a page: what happened to its last object. *)
AtLeastOne(p, was) == IF p = <<>> THEN was ELSE row[Last(p)].may

(* Mutant of RemoveBatch: the page number always moves on. *)
RemoveBatchOn ==
    /\ job = "remove" /\ ~batch.done
    /\ LET p == Children(Top, batch.page, size)
           one == AtLeastOne(p.objs, batch.one)
       IN  /\ row' = [o \in Objs |-> IF o \in ToSet(p.objs) /\ row[o].may
                                     THEN [row[o] EXCEPT !.deleted = TRUE, !.anc = TRUE] ELSE row[o]]
           /\ batch' = [batch EXCEPT !.one = one, !.page = @ + 1, !.done = ~(p.pages > batch.page /\ batch.one)]
    /\ UNCHANGED <<job, order, ver, size, list, walk, mode, applied, others, removed>>

(* One turn of the loop over the pages of the children: whether there is    *)
(* another turn is decided before this page is gone through, and the page   *)
(* number only moves on when the page's last object stayed.                 *)
RemoveBatch ==
    /\ job = "remove" /\ ~batch.done
    /\ LET p == Children(Top, batch.page, size)
           one == AtLeastOne(p.objs, batch.one)
       IN  /\ row' = [o \in Objs |-> IF o \in ToSet(p.objs) /\ row[o].may
                                     THEN [row[o] EXCEPT !.deleted = TRUE, !.anc = TRUE] ELSE row[o]]
           /\ batch' = [batch EXCEPT !.one = one, !.page = IF one THEN @ ELSE @ + 1,
                                     !.done = ~(p.pages > batch.page /\ batch.one)]
    /\ UNCHANGED <<job, order, ver, size, list, walk, mode, applied, others, removed>>

(* The listing of a page fails, which the loop does not look at: it has no  *)
(* rows, or rows without a count of pages, or the details of the first k    *)
(* only.  A row without details shows no permission to delete it.           *)
RemoveUnlisted ==
    /\ job = "remove" /\ ~batch.done
    /\ LET p == Children(Top, batch.page, size)
       IN  \E k \in 0 .. Len(p.objs), counted \in BOOLEAN :
              /\ k < Len(p.objs) \/ p.objs = <<>>
              /\ k > 0 => counted
              /\ row' = [o \in Objs |-> IF o \in ToSet(SubSeq(p.objs, 1, k)) /\ row[o].may
                                        THEN [row[o] EXCEPT !.deleted = TRUE, !.anc = TRUE] ELSE row[o]]
              /\ batch' = [batch EXCEPT !.one = FALSE, !.page = @ + 1, !.lost = TRUE,
                                        !.done = ~(counted /\ p.pages > batch.page /\ batch.one)]
    /\ UNCHANGED <<job, order, ver, size, list, walk, mode, applied, others, removed>>
----------------------------------------------------------------------------
NewRow == [parent |-> Top, deleted |-> FALSE, anc |-> FALSE, expunged |-> FALSE, owner |-> "me",
           read |-> TRUE, everyone |-> FALSE, mine |-> FALSE, name |-> 1, prop |-> 0, may |-> TRUE]
NoList == [kind |-> "none", req |-> NoFilter, page |-> 1, got |-> <<>>, done |-> TRUE]
NoBatch == [page |-> 1, one |-> TRUE, done |-> TRUE, failed |-> FALSE, lost |-> FALSE, told |-> {}]

(* The rows each loop starts from.  Any order of the rows is a matter of    *)
(* their names.                                                             *)
Init ==
    /\ order = SetToSeq(Objs)
    /\ ver = [o \in Objs |-> 0]
    /\ applied = {} /\ others = {} /\ removed = {}
    /\ \/ /\ job = "list" /\ mode = "none"
          /\ row \in [Objs -> ListRows]
          /\ size \in {SanitizedSize(n) : n \in PageSizes}
          /\ list \in [kind : Kinds, req : {NewPagingRequest(q) : q \in Queries}, page : {1}, got : {<<>>}, done : {FALSE}]
          /\ walk = [f \in Objs \cup {Top} |-> NoWalk] /\ batch = NoBatch
       \/ /\ job = "walk" /\ mode \in {"share", "owner"}
          /\ \E tree \in Trees, may \in SUBSET Objs :
                row = [o \in Objs |-> [NewRow EXCEPT !.parent = tree[o], !.may = o \in may]]
          /\ size \in 1..MaxPageSize
          /\ walk = [f \in Objs \cup {Top} |-> IF f = Top THEN Begin ELSE NoWalk]
          /\ list = NoList /\ batch = NoBatch
       \/ /\ job = "empty" /\ mode = "none"
          /\ \E trash \in SUBSET Objs : row = [o \in Objs |-> [NewRow EXCEPT !.deleted = o \in trash]]
          /\ size \in 1..MaxPageSize
          /\ batch = [NoBatch EXCEPT !.done = FALSE]
          /\ walk = [f \in Objs \cup {Top} |-> NoWalk] /\ list = NoList
       \/ /\ job = "remove" /\ mode = "none"
          /\ \E may \in SUBSET Objs : row = [o \in Objs |-> [NewRow EXCEPT !.may = o \in may]]
          /\ size \in 1..MaxPageSize
          /\ batch = [NoBatch EXCEPT !.done = FALSE]
          /\ walk = [f \in Objs \cup {Top} |-> NoWalk] /\ list = NoList

Server ==
    \/ ListPage \/ EmptyBatch \/ RemoveBatch
    \/ \E f \in Objs \cup {Top} : Walk(f)

Next ==
    \/ Server \/ EmptyFails \/ RemoveUnlisted
    \/ \E o \in Objs : OtherUpdates(o) \/ OtherRemoves(o) \/ OtherTrashes(o)

(* A request, once begun, is worked on. *)
Spec == Init /\ [][Next]_vars /\ WF_vars(Server)
----------------------------------------------------------------------------
(* What the documentation says of the filters: with "and" the objects for   *)
(* which every filter holds, properties included; otherwise those for which *)
(* a filter on a column holds.                                              *)
Asked(req, r) ==
    LET Holds(f) == IF KnownField(f) THEN Compare(f.cond, r.name, f.value)
                    ELSE IF r.prop = 0 THEN f.cond = "notequals" ELSE Compare(f.cond, r.prop, f.value)
        fs == ToSet(req.filters)
    IN  IF req.match = "and" THEN \A f \in fs : Holds(f)
        ELSE \A f \in fs : KnownField(f) => \E g \in fs : KnownField(g) /\ Holds(g)

(* The pages of a listing that nobody changes meanwhile hold nothing but    *)
(* what was asked for, in the order asked for, although the total and the   *)
(* page count are made before the filter on properties; and every object    *)
(* asked for exactly once, if no other hit of the query has its sort value. *)
(* (Of objects with the same value, a page may repeat one and none hold     *)
(* another: the database need not arrange them alike for every page.)       *)
PagesExact ==
    job = "list" /\ list.done =>
        LET got == list.got
            asked == {o \in Objs : Where(list.kind, Top, row[o]) /\ Asked(list.req, row[o])}
            Alone(o) == \A x \in Hits(list.kind, Top, list.req) :
                           SortValue(list.req, x) = SortValue(list.req, o) => x = o
        IN  /\ ToSet(got) \subseteq asked
            /\ \A i, j \in DOMAIN got : i < j => ~Before(list.req, got[j], got[i])
            /\ \A o \in asked : Alone(o) =>
                  \E i \in DOMAIN got : got[i] = o /\ \A j \in DOMAIN got : got[j] = o => j = i

WalkOver == job = "walk" /\ \A f \in Objs \cup {Top} : walk[f].st \in {"off", "done"}

(* A recursive share or change of owner reaches every row it may change and *)
(* nobody else touched, below the top and below every folder it reached, at *)
(* any depth, although it reorders the pages under its own feet and other   *)
(* users update rows meanwhile: those come to the front and only push the   *)
(* others back.  (A row that is taken out of the listing pulls the others   *)
(* forward.  An error of the walk's own: a page that cannot be listed ends  *)
(* it and an update that fails is passed over; neither happens here.)       *)
WalkReaches ==
    WalkOver /\ removed = {} =>
        \A o \in Objs : row[o].may /\ o \notin others /\ row[o].parent \in applied \cup {Top}
                           => o \in applied

(* When the request to empty the trash succeeds, its answer misses at most  *)
(* one of the objects expunged; and, in batches of more than one object,    *)
(* the trash is left empty, whatever was put in meanwhile, unless the last  *)
(* batch could not be listed or committed: that is not noticed.             *)
TrashEmptied ==
    job = "empty" /\ batch.done /\ ~batch.failed =>
        /\ Cardinality({o \in Objs : row[o].expunged} \ batch.told) <= 1
        /\ size > 1 /\ ~batch.lost => \A o \in Objs : row[o].deleted => row[o].expunged

(* Deleting an object all of whose children the user may delete leaves none *)
(* behind, whatever number of pages they fill, unless a page of them could  *)
(* not be listed: that is not noticed either.                               *)
ChildrenGone ==
    job = "remove" /\ batch.done /\ ~batch.lost /\ (\A o \in Objs : row[o].may) =>
        \A o \in Objs : row[o].deleted

(* Every loop over pages comes to an end, unless the commits of the trash's *)
(* batches fail for ever.                                                   *)
LoopsEnd == <>(list.done /\ batch.done /\ (job = "walk" => WalkOver))
=============================================================================
