------------------------------- MODULE Sharing -------------------------------
(***************************************************************************)
(* Who may do what with an object: its permissions, the share of its ACM,  *)
(* and the requests that change them: shares, updates, changes of owner.   *)
(*                                                                         *)
(* An object has its access rules twice.  The rows of object_permission    *)
(* say what a grantee may do, each row with a copy of the content's key    *)
(* and a MAC without which the row does not count.  The share in the ACM   *)
(* says who may read, and is what the authorization service and the        *)
(* listings go by; an empty share stands for everyone.                     *)
(*                                                                         *)
(* A request reads the object, makes out the rows to delete and to add     *)
(* and the new share, and hands them to UpdateObject, whose transaction    *)
(* compares the change token, then waits for the row.  Several requests    *)
(* are under way at once.                                                  *)
(*                                                                         *)
(* create, update and delete are treated alike by this code: one right,    *)
(* "U", stands for the three.                                              *)
(***************************************************************************)
EXTENDS Integers, FiniteSets, Sequences, SequencesExt

CONSTANTS Users, Groups,
          Everyone,      \* models.EveryoneGroup
          Member,        \* the groups of each user
          Reqs,          \* requests under way at the same time
          Created,       \* how the object may have been created
          ShareInputs,   \* what a share request may say: rights, and to whom
          UpdateInputs,  \* what an update may give: ACM and permission
          NewOwners,     \* whom the object may be given to
          MaxRequests    \* bound on the requests altogether

Rights == {"R", "U", "S"}
Grantees == Users \cup Groups \cup {Everyone}

ASSUME SharingAssumption ==
    /\ Everyone \notin Users \cup Groups
    /\ Member \in [Users -> SUBSET Groups] /\ MaxRequests \in Nat
    /\ \A in \in Created : in.owner \in Users \cup Groups /\ in.share \subseteq Grantees
    /\ \A in \in ShareInputs :
          IsFiniteSet(in.to) /\ in.to \subseteq Grantees /\ in.rights \subseteq Rights
    /\ \A in \in UpdateInputs : in.acm.share \subseteq Grantees
    /\ NewOwners \subseteq Grantees

VARIABLES obj,     \* the row: owner, share, change token, deleted, its permissions
          hist,    \* the share of each revision, oldest first
          req,     \* the requests under way
          count,   \* the requests so far
          missed,  \* an update found its row changed
          copy     \* a copy of the object

vars == <<obj, hist, req, count, missed, copy>>
----------------------------------------------------------------------------
(* Permissions *)

Perm(g, rights, key) == [g |-> g, rights |-> rights, at |-> 0, key |-> key]
PermissionForOwner(g) == Perm(g, Rights, FALSE)
PermissionWithoutRead(p) == Perm(p.g, p.rights \ {"R"}, FALSE)

(* Mutant: a right read for a grantee replaces the one before it. *)
MapPermissionOverwritten(api) ==
    LET Given(g, right) == g \in api[right].allow \ api[right].deny
    IN  {Perm(g, {CHOOSE x \in Rights : Given(g, x)}, FALSE) : g \in {x \in Grantees : \E y \in Rights : Given(x, y)}}

(* The permission of the API lists for each right whom it is allowed and    *)
(* denied.  Merged by grantee, it makes the permissions of a request; a     *)
(* resource both allowed and denied is denied.                              *)
MapPermissionToODPermissions(api) ==
    LET Given(g, right) == g \in api[right].allow \ api[right].deny
    IN  {Perm(g, {x \in Rights : Given(g, x)}, FALSE) : g \in {x \in Grantees : \E y \in Rights : Given(x, y)}}

(* The rows as the API shows them: each grantee with his rights and those   *)
(* of a row of everyone's, the first that was read.                         *)
MapODPermissionsToPermission(ps) ==
    LET all == {p \in ps : p.g = Everyone}
        With(rights) == [x \in Rights |-> [allow |-> {p.g : p \in {y \in ps : x \in y.rights \cup rights}},
                                           deny |-> {}]]
    IN  IF all = {} THEN {With({})} ELSE {With(p.rights) : p \in all}

(* A share request names users and groups and says what all of them get;    *)
(* in which order they come is up to Go's maps.                             *)
MapObjectShareToODPermissions(in) ==
    {[i \in DOMAIN s |-> Perm(s[i], in.rights, FALSE)] : s \in SetToSeqs(in.to)}

Readers(ps) == {p.g : p \in {x \in ps : "R" \in x.rights}}

(* Which permissions of ps count for user c, and what those of them add up  *)
(* to that have at least one of the rights asked for.                       *)
Mine(c, ps) == {p \in ps : p.g \in {c, Everyone} \cup Member[c] /\ p.key}
Rollup(c, ps, required) ==
    UNION {p.rights : p \in {x \in Mine(c, ps) : x.rights \cap required # {}}}
IsUserAllowedTo(c, ps, required) == required \subseteq Rollup(c, ps, required)

(* The answer of the authorization service for user c and an ACM. *)
IsUserAuthorizedForACM(c, share) == share = {} \/ share \cap ({c} \cup Member[c]) # {}

IsUserOwner(c, owner) == owner \in {c} \cup Member[c]

(* Mutant: a read permission of everyone leaves the share as it is. *)
InjectWithoutReset(ps, share) == share \cup (Readers(ps) \ {Everyone})

(* A read permission of everyone resets the share, the others add to it. *)
InjectPermissionsIntoACM(ps, share) ==
    IF Everyone \in Readers(ps) THEN {} ELSE share \cup Readers(ps)

RebuildACMFromPermissions(ps) == InjectPermissionsIntoACM(ps, {})

(* The rights of p that no permission of ps has for its grantee or for      *)
(* everyone.                                                                *)
ReduceGrants(ps, p) == p.rights \ UNION {x.rights : x \in {y \in ps : y.g \in {p.g, Everyone}}}

(* The grants of new permissions to the same grantee in one. *)
Consolidate(ps) ==
    {Perm(g, UNION {p.rights : p \in {x \in ps : x.g = g}}, FALSE) : g \in {p.g : p \in ps}}

(* Mutant: an owner who is not in the share has no permission of his own. *)
NormalizeNoOwner(owner, old, new, share) ==
    LET public == share = {}
        has == \E p \in old \cup new : p.g = Everyone /\ "R" \in p.rights
        out == {p \in old : ~public /\ p.g = Everyone /\ "R" \in p.rights}
        all == {Perm(g, {"R"}, FALSE) : g \in share} \cup new
               \cup (IF public /\ ~has THEN {Perm(Everyone, {"R"}, FALSE)} ELSE {})
    IN  [del |-> out, add |-> all, share |-> RebuildACMFromPermissions((old \ out) \cup all)]

(* What the ACM's share and the permissions old (in the database) and new   *)
(* make together: readers come from the share; a read permission of         *)
(* everyone and a share exclude each other, and the share wins; when        *)
(* everyone reads, nobody else has a read permission of his own; the owner  *)
(* always has everything.                                                   *)
NormalizePermissionsFromACM(owner, old, new, share) ==
    LET public == share = {}
        ByAll(p) == p.g = Everyone /\ "R" \in p.rights
        Stays(p) == ~ByAll(p) \/ public
        lines == {Perm(g, {"R"}, FALSE) : g \in share}
                 \cup {p \in new : Stays(p)}
                 \cup (IF public /\ ~\E p \in old \cup new : ByAll(p)
                       THEN {Perm(Everyone, {"R"}, FALSE)} ELSE {})
                 \cup {PermissionForOwner(owner)}
        Split(p) == public /\ "R" \in p.rights /\ p.g # Everyone
        out == {p \in old : ~Stays(p) \/ Split(p) \/ p.rights = {}}
        made == {p \in lines : ~Split(p)}
                \cup {PermissionWithoutRead(p) : p \in {x \in lines \cup old : Split(x)}}
        add == {p \in made : p.rights # {}}
    IN  [del |-> out, add |-> add, share |-> RebuildACMFromPermissions((old \ out) \cup add)]
----------------------------------------------------------------------------
(* What the handlers make out of a request.  A plan says what UpdateObject  *)
(* is to do; need says that the right to share is looked at once more.      *)

Refused == [ok |-> FALSE]

(* Mutant: the key is not copied to what is added. *)
PlanWithoutKey(owner, share, del, add, need) ==
    [ok |-> TRUE, owner |-> owner, share |-> share, del |-> del, add |-> add, need |-> need]

Plan(owner, share, del, add, need) ==
    [ok |-> TRUE, owner |-> owner, share |-> share, del |-> del,
     add |-> {[p EXCEPT !.key = TRUE] : p \in add}, need |-> need]

(* Mutant: what the sharer has is not looked at. *)
VerifyNothing(rollup, asked) == asked # <<>>

VerifyPermissionToShare(rollup, asked) == \A i \in DOMAIN asked : asked[i].rights \subseteq rollup

(* A share with read access for someone ends that of everyone, and the      *)
(* owner, who may have read through everyone, gets his own.  One after the  *)
(* other, the grantees get what neither the permissions nor the grants      *)
(* before theirs give them or everyone.                                     *)
AddObjectShare(c, o, asked) ==
    LET rollup == Rollup(c, o.perms, {"R", "S"})
        removing == /\ \E p \in o.perms : p.g = Everyone
                    /\ \E i \in DOMAIN asked : "R" \in asked[i].rights /\ asked[i].g # Everyone
        del == {p \in o.perms : removing /\ p.g = Everyone}
        list == IF removing THEN Append(asked, Perm(o.owner, {"R"}, FALSE)) ELSE asked
        Left(i) == ReduceGrants((o.perms \ del) \cup {list[j] : j \in 1 .. i - 1}, list[i])
        add == {Perm(list[i].g, Left(i), FALSE) : i \in {k \in DOMAIN list : Left(k) # {}}}
        share == RebuildACMFromPermissions((o.perms \ del) \cup add)
    IN  IF /\ {"R", "S"} \subseteq rollup /\ VerifyPermissionToShare(rollup, list)
           /\ removing \/ add # {}
           /\ IsUserAuthorizedForACM(c, share)
        THEN Plan(o.owner, share, del, add, FALSE) ELSE Refused

(* Mutant: of the rows of a grantee only one goes. *)
RemoveObjectShareOne(c, o, asked) ==
    LET rollup == Rollup(c, o.perms, {"R", "S"})
        named == {p \in o.perms : p.g # o.owner /\ \E i \in DOMAIN asked : p.g = asked[i].g}
        del == IF named = {} THEN {} ELSE {CHOOSE p \in named : TRUE}
        back == ReduceGrants(o.perms \ del, PermissionForOwner(o.owner))
        add == IF back # {} THEN {Perm(o.owner, back, FALSE)} ELSE {}
        share == RebuildACMFromPermissions((o.perms \ del) \cup add)
    IN  IF {"R", "S"} \subseteq rollup /\ del # {} /\ IsUserAuthorizedForACM(c, share)
        THEN Plan(o.owner, share, del, add, FALSE) ELSE Refused

(* The permissions of the grantees named go, the owner's excepted; with     *)
(* those of everyone gone the owner gets back what he lacks.                *)
RemoveObjectShare(c, o, asked) ==
    LET rollup == Rollup(c, o.perms, {"R", "S"})
        names == {asked[i].g : i \in DOMAIN asked} \ {o.owner}
        verified == \A i \in DOMAIN asked : asked[i].g # o.owner => asked[i].rights \subseteq rollup
        del == {p \in o.perms : p.g \in names}
        back == ReduceGrants(o.perms \ del, PermissionForOwner(o.owner))
        public == Everyone \in names /\ \E p \in o.perms : p.g = Everyone
        add == IF public /\ back # {} THEN {Perm(o.owner, back, FALSE)} ELSE {}
        share == RebuildACMFromPermissions((o.perms \ del) \cup add)
    IN  IF {"R", "S"} \subseteq rollup /\ verified /\ del # {} /\ IsUserAuthorizedForACM(c, share)
        THEN Plan(o.owner, share, del, add, FALSE) ELSE Refused

(* An update may give an ACM, permissions, both or neither.  With an ACM or *)
(* permissions given, those in the database go, and the ACM says who reads. *)
UpdateObject(c, o, in) ==
    LET new == MapPermissionToODPermissions(in.permission)
        old == IF in.acm.given \/ new # {} THEN {} ELSE o.perms
        n == NormalizePermissionsFromACM(o.owner, old, new, IF in.acm.given THEN in.acm.share ELSE o.share)
    IN  IF /\ IsUserAllowedTo(c, o.perms, {"R", "U"})
           /\ IsUserAuthorizedForACM(c, o.share) /\ IsUserAuthorizedForACM(c, n.share)
        THEN Plan(o.owner, n.share, n.del \cup (o.perms \ old), Consolidate(n.add), n.share # o.share)
        ELSE Refused

(* The new owner gets everything besides the old one; the object moves to   *)
(* his root.                                                                *)
ChangeOwnerRaw(c, o, new) ==
    LET grant == {Perm(new, Rights, FALSE)}
        share == InjectPermissionsIntoACM(o.perms \cup grant, o.share)
        n == NormalizePermissionsFromACM(o.owner, o.perms, grant, share)
    IN  IF new # o.owner /\ new # Everyone /\ IsUserAuthorizedForACM(c, n.share)
        THEN Plan(new, n.share, n.del, Consolidate(n.add), FALSE) ELSE Refused

(* To another user, or to a group of the caller's. *)
ChangeOwner(c, o, new) ==
    IF /\ IsUserAllowedTo(c, o.perms, {"R", "U"}) /\ Member[c] # {} /\ IsUserOwner(c, o.owner)
       /\ new # c /\ new \in Users \cup Member[c]
    THEN ChangeOwnerRaw(c, o, new) ELSE Refused

(* The bulk request does not look at whom the objects go to. *)
BulkOwnership(c, o, new) ==
    IF IsUserAllowedTo(c, o.perms, {"R", "U"}) /\ IsUserOwner(c, o.owner)
    THEN ChangeOwnerRaw(c, o, new) ELSE Refused

(* A restored version keeps the permissions and the ACM. *)
RestoreVersion(c, o) ==
    IF IsUserAllowedTo(c, o.perms, {"R", "U"}) /\ IsUserAuthorizedForACM(c, o.share)
    THEN Plan(o.owner, o.share, {}, {}, FALSE) ELSE Refused
----------------------------------------------------------------------------
(* The requests *)

Idle == [st |-> "idle", op |-> "none", c |-> "none", tok |-> 0, asked |-> <<>>, rollup |-> {},
         was |-> "none", plan |-> Refused]

(* A handler reads the object and makes its plan; a refused request changes *)
(* nothing and is over.                                                     *)
Start(r, c, op, asked, plan) ==
    /\ req[r].st = "idle" /\ count < MaxRequests /\ ~obj.deleted /\ plan.ok
    /\ count' = count + 1
    /\ req' = [req EXCEPT ![r] = [st |-> "planned", op |-> op, c |-> c, tok |-> obj.tok, asked |-> asked,
                                  rollup |-> Rollup(c, obj.perms, {"R", "S"}), was |-> obj.owner, plan |-> plan]]
    /\ UNCHANGED <<obj, hist, missed, copy>>

Share(r, c)   == \E in \in ShareInputs : \E a \in MapObjectShareToODPermissions(in) :
                    Start(r, c, "add", a, AddObjectShare(c, obj, a))
Unshare(r, c) == \E in \in ShareInputs : \E a \in MapObjectShareToODPermissions(in) :
                    Start(r, c, "remove", a, RemoveObjectShare(c, obj, a))
Update(r, c)  == \E in \in UpdateInputs : Start(r, c, "update", <<>>, UpdateObject(c, obj, in))
Resend(r, c)  == \E api \in MapODPermissionsToPermission(obj.perms) :
                    Start(r, c, "resend", <<>>,
                          UpdateObject(c, obj, [acm |-> [given |-> TRUE, share |-> obj.share], permission |-> api]))
Give(r, c)    == \E n \in NewOwners :
                    \/ Start(r, c, "owner", <<>>, ChangeOwner(c, obj, n))
                    \/ Start(r, c, "owner", <<>>, BulkOwnership(c, obj, n))
Restore(r, c) == Start(r, c, "restore", <<>>, RestoreVersion(c, obj))

(* A changed share needs the right to share, looked up in the permissions   *)
(* as they are now; then the transaction begins and compares the token.     *)
BeginUpdate(r) ==
    /\ req[r].st = "planned"
    /\ IF /\ req[r].plan.need => IsUserAllowedTo(req[r].c, obj.perms, {"R", "S"})
          /\ req[r].tok = obj.tok /\ ~obj.deleted
       THEN req' = [req EXCEPT ![r].st = "begun"]
       ELSE req' = [req EXCEPT ![r] = Idle]
    /\ UNCHANGED <<obj, hist, count, missed, copy>>

(* The UPDATE names the token; that it finds no row is not an error, and    *)
(* the permissions are deleted and added all the same.                      *)
WriteObject(r) ==
    /\ req[r].st = "begun"
    /\ LET p == req[r].plan
           perms == (obj.perms \ p.del) \cup {[x EXCEPT !.at = req[r].tok + 1] : x \in p.add}
       IN  IF req[r].tok = obj.tok
           THEN /\ obj' = [obj EXCEPT !.owner = p.owner, !.share = p.share, !.tok = @ + 1, !.perms = perms]
                /\ hist' = Append(hist, p.share) /\ UNCHANGED missed
           ELSE obj' = [obj EXCEPT !.perms = perms] /\ missed' = TRUE /\ UNCHANGED hist
    /\ req' = [req EXCEPT ![r] = Idle]
    /\ UNCHANGED <<count, copy>>

(* The database or the authorization service fails the request. *)
Fails(r) ==
    /\ req[r].st # "idle"
    /\ req' = [req EXCEPT ![r] = Idle]
    /\ UNCHANGED <<obj, hist, count, missed, copy>>

(* Another request puts the object in the trash. *)
Trash ==
    /\ ~obj.deleted /\ count < MaxRequests
    /\ count' = count + 1
    /\ obj' = [obj EXCEPT !.deleted = TRUE, !.tok = @ + 1]
    /\ hist' = Append(hist, obj.share)
    /\ UNCHANGED <<req, missed, copy>>

(* The revisions asked for are those whose ACM lets the caller read, in     *)
(* order, and a page of one, as the request names no size: the oldest is    *)
(* all that is copied, with the present permissions and the caller's own.   *)
(* Permissions that come out of NormalizePermissionsFromACM get no key.     *)
CopyObject(c) ==
    /\ copy.owner = "none" /\ ~obj.deleted /\ count < MaxRequests
    /\ IsUserAllowedTo(c, obj.perms, {"R"}) /\ IsUserAuthorizedForACM(c, obj.share)
    /\ LET Allowed(share) == IsUserAuthorizedForACM(c, share)
           own == {Perm(c, Rights, TRUE)}
           share == InjectPermissionsIntoACM(obj.perms \cup own, Head(SelectSeq(hist, Allowed)))
           n == NormalizePermissionsFromACM(c, obj.perms, own, share)
       IN  copy' = [owner |-> c, share |-> n.share, perms |-> (obj.perms \ n.del) \cup n.add]
    /\ count' = count + 1
    /\ UNCHANGED <<obj, hist, req, missed>>
----------------------------------------------------------------------------
(* createObject: the owner's permission, those of the request, one key for  *)
(* all of them.                                                             *)
CreateObject(in) ==
    LET asked == MapPermissionToODPermissions(in.permission) \cup {PermissionWithoutRead(PermissionForOwner(in.owner))}
        n == NormalizePermissionsFromACM(in.owner, {}, asked, InjectPermissionsIntoACM(asked, in.share))
    IN  [owner |-> in.owner, share |-> n.share, tok |-> 0, deleted |-> FALSE,
         perms |-> {[p EXCEPT !.key = TRUE] : p \in Consolidate(n.add)}]

Init ==
    /\ obj \in {CreateObject(in) : in \in Created}
    /\ hist = <<obj.share>>
    /\ req = [r \in Reqs |-> Idle] /\ count = 0 /\ missed = FALSE
    /\ copy = [owner |-> "none", share |-> {}, perms |-> {}]

Next ==
    \/ Trash
    \/ \E r \in Reqs : BeginUpdate(r) \/ WriteObject(r) \/ Fails(r)
    \/ \E c \in Users :
          \/ CopyObject(c)
          \/ \E r \in Reqs : Share(r, c) \/ Unshare(r, c) \/ Update(r, c) \/ Resend(r, c) \/ Give(r, c) \/ Restore(r, c)

Spec == Init /\ [][Next]_vars
----------------------------------------------------------------------------
(* What the share of an ACM is for the rows ps: the readers, or nobody named *)
(* when everyone reads.                                                    *)
ShareOf(ps) == IF Everyone \in Readers(ps) THEN {} ELSE Readers(ps)

(* What the service and the listings go by is what the permissions say:     *)
(* the share names exactly the grantees with a read permission, and it is   *)
(* only empty, which opens the object to everyone, when everyone has one.   *)
(* (As long as no update missed its row.)                                   *)
AcmFollowsPermissions ==
    ~missed => Readers(obj.perms) # {} /\ obj.share = ShareOf(obj.perms)

(* What a grantee's permissions and everyone's add up to. *)
Held(g, ps) == UNION {p.rights : p \in {x \in ps : x.g \in {g, Everyone} /\ x.key}}

(* Through shares, updates, and changes of owner, to private, shared and    *)
(* back, the owner keeps every right on his object.                         *)
OwnerControls == ~missed => Held(obj.owner, obj.perms) = Rights

(* Every permission in the database carries the key, so that nobody is shut *)
(* out by a row the MAC check skips, and who makes a copy can read it.      *)
KeysUsable ==
    /\ \A p \in obj.perms : p.key
    /\ copy.owner # "none" =>
           "R" \in Held(copy.owner, copy.perms) /\ IsUserAuthorizedForACM(copy.owner, copy.share)

(* Whatever else is under way, a share gives nobody but the owner a right   *)
(* that the sharer did not have when he asked.                              *)
SharesWhatIsHeld ==
    [][\A r \in Reqs : WriteObject(r) /\ req[r].op \in {"add", "remove"} =>
          \A g \in Grantees \ {req[r].was} :
              Held(g, obj'.perms) \ Held(g, obj.perms) \subseteq req[r].rollup]_vars

(* A share that was carried out is in force: the grantees have what was     *)
(* asked for; one that was taken away leaves the grantee no permission of   *)
(* his own.                                                                 *)
ShareTakesEffect ==
    [][\A r \in Reqs : WriteObject(r) /\ ~missed' =>
          /\ req[r].op = "add" => \A i \in DOMAIN req[r].asked :
                req[r].asked[i].rights \subseteq Held(req[r].asked[i].g, obj'.perms)
          /\ req[r].op = "remove" => \A i \in DOMAIN req[r].asked :
                \/ req[r].asked[i].g = obj.owner
                \/ \A p \in obj'.perms : p.g # req[r].asked[i].g]_vars

(* A client that sends an object back as it was shown, ACM and permission,  *)
(* changes nobody's rights: showing, reading and normalising undo each      *)
(* other, for private, shared and public objects.                           *)
ResendChangesNothing ==
    [][\A r \in Reqs : WriteObject(r) /\ req[r].op = "resend" /\ ~missed' =>
          /\ obj'.share = obj.share
          /\ \A g \in Grantees : Held(g, obj'.perms) = Held(g, obj.perms)]_vars
=============================================================================
