----------------------------- MODULE SharingProofs -----------------------------
(***************************************************************************)
(* Proofs about Sharing for every set of users, groups and requests and    *)
(* whatever the requests say: the permissions and the ACM's share say the  *)
(* same, the owner keeps every right, every permission has its key, nobody *)
(* hands out a right he does not hold, and a request that was carried out  *)
(* has done what it was asked for.                                         *)
(***************************************************************************)
EXTENDS Sharing, TLAPS, FiniteSetTheorems, WellFoundedInduction

Bearers == Users \cup Groups
Rows == [g : Grantees, rights : SUBSET Rights, at : Nat, key : BOOLEAN]
Keyed == {p \in Rows : p.key}

(* Whether some row of ps, with a key or without, gives g the right x. *)
Grants(g, x, ps) == \E p \in ps : p.g = g /\ x \in p.rights

(* The owner needs everyone's rows for the right to read at most. *)
Controls(u, ps) ==
    /\ Grants(u, "U", ps) /\ Grants(u, "S", ps)
    /\ Grants(u, "R", ps) \/ Grants(Everyone, "R", ps)

Objects == [owner : Bearers, share : SUBSET Grantees, tok : Nat, deleted : BOOLEAN,
            perms : SUBSET Keyed]
Plans == [ok : {TRUE}, owner : Bearers, share : SUBSET Grantees, del : SUBSET Rows,
          add : SUBSET Keyed, need : BOOLEAN]
Operations == {"add", "remove", "update", "resend", "owner", "restore"}
Requests == [st : {"planned", "begun"}, op : Operations, c : Users, tok : Nat, asked : Seq(Rows),
             rollup : SUBSET Rights, was : Bearers, plan : Plans]

(* The rows a plan makes of the rows ps. *)
After(plan, ps) == (ps \ plan.del) \cup plan.add

(* What an object is that only whole updates have changed. *)
Sound(o) == o.share = ShareOf(o.perms) /\ Controls(o.owner, o.perms)

(* What a request may add to rows it has not seen. *)
Modest(q) ==
    /\ q.op = "add" => \A p \in q.plan.add : p.rights \subseteq q.rollup
    /\ q.op = "remove" => \A p \in q.plan.add : p.g = q.was

(* What a plan does to the object it was made for. *)
Fits(op, asked, plan, o) ==
    /\ plan.share = ShareOf(After(plan, o.perms)) /\ Controls(plan.owner, After(plan, o.perms))
    /\ op = "add" => \A i \in DOMAIN asked : \A x \in asked[i].rights :
          \/ Grants(asked[i].g, x, After(plan, o.perms))
          \/ Grants(Everyone, x, After(plan, o.perms))
    /\ op = "remove" => \A i \in DOMAIN asked :
          asked[i].g = o.owner \/ \A p \in After(plan, o.perms) : p.g # asked[i].g
    /\ op = "resend" =>
          /\ plan.share = o.share
          /\ \A g \in Grantees : Held(g, After(plan, o.perms)) = Held(g, o.perms)

(***************************************************************************)
(* A request that has read the object as it still is has a plan that fits  *)
(* it; the change token tells the others.                                  *)
(***************************************************************************)
RequestOk(q) ==
    /\ q \in Requests /\ Modest(q) /\ q.tok <= obj.tok
    /\ ~missed /\ q.tok = obj.tok => Fits(q.op, q.asked, q.plan, obj)

CopyUsable ==
    copy.owner # "none" =>
        "R" \in Held(copy.owner, copy.perms) /\ IsUserAuthorizedForACM(copy.owner, copy.share)

SharingInv ==
    /\ obj \in Objects /\ missed \in BOOLEAN /\ req \in [Reqs -> Requests \cup {Idle}]
    /\ ~missed => Sound(obj)
    /\ \A r \in Reqs : req[r] = Idle \/ RequestOk(req[r])
    /\ CopyUsable

--------------------------------------------------------------------------------
(* What rows grant *)

LEMMA HeldGrants ==
    ASSUME NEW ps, \A p \in ps : p.key, NEW g, NEW x
    PROVE  x \in Held(g, ps) <=> Grants(g, x, ps) \/ Grants(Everyone, x, ps)
    BY DEF Held, Grants

LEMMA HeldSame ==
    ASSUME NEW ps \in SUBSET Keyed, NEW qs \in SUBSET Keyed, NEW g,
           \A x : Grants(g, x, ps) \/ Grants(Everyone, x, ps) <=>
                  Grants(g, x, qs) \/ Grants(Everyone, x, qs)
    PROVE  Held(g, ps) = Held(g, qs)
    BY HeldGrants DEF Keyed

LEMMA ReadersGrant ==
    ASSUME NEW ps, NEW g
    PROVE  g \in Readers(ps) <=> Grants(g, "R", ps)
    BY DEF Readers, Grants

LEMMA ShareIs ==
    ASSUME NEW ps
    PROVE  /\ RebuildACMFromPermissions(ps) = ShareOf(ps)
           /\ \A g : g \in ShareOf(ps) <=> Grants(g, "R", ps) /\ ~Grants(Everyone, "R", ps)
    BY ReadersGrant DEF RebuildACMFromPermissions, InjectPermissionsIntoACM, ShareOf

LEMMA ShareSame ==
    ASSUME NEW ps, NEW qs, \A g : Grants(g, "R", ps) <=> Grants(g, "R", qs)
    PROVE  ShareOf(ps) = ShareOf(qs)
    BY ShareIs

LEMMA GrantsUnion ==
    ASSUME NEW ps, NEW qs, NEW g, NEW x
    PROVE  Grants(g, x, ps \cup qs) <=> Grants(g, x, ps) \/ Grants(g, x, qs)
    BY DEF Grants

LEMMA WithKey ==
    ASSUME NEW ps \in SUBSET Rows
    PROVE  /\ {[p EXCEPT !.key = TRUE] : p \in ps} \subseteq Keyed
           /\ \A g, x : Grants(g, x, {[p EXCEPT !.key = TRUE] : p \in ps}) <=> Grants(g, x, ps)
  <1>1. ASSUME NEW p \in ps
        PROVE  /\ [p EXCEPT !.key = TRUE] \in Keyed /\ [p EXCEPT !.key = TRUE].g = p.g
               /\ [p EXCEPT !.key = TRUE].rights = p.rights
      BY <1>1 DEF Rows, Keyed
  <1> QED BY <1>1 DEF Grants

(* What rows and the same rows with another date have in common. *)
Dated(ps, dated) ==
    /\ dated \subseteq Keyed
    /\ \A g, x : Grants(g, x, dated) <=> Grants(g, x, ps)
    /\ \A g : (\E p \in dated : p.g = g) <=> \E p \in ps : p.g = g

LEMMA WithDate ==
    ASSUME NEW ps \in SUBSET Keyed, NEW t \in Nat
    PROVE  Dated(ps, {[p EXCEPT !.at = t] : p \in ps})
  <1>1. ASSUME NEW p \in ps
        PROVE  /\ [p EXCEPT !.at = t] \in Keyed /\ [p EXCEPT !.at = t].g = p.g
               /\ [p EXCEPT !.at = t].rights = p.rights
      BY <1>1 DEF Rows, Keyed
  <1> QED BY <1>1 DEF Grants, Dated

LEMMA ConsolidateGrants ==
    ASSUME NEW ps \in SUBSET Rows
    PROVE  /\ Consolidate(ps) \subseteq Rows
           /\ \A g, x : Grants(g, x, Consolidate(ps)) <=> Grants(g, x, ps)
  <1> DEFINE Sum(g) == UNION {p.rights : p \in {x \in ps : x.g = g}}
  <1>1. \A p \in ps : p.g \in Grantees /\ p.rights \subseteq Rights
      BY DEF Rows
  <1>2. \A g : Sum(g) \subseteq Rights
      BY <1>1
  <1>3. \A g, x : x \in Sum(g) <=> Grants(g, x, ps)
      BY DEF Grants
  <1>4. Consolidate(ps) = {Perm(g, Sum(g), FALSE) : g \in {p.g : p \in ps}}
      BY DEF Consolidate
  <1>a. \A g : Perm(g, Sum(g), FALSE).g = g /\ Perm(g, Sum(g), FALSE).rights = Sum(g)
      BY DEF Perm
  <1>b. \A g \in Grantees : Perm(g, Sum(g), FALSE) \in Rows
      BY <1>2 DEF Perm, Rows
  <1> HIDE DEF Sum
  <1>5. Consolidate(ps) \subseteq Rows
      BY <1>1, <1>b, <1>4
  <1>6. ASSUME NEW g, NEW x PROVE Grants(g, x, Consolidate(ps)) <=> Grants(g, x, ps)
    <2>1. ASSUME Grants(g, x, Consolidate(ps)) PROVE Grants(g, x, ps)
      <3>1. PICK p \in Consolidate(ps) : p.g = g /\ x \in p.rights
          BY <2>1 DEF Grants
      <3>2. PICK h : p = Perm(h, Sum(h), FALSE)
          BY <1>4, <3>1
      <3>3. h = g /\ x \in Sum(g)
          BY <1>a, <3>1, <3>2
      <3> QED BY <1>3, <3>3
    <2>2. ASSUME Grants(g, x, ps) PROVE Grants(g, x, Consolidate(ps))
      <3>1. g \in {p.g : p \in ps}
          BY <2>2 DEF Grants
      <3>2. Perm(g, Sum(g), FALSE) \in Consolidate(ps) /\ x \in Sum(g)
          BY <1>3, <1>4, <2>2, <3>1
      <3> QED BY <3>2, <1>a DEF Grants
    <2> QED BY <2>1, <2>2
  <1> QED BY <1>5, <1>6
--------------------------------------------------------------------------------
(* What NormalizePermissionsFromACM makes of rows and a share *)

NormalRows(n, old) == (old \ n.del) \cup n.add

(***************************************************************************)
(* When everyone reads, nobody else has a row to read; else everyone's     *)
(* rows to read go.  The owner gets everything, the others what they had.  *)
(***************************************************************************)
IsNormal(owner, old, new, share, n, rows) ==
    /\ n.del \subseteq old /\ n.share = ShareOf(rows)
    /\ share \subseteq Grantees => n.add \subseteq Rows
    /\ share = {} =>
         /\ \A x : Grants(Everyone, x, rows) <=>
               Grants(Everyone, x, old) \/ Grants(Everyone, x, new) \/ x = "R"
         /\ \A g, x : g # Everyone => (Grants(g, x, rows) <=>
               /\ x # "R"
               /\ Grants(g, x, old) \/ Grants(g, x, new) \/ (g = owner /\ x \in Rights))
    /\ share # {} =>
         /\ \A g, x : g # Everyone => (Grants(g, x, rows) <=>
               \/ g \in share /\ x = "R"
               \/ Grants(g, x, old) \/ Grants(g, x, new) \/ (g = owner /\ x \in Rights))
         /\ \A x : Grants(Everyone, x, rows) =>
               \/ Everyone \in share /\ x = "R"
               \/ x # "R" /\ (Grants(Everyone, x, old) \/ Grants(Everyone, x, new))
         /\ \A x : /\ Grants(Everyone, x, old) \/ Grants(Everyone, x, new)
                   /\ ~Grants(Everyone, "R", old) /\ ~Grants(Everyone, "R", new)
                   => Grants(Everyone, x, rows)
    /\ \A p \in new : (share # {} /\ p.g # Everyone /\ p.rights # {}) => p \in n.add
    /\ \A p \in old : (share = {} /\ p.g = Everyone /\ p.rights # {}) => p \notin n.del

LEMMA Normalized ==
    ASSUME NEW owner \in Bearers, NEW old \in SUBSET Rows, NEW new \in SUBSET Rows,
           NEW share, NEW n, NEW rows,
           n = NormalizePermissionsFromACM(owner, old, new, share),
           rows = NormalRows(n, old)
    PROVE  IsNormal(owner, old, new, share, n, rows)
  <1> DEFINE public == share = {}
             ByAll(p) == p.g = Everyone /\ "R" \in p.rights
             Stays(p) == ~ByAll(p) \/ public
             read == {Perm(g, {"R"}, FALSE) : g \in share}
             stay == {p \in new : Stays(p)}
             open == IF public /\ ~\E p \in old \cup new : ByAll(p)
                     THEN {Perm(Everyone, {"R"}, FALSE)} ELSE {}
             lines == read \cup stay \cup open \cup {PermissionForOwner(owner)}
             Split(p) == public /\ "R" \in p.rights /\ p.g # Everyone
             out == {p \in old : ~Stays(p) \/ Split(p) \/ p.rights = {}}
             whole == {p \in lines : ~Split(p)}
             part == {PermissionWithoutRead(p) : p \in {x \in lines \cup old : Split(x)}}
             made == whole \cup part
             add == {p \in made : p.rights # {}}
  <1>1. n = [del |-> out, add |-> add, share |-> RebuildACMFromPermissions((old \ out) \cup add)]
      BY DEF NormalizePermissionsFromACM
  <1>2. /\ n.del = out /\ n.add = add /\ rows = (old \ out) \cup add
        /\ n.share = RebuildACMFromPermissions((old \ out) \cup add)
      BY <1>1 DEF NormalRows
  <1>3. n.share = ShareOf(rows)
      BY <1>2, ShareIs
  <1>4. \A p \in old \cup new : p.g \in Grantees /\ p.rights \subseteq Rights
      BY DEF Rows
  <1>5. owner \in Grantees /\ Everyone \in Grantees /\ owner # Everyone /\ "R" \in Rights
      BY SharingAssumption DEF Grantees, Bearers, Rights
  <1>6. /\ share \subseteq Grantees => read \subseteq Rows
        /\ \A g, x : Grants(g, x, read) <=> g \in share /\ x = "R"
    <2>1. \A g : Perm(g, {"R"}, FALSE).g = g /\ Perm(g, {"R"}, FALSE).rights = {"R"}
        BY DEF Perm
    <2>2. \A g \in Grantees : Perm(g, {"R"}, FALSE) \in Rows
        BY <1>5 DEF Perm, Rows
    <2>3. /\ \A p \in read : \E h \in share : p.g = h /\ p.rights = {"R"}
          /\ share \subseteq Grantees => read \subseteq Rows
        BY <2>1, <2>2
    <2>4. \A h \in share : \E p \in read : p.g = h /\ p.rights = {"R"}
        BY <2>1
    <2> HIDE DEF read
    <2> QED BY <2>3, <2>4 DEF Grants
  <1>7. /\ open \subseteq Rows
        /\ \A g, x : Grants(g, x, open) <=>
              g = Everyone /\ x = "R" /\ public /\ ~\E p \in old \cup new : ByAll(p)
    <2>1. Perm(Everyone, {"R"}, FALSE).g = Everyone /\ Perm(Everyone, {"R"}, FALSE).rights = {"R"}
        BY DEF Perm
    <2>2. Perm(Everyone, {"R"}, FALSE) \in Rows
        BY <1>5 DEF Perm, Rows
    <2> QED BY <2>1, <2>2 DEF Grants
  <1>8. /\ PermissionForOwner(owner) \in Rows
        /\ PermissionForOwner(owner).g = owner /\ PermissionForOwner(owner).rights = Rights
      BY <1>5 DEF PermissionForOwner, Perm, Rows
  <1>9. \A g, x : Grants(g, x, {PermissionForOwner(owner)}) <=> g = owner /\ x \in Rights
      BY <1>8 DEF Grants
  <1>10. \A p : /\ PermissionWithoutRead(p).g = p.g
                /\ PermissionWithoutRead(p).rights = p.rights \ {"R"}
      BY DEF PermissionWithoutRead, Perm
  <1>11. \A p \in Rows : PermissionWithoutRead(p) \in Rows
      BY DEF PermissionWithoutRead, Perm, Rows
  <1>12. share \subseteq Grantees => add \subseteq Rows
    <2> SUFFICES ASSUME share \subseteq Grantees PROVE add \subseteq Rows
        OBVIOUS
    <2>1. lines \subseteq Rows
        BY <1>6, <1>7, <1>8
    <2>2. made \subseteq Rows
        BY <1>11, <2>1
    <2> QED BY <2>1, <2>2
  <1>13. \A g, x : Grants(g, x, lines) <=>
           \/ (g \in share /\ x = "R") \/ Grants(g, x, stay) \/ Grants(g, x, open)
           \/ g = owner /\ x \in Rights
    <2> HIDE DEF read, stay, open
    <2>1. \A g, x : Grants(g, x, lines) <=>
            \/ Grants(g, x, read) \/ Grants(g, x, stay) \/ Grants(g, x, open)
            \/ Grants(g, x, {PermissionForOwner(owner)})
        BY DEF Grants
    <2> QED BY <1>6, <1>9, <2>1
  <1> HIDE DEF read, open, lines
  <1>14. \A g, x : Grants(g, x, add) <=> Grants(g, x, whole) \/ Grants(g, x, part)
      BY DEF Grants
  <1>a. \A g, x : Grants(g, x, rows) <=>
           Grants(g, x, old \ out) \/ Grants(g, x, whole) \/ Grants(g, x, part)
    <2> HIDE DEF out, add, whole, part
    <2>1. \A g, x : Grants(g, x, rows) <=> Grants(g, x, old \ out) \/ Grants(g, x, add)
        BY <1>2 DEF Grants
    <2> QED BY <1>14, <2>1
  <1>15. \A g, x : Grants(g, x, part) <=>
           \E p \in lines \cup old : Split(p) /\ p.g = g /\ x \in p.rights /\ x # "R"
      BY <1>10 DEF Grants
  <1>16. \A p \in stay : p \in lines
      BY DEF lines
  <1> HIDE DEF part
  <1>17. CASE public
    <2>1. stay = new /\ out = {p \in old : ("R" \in p.rights /\ p.g # Everyone) \/ p.rights = {}}
        BY <1>17
    <2>2. ASSUME NEW x
          PROVE  Grants(Everyone, x, rows) <=>
                   Grants(Everyone, x, old) \/ Grants(Everyone, x, new) \/ x = "R"
      <3>1. Grants(Everyone, x, rows) <=> Grants(Everyone, x, old) \/ Grants(Everyone, x, lines)
        <4>1. Grants(Everyone, x, old \ out) <=> Grants(Everyone, x, old)
            BY <2>1 DEF Grants
        <4>2. ~Grants(Everyone, x, part)
            BY <1>15
        <4>3. Grants(Everyone, x, whole) <=> Grants(Everyone, x, lines)
            BY DEF Grants
        <4> QED BY <1>a, <4>1, <4>2, <4>3
      <3>2. Grants(Everyone, x, open) => x = "R"
          BY <1>7
      <3>3. x = "R" => \/ Grants(Everyone, x, open) \/ Grants(Everyone, x, old)
                       \/ Grants(Everyone, x, new)
          BY <1>7, <1>17 DEF Grants
      <3> QED BY <1>5, <1>13, <1>17, <2>1, <3>1, <3>2, <3>3
    <2>3. ASSUME NEW g, NEW x, g # Everyone
          PROVE  Grants(g, x, rows) <=>
                   /\ x # "R"
                   /\ Grants(g, x, old) \/ Grants(g, x, new) \/ (g = owner /\ x \in Rights)
      <3>1. Grants(g, x, rows) <=> x # "R" /\ (Grants(g, x, old) \/ Grants(g, x, lines))
        <4>1. Grants(g, x, old \ out) <=>
                \E p \in old : p.g = g /\ x \in p.rights /\ "R" \notin p.rights
            BY <2>1, <2>3 DEF Grants
        <4>2. Grants(g, x, whole) <=>
                \E p \in lines : p.g = g /\ x \in p.rights /\ "R" \notin p.rights
            BY <1>17, <2>3 DEF Grants
        <4>3. Grants(g, x, part) <=>
                \E p \in lines \cup old : p.g = g /\ x \in p.rights /\ "R" \in p.rights /\ x # "R"
            BY <1>15, <1>17, <2>3
        <4>4. Grants(g, x, rows) <=> Grants(g, x, old \ out) \/ Grants(g, x, whole) \/ Grants(g, x, part)
            BY <1>a
        <4>5. CASE x = "R"
            BY <4>1, <4>2, <4>3, <4>4, <4>5
        <4>6. CASE x # "R"
            BY <4>1, <4>2, <4>3, <4>4, <4>6 DEF Grants
        <4> QED BY <4>5, <4>6
      <3> QED BY <1>7, <1>13, <1>17, <2>1, <2>3, <3>1
    <2>4. \A p \in old : (p.g = Everyone /\ p.rights # {}) => p \notin n.del
        BY <1>2, <2>1
    <2> QED BY <1>2, <1>3, <1>12, <1>17, <2>2, <2>3, <2>4 DEF IsNormal
  <1>18. CASE ~public
    <2>1. /\ \A p : ~Split(p)
          /\ stay = {p \in new : ~ByAll(p)}
          /\ out = {p \in old : ByAll(p) \/ p.rights = {}}
          /\ whole = lines
        BY <1>18
    <2>2. \A g, x : Grants(g, x, rows) <=> Grants(g, x, old \ out) \/ Grants(g, x, lines)
      <3>1. \A g, x : ~Grants(g, x, part)
          BY <1>15, <1>18
      <3> HIDE DEF whole, out
      <3> QED BY <1>a, <2>1, <3>1
    <2>3. ASSUME NEW g, NEW x, g # Everyone
          PROVE  Grants(g, x, rows) <=>
                      \/ g \in share /\ x = "R"
                      \/ Grants(g, x, old) \/ Grants(g, x, new) \/ (g = owner /\ x \in Rights)
      <3>1. Grants(g, x, old \ out) <=> Grants(g, x, old)
          BY <2>1, <2>3 DEF Grants
      <3>2. Grants(g, x, stay) <=> Grants(g, x, new)
          BY <2>1, <2>3 DEF Grants
      <3> QED BY <1>7, <1>13, <2>2, <2>3, <3>1, <3>2
    <2>4. ASSUME NEW x, Grants(Everyone, x, rows)
          PROVE  \/ Everyone \in share /\ x = "R"
                 \/ x # "R" /\ (Grants(Everyone, x, old) \/ Grants(Everyone, x, new))
      <3>1. Grants(Everyone, x, old \ out) => x # "R" /\ Grants(Everyone, x, old)
          BY <2>1 DEF Grants
      <3>2. Grants(Everyone, x, stay) => x # "R" /\ Grants(Everyone, x, new)
          BY <2>1 DEF Grants
      <3> QED BY <1>5, <1>7, <1>13, <1>18, <2>2, <2>4, <3>1, <3>2
    <2>5. ASSUME NEW x, Grants(Everyone, x, old) \/ Grants(Everyone, x, new),
                 ~Grants(Everyone, "R", old), ~Grants(Everyone, "R", new)
          PROVE  Grants(Everyone, x, rows)
      <3>1. Grants(Everyone, x, old) => Grants(Everyone, x, old \ out)
          BY <2>1, <2>5 DEF Grants
      <3>2. Grants(Everyone, x, new) => Grants(Everyone, x, stay)
          BY <2>1, <2>5 DEF Grants
      <3> QED BY <1>13, <2>2, <2>5, <3>1, <3>2
    <2>6. ASSUME NEW p \in new, p.g # Everyone, p.rights # {} PROVE p \in n.add
        BY <1>2, <1>16, <2>1, <2>6
    <2> QED BY <1>2, <1>3, <1>12, <1>18, <2>3, <2>4, <2>5, <2>6 DEF IsNormal
  <1> QED BY <1>17, <1>18
--------------------------------------------------------------------------------
(* Plans *)

LEMMA Least ==
    ASSUME NEW T \in SUBSET Nat, T # {}
    PROVE  \E k \in T : \A j \in T : k <= j
  <1>1. PICK k \in T : \A j \in T : <<j, k>> \notin OpToRel(<, Nat)
      BY WFMin, NatLessThanWellFounded
  <1>2. \A j \in T : ~(j < k)
      BY <1>1 DEF OpToRel
  <1> QED BY <1>2

LEMMA ShareType ==
    ASSUME NEW ps \in SUBSET Rows
    PROVE  ShareOf(ps) \subseteq Grantees
  <1>1. \A g : Grants(g, "R", ps) => g \in Grantees
      BY DEF Grants, Rows
  <1> QED BY <1>1, ShareIs

(* A plan that deletes and adds rows and takes the share from those left. *)
PlanFor(plan, ps, owner, del, add) ==
    \E need \in BOOLEAN : plan = Plan(owner, ShareOf((ps \ del) \cup add), del, add, need)

PlanDoes(plan, ps, owner, del, add) ==
    /\ plan \in Plans /\ plan.owner = owner
    /\ After(plan, ps) \subseteq Keyed
    /\ \A g, x : Grants(g, x, After(plan, ps)) <=> Grants(g, x, ps \ del) \/ Grants(g, x, add)
    /\ plan.share = ShareOf(After(plan, ps)) /\ plan.share = ShareOf((ps \ del) \cup add)
    /\ \A p \in plan.add : \E q \in add : p.g = q.g /\ p.rights = q.rights

LEMMA PlanIs ==
    ASSUME NEW ps \in SUBSET Keyed, NEW owner \in Bearers, NEW del \in SUBSET Rows,
           NEW add \in SUBSET Rows, NEW plan, PlanFor(plan, ps, owner, del, add)
    PROVE  PlanDoes(plan, ps, owner, del, add)
  <1> DEFINE keyed == {[p EXCEPT !.key = TRUE] : p \in add}
  <1>0. PICK share : share = ShareOf((ps \ del) \cup add)
      OBVIOUS
  <1>1. keyed \subseteq Keyed /\ \A g, x : Grants(g, x, keyed) <=> Grants(g, x, add)
      BY WithKey
  <1>2. \A p \in keyed : \E q \in add : p.g = q.g /\ p.rights = q.rights
      BY DEF Rows
  <1>3. (ps \ del) \cup add \in SUBSET Rows
      BY DEF Keyed
  <1>4. share \subseteq Grantees
      BY <1>0, <1>3, ShareType
  <1>5. PICK need \in BOOLEAN :
            plan = [ok |-> TRUE, owner |-> owner, share |-> share, del |-> del, add |-> keyed,
                    need |-> need]
      BY <1>0 DEF PlanFor, Plan
  <1> HIDE DEF keyed
  <1>a. /\ plan.owner = owner /\ plan.share = share /\ plan.del = del /\ plan.add = keyed
      BY <1>5
  <1>b. plan \in Plans
    <2>1. \A s \in SUBSET Grantees, ad \in SUBSET Keyed, b \in BOOLEAN :
            [ok |-> TRUE, owner |-> owner, share |-> s, del |-> del, add |-> ad, need |-> b] \in Plans
        BY DEF Plans
    <2> QED BY <1>1, <1>4, <1>5, <2>1
  <1>7. After(plan, ps) = (ps \ del) \cup keyed
      BY <1>a DEF After
  <1>8. \A g, x : Grants(g, x, After(plan, ps)) <=> Grants(g, x, ps \ del) \/ Grants(g, x, keyed)
      BY <1>7 DEF Grants
  <1>9. \A g : Grants(g, "R", (ps \ del) \cup add) <=> Grants(g, "R", ps \ del) \/ Grants(g, "R", add)
      BY DEF Grants
  <1>10. share = ShareOf(After(plan, ps))
      BY <1>0, <1>1, <1>8, <1>9, ShareSame
  <1> QED BY <1>0, <1>1, <1>2, <1>a, <1>b, <1>7, <1>8, <1>10 DEF PlanDoes

LEMMA AddPlan ==
    ASSUME NEW o \in Objects, NEW c \in Users, NEW asked \in Seq(Rows),
           NEW plan, plan = AddObjectShare(c, o, asked), plan.ok
    PROVE  /\ plan \in Plans
           /\ \A p \in plan.add : p.rights \subseteq Rollup(c, o.perms, {"R", "S"})
           /\ Sound(o) => Fits("add", asked, plan, o)
  <1> DEFINE rollup == Rollup(c, o.perms, {"R", "S"})
             removing == /\ \E p \in o.perms : p.g = Everyone
                         /\ \E i \in DOMAIN asked : "R" \in asked[i].rights /\ asked[i].g # Everyone
             del == {p \in o.perms : removing /\ p.g = Everyone}
             mine == Perm(o.owner, {"R"}, FALSE)
             list == IF removing THEN Append(asked, mine) ELSE asked
             kept == o.perms \ del
             Left(i) == ReduceGrants(kept \cup {list[j] : j \in 1 .. i - 1}, list[i])
             add == {Perm(list[i].g, Left(i), FALSE) : i \in {k \in DOMAIN list : Left(k) # {}}}
             share == RebuildACMFromPermissions(kept \cup add)
  <1>0. o.owner \in Bearers /\ o.perms \in SUBSET Keyed /\ o.owner # Everyone
      BY SharingAssumption DEF Objects, Bearers
  <1>1. plan = Plan(o.owner, share, del, add, FALSE) /\ VerifyPermissionToShare(rollup, list)
      BY DEF AddObjectShare, Refused
  <1>2. mine \in Rows /\ mine.g = o.owner /\ mine.rights = {"R"}
      BY <1>0 DEF Perm, Rows, Rights, Bearers, Grantees
  <1> HIDE DEF mine
  <1> HIDE DEF removing
  <1>3. list \in Seq(Rows) /\ \A i \in DOMAIN asked : i \in DOMAIN list /\ list[i] = asked[i]
    <2>1. CASE removing
      <3>1. list = Append(asked, mine)
          BY <2>1
      <3> QED BY <1>2, <3>1
    <2>2. CASE ~removing
        BY <2>2
    <2> QED BY <2>1, <2>2
  <1>4. removing => \E i \in DOMAIN list : list[i] = mine
    <2> SUFFICES ASSUME removing PROVE \E i \in DOMAIN list : list[i] = mine
        OBVIOUS
    <2>1. list = Append(asked, mine)
        OBVIOUS
    <2>2. Len(list) = Len(asked) + 1 /\ list[Len(asked) + 1] = mine /\ Len(asked) \in Nat
        BY <1>2, <2>1
    <2> QED BY <1>3, <2>2
  <1>5. DOMAIN list = 1 .. Len(list) /\ Len(list) \in Nat
        /\ \A i \in DOMAIN list : list[i] \in Rows
      BY <1>3
  <1> HIDE DEF list
  <1>6. \A i \in DOMAIN list : Left(i) \subseteq list[i].rights /\ list[i].rights \subseteq rollup
      BY <1>1 DEF ReduceGrants, VerifyPermissionToShare
  <1>7. \A i \in DOMAIN list : list[i].g \in Grantees /\ Left(i) \subseteq Rights
      BY <1>5, <1>6 DEF Rows
  <1>8. ASSUME NEW i \in DOMAIN list, NEW x, x \in list[i].rights, x \notin Left(i)
        PROVE  \/ Grants(list[i].g, x, kept) \/ Grants(Everyone, x, kept)
               \/ \E j \in 1 .. i - 1 : x \in list[j].rights /\ list[j].g \in {list[i].g, Everyone}
    <2> HIDE DEF kept
    <2>1. PICK y \in kept \cup {list[j] : j \in 1 .. i - 1} :
             y.g \in {list[i].g, Everyone} /\ x \in y.rights
        BY <1>8 DEF ReduceGrants
    <2> QED BY <2>1 DEF Grants
  <1> HIDE DEF Left
  <1>9. /\ \A i : Perm(list[i].g, Left(i), FALSE).g = list[i].g
        /\ \A i : Perm(list[i].g, Left(i), FALSE).rights = Left(i)
      BY DEF Perm
  <1>10. add \in SUBSET Rows
    <2>1. \A i \in DOMAIN list : Perm(list[i].g, Left(i), FALSE) \in Rows
        BY <1>7 DEF Perm, Rows
    <2> QED BY <2>1
  <1>11. \A p \in add : p.rights \subseteq rollup
      BY <1>6, <1>9
  <1>12. \A i \in DOMAIN list : \A x \in Left(i) : Grants(list[i].g, x, add)
      BY <1>9 DEF Grants
  <1> HIDE DEF add
  <1>13. share = ShareOf(kept \cup add) /\ del \in SUBSET Rows
      BY <1>0, ShareIs DEF Keyed
  <1> HIDE DEF share, del
  <1>14. /\ plan \in Plans /\ plan.owner = o.owner /\ plan.share = ShareOf(After(plan, o.perms))
         /\ \A g, x : Grants(g, x, After(plan, o.perms)) <=> Grants(g, x, kept) \/ Grants(g, x, add)
         /\ \A p \in plan.add : \E q \in add : p.g = q.g /\ p.rights = q.rights
    <2>1. \E need \in BOOLEAN : plan = Plan(o.owner, share, del, add, need)
        BY <1>1
    <2>2. PlanFor(plan, o.perms, o.owner, del, add)
        BY <1>13, <2>1 DEF PlanFor
    <2>3. o.perms \in SUBSET Keyed /\ o.owner \in Bearers /\ del \in SUBSET Rows /\ add \in SUBSET Rows
        BY <1>0, <1>10, <1>13
    <2>4. PlanDoes(plan, o.perms, o.owner, del, add)
        BY <2>2, <2>3, PlanIs
    <2> QED BY <2>4 DEF PlanDoes
  <1> DEFINE Has(g, x) == \/ Grants(g, x, After(plan, o.perms))
                          \/ Grants(Everyone, x, After(plan, o.perms))
  <1>15. ASSUME NEW i \in DOMAIN list, NEW x \in list[i].rights PROVE Has(list[i].g, x)
    <2> DEFINE T == {j \in DOMAIN list : x \in list[j].rights /\ list[j].g \in {list[i].g, Everyone}}
    <2>1. T \in SUBSET Nat /\ i \in T
        BY <1>5
    <2>2. PICK k \in T : \A j \in T : k <= j
        BY <2>1, Least
    <2>3. CASE x \in Left(k)
        BY <1>12, <1>14, <2>2, <2>3
    <2>4. CASE x \notin Left(k)
      <3>1. ~\E j \in 1 .. k - 1 : x \in list[j].rights /\ list[j].g \in {list[k].g, Everyone}
        <4>1. \A j \in 1 .. k - 1 : j \in DOMAIN list /\ j < k
            BY <1>5, <2>2
        <4>2. \A j \in 1 .. k - 1 : j \notin T
            BY <1>5, <2>1, <2>2, <4>1
        <4> QED BY <2>2, <4>1, <4>2
      <3>2. Grants(list[k].g, x, kept) \/ Grants(Everyone, x, kept)
          BY <1>8, <2>2, <2>4, <3>1
      <3> QED BY <1>14, <2>2, <3>2
    <2> QED BY <2>3, <2>4
  <1>16. ASSUME Sound(o) PROVE Controls(o.owner, After(plan, o.perms))
    <2>1. Grants(o.owner, "U", kept) /\ Grants(o.owner, "S", kept)
        BY <1>0, <1>16 DEF Sound, Controls, Grants, del
    <2>2. CASE removing
        BY <1>2, <1>4, <1>14, <1>15, <2>1, <2>2 DEF Controls
    <2>3. CASE ~removing
      <3>1. kept = o.perms
          BY <2>3 DEF del
      <3> QED BY <1>14, <1>16, <3>1 DEF Sound, Controls
    <2> QED BY <2>2, <2>3
  <1>17. \A i \in DOMAIN asked : \A x \in asked[i].rights : Has(asked[i].g, x)
      BY <1>3, <1>15
  <1> HIDE DEF rollup
  <1>18. \A p \in plan.add : p.rights \subseteq rollup
      BY <1>11, <1>14
  <1>19. Sound(o) => Fits("add", asked, plan, o)
      BY <1>14, <1>16, <1>17 DEF Fits
  <1> QED BY <1>14, <1>18, <1>19 DEF rollup

LEMMA RemovePlan ==
    ASSUME NEW o \in Objects, NEW c \in Users, NEW asked \in Seq(Rows),
           NEW plan, plan = RemoveObjectShare(c, o, asked), plan.ok
    PROVE  /\ plan \in Plans
           /\ \A p \in plan.add : p.g = o.owner
           /\ Sound(o) => Fits("remove", asked, plan, o)
  <1> DEFINE names == {asked[i].g : i \in DOMAIN asked} \ {o.owner}
             del == {p \in o.perms : p.g \in names}
             all == PermissionForOwner(o.owner)
             kept == o.perms \ del
             back == ReduceGrants(kept, all)
             public == Everyone \in names /\ \E p \in o.perms : p.g = Everyone
             own == Perm(o.owner, back, FALSE)
             add == IF public /\ back # {} THEN {own} ELSE {}
             share == RebuildACMFromPermissions(kept \cup add)
  <1>0. o.owner \in Bearers /\ o.perms \in SUBSET Keyed /\ o.owner # Everyone
      BY SharingAssumption DEF Objects, Bearers
  <1>1. plan = Plan(o.owner, share, del, add, FALSE)
      BY DEF RemoveObjectShare, Refused
  <1>2. all.g = o.owner /\ all.rights = Rights
      BY DEF PermissionForOwner, Perm
  <1> HIDE DEF all
  <1>3. /\ back \subseteq Rights
        /\ \A x \in Rights : x \in back \/ Grants(o.owner, x, kept) \/ Grants(Everyone, x, kept)
    <2> HIDE DEF kept
    <2> QED BY <1>2 DEF ReduceGrants, Grants
  <1> HIDE DEF back
  <1>4. own \in Rows /\ own.g = o.owner /\ own.rights = back
      BY <1>0, <1>3 DEF Perm, Rows, Bearers, Grantees
  <1> HIDE DEF own
  <1>5. add \in SUBSET Rows /\ \A p \in add : p.g = o.owner
      BY <1>4
  <1>6. public => \A x \in back : Grants(o.owner, x, add)
      BY <1>4 DEF Grants
  <1>7. del \in SUBSET Rows
      BY <1>0 DEF Keyed
  <1>8. /\ \A x : Grants(o.owner, x, o.perms) => Grants(o.owner, x, kept)
        /\ \A x : Grants(Everyone, x, o.perms) => Grants(Everyone, x, kept) \/ public
        /\ \A i \in DOMAIN asked : asked[i].g # o.owner => \A p \in kept : p.g # asked[i].g
    <2>1. o.owner \notin names
        OBVIOUS
    <2>2. \A i \in DOMAIN asked : asked[i].g # o.owner => asked[i].g \in names
        OBVIOUS
    <2> HIDE DEF names
    <2> QED BY <2>1, <2>2 DEF Grants
  <1> HIDE DEF add, del, public
  <1>9. share = ShareOf((o.perms \ del) \cup add)
      BY ShareIs
  <1>10. PlanDoes(plan, o.perms, o.owner, del, add)
    <2>1. \E need \in BOOLEAN : plan = Plan(o.owner, share, del, add, need)
        BY <1>1
    <2> HIDE DEF share
    <2>2. PlanFor(plan, o.perms, o.owner, del, add)
        BY <1>9, <2>1 DEF PlanFor
    <2> QED BY <1>0, <1>5, <1>7, <2>2, PlanIs
  <1>11. \A p \in plan.add : p.g = o.owner
      BY <1>5, <1>10 DEF PlanDoes
  <1>12. plan.del = del
      BY <1>1 DEF Plan
  <1>13. \A i \in DOMAIN asked :
            asked[i].g = o.owner \/ \A p \in After(plan, o.perms) : p.g # asked[i].g
      BY <1>8, <1>11, <1>12 DEF After
  <1>14. ASSUME Sound(o) PROVE Controls(o.owner, After(plan, o.perms))
    <2>1. \A g, x : Grants(g, x, After(plan, o.perms)) <=> Grants(g, x, kept) \/ Grants(g, x, add)
        BY <1>10 DEF PlanDoes
    <2> HIDE DEF kept
    <2>2. "R" \in Rights
        BY DEF Rights
    <2> QED BY <1>3, <1>6, <1>8, <1>14, <2>1, <2>2 DEF Sound, Controls
  <1> QED BY <1>10, <1>11, <1>13, <1>14 DEF PlanDoes, Fits

NormalPlanFor(plan, ps, next, old, n) ==
    \E need \in BOOLEAN :
        plan = Plan(next, n.share, n.del \cup (ps \ old), Consolidate(n.add), need)

NormalPlanDoes(plan, ps, next, rows) ==
    /\ plan \in Plans /\ plan.owner = next /\ After(plan, ps) \subseteq Keyed
    /\ plan.share = ShareOf(After(plan, ps))
    /\ \A g, x : Grants(g, x, After(plan, ps)) <=> Grants(g, x, rows)

LEMMA NormalPlan ==
    ASSUME NEW o \in Objects, NEW owner \in Bearers, NEW next \in Bearers,
           NEW old \in SUBSET o.perms, NEW new \in SUBSET Rows, NEW share \in SUBSET Grantees,
           NEW n, n = NormalizePermissionsFromACM(owner, old, new, share),
           NEW plan, NormalPlanFor(plan, o.perms, next, old, n)
    PROVE  /\ NormalPlanDoes(plan, o.perms, next, NormalRows(n, old))
           /\ IsNormal(owner, old, new, share, n, NormalRows(n, old))
  <1>0. o.perms \in SUBSET Keyed /\ old \in SUBSET Rows
      BY DEF Objects, Keyed
  <1>1. /\ n.del \subseteq old /\ n.add \in SUBSET Rows
        /\ n.share = ShareOf(NormalRows(n, old))
        /\ IsNormal(owner, old, new, share, n, NormalRows(n, old))
    <2>1. IsNormal(owner, old, new, share, n, NormalRows(n, old))
        BY <1>0, Normalized
    <2> QED BY <2>1 DEF IsNormal
  <1>2. PICK del, add : del = n.del \cup (o.perms \ old) /\ add = Consolidate(n.add)
      OBVIOUS
  <1>3. add \in SUBSET Rows /\ \A g, x : Grants(g, x, add) <=> Grants(g, x, n.add)
      BY <1>1, <1>2, ConsolidateGrants
  <1>4. del \in SUBSET Rows /\ o.perms \ del = old \ n.del
      BY <1>0, <1>1, <1>2 DEF Keyed
  <1>5. \A g, x : Grants(g, x, (o.perms \ del) \cup add) <=> Grants(g, x, NormalRows(n, old))
      BY <1>3, <1>4, GrantsUnion DEF NormalRows
  <1>6. n.share = ShareOf((o.perms \ del) \cup add)
      BY <1>1, <1>5, ShareSame
  <1>7. PlanFor(plan, o.perms, next, del, add)
      BY <1>2, <1>6 DEF PlanFor, NormalPlanFor
  <1>8. PlanDoes(plan, o.perms, next, del, add)
      BY <1>0, <1>3, <1>4, <1>7, PlanIs
  <1>9. \A g, x : Grants(g, x, (o.perms \ del) \cup add) <=>
                     Grants(g, x, o.perms \ del) \/ Grants(g, x, add)
      BY GrantsUnion
  <1> QED BY <1>1, <1>5, <1>8, <1>9 DEF PlanDoes, NormalPlanDoes

LEMMA MappedRows ==
    ASSUME NEW api
    PROVE  /\ MapPermissionToODPermissions(api) \in SUBSET Rows
           /\ \A g, x : Grants(g, x, MapPermissionToODPermissions(api)) <=>
                 g \in Grantees /\ x \in Rights /\ g \in api[x].allow \ api[x].deny
  <1> DEFINE Given(g, right) == g \in api[right].allow \ api[right].deny
             Has(g) == {x \in Rights : Given(g, x)}
             row(g) == Perm(g, Has(g), FALSE)
             named == {x \in Grantees : \E y \in Rights : Given(x, y)}
  <1>1. MapPermissionToODPermissions(api) = {row(g) : g \in named}
      BY DEF MapPermissionToODPermissions
  <1>2. \A g : row(g).g = g /\ row(g).rights = Has(g)
      BY DEF Perm
  <1>3. \A g \in Grantees : row(g) \in Rows
      BY DEF Perm, Rows
  <1>4. \A g \in Grantees : \A x \in Has(g) : g \in named
      OBVIOUS
  <1>5. \A g, x : x \in Has(g) <=> x \in Rights /\ g \in api[x].allow \ api[x].deny
      OBVIOUS
  <1>6. \A g \in named : g \in Grantees
      OBVIOUS
  <1> HIDE DEF row, Has, named
  <1>7. ASSUME NEW g, NEW x
        PROVE  Grants(g, x, {row(h) : h \in named}) <=> g \in Grantees /\ x \in Has(g)
      BY <1>2, <1>4, <1>6 DEF Grants
  <1>8. {row(g) : g \in named} \in SUBSET Rows
      BY <1>3, <1>6
  <1> QED BY <1>1, <1>5, <1>7, <1>8

(* What an update with an ACM makes of an object. *)
NormalUpdate(plan, o, new, share) ==
    \E n, rows : /\ IsNormal(o.owner, {}, new, share, n, rows) /\ plan.share = ShareOf(rows)
                 /\ \A g, x : Grants(g, x, After(plan, o.perms)) <=> Grants(g, x, rows)

LEMMA UpdatePlan ==
    ASSUME NEW o \in Objects, NEW c \in Users, NEW in,
           (in.acm.given => in.acm.share \subseteq Grantees),
           NEW plan, plan = UpdateObject(c, o, in), plan.ok
    PROVE  /\ plan \in Plans /\ plan.share = ShareOf(After(plan, o.perms))
           /\ Controls(plan.owner, After(plan, o.perms))
           /\ After(plan, o.perms) \subseteq Keyed
           /\ in.acm.given =>
                NormalUpdate(plan, o, MapPermissionToODPermissions(in.permission), in.acm.share)
  <1> DEFINE new == MapPermissionToODPermissions(in.permission)
             old == IF in.acm.given \/ new # {} THEN {} ELSE o.perms
             share == IF in.acm.given THEN in.acm.share ELSE o.share
             n == NormalizePermissionsFromACM(o.owner, old, new, share)
  <1>1. plan = Plan(o.owner, n.share, n.del \cup (o.perms \ old), Consolidate(n.add), n.share # o.share)
      BY DEF UpdateObject, Refused
  <1>2. o.owner \in Bearers /\ o.perms \in SUBSET Keyed /\ o.owner # Everyone
      BY SharingAssumption DEF Objects, Bearers
  <1>3. new \in SUBSET Rows /\ old \in SUBSET o.perms /\ share \in SUBSET Grantees
      BY MappedRows DEF Objects
  <1>4. PICK m : m = n
      OBVIOUS
  <1>5. NormalPlanFor(plan, o.perms, o.owner, old, m)
    <2>1. (n.share # o.share) \in BOOLEAN
        OBVIOUS
    <2> QED BY <1>1, <1>4, <2>1 DEF NormalPlanFor
  <1>6. m = NormalizePermissionsFromACM(o.owner, old, new, share)
      BY <1>4
  <1>7. in.acm.given => old = {} /\ share = in.acm.share
      OBVIOUS
  <1> HIDE DEF n, old, new, share
  <1>8. /\ plan \in Plans /\ plan.owner = o.owner /\ After(plan, o.perms) \subseteq Keyed
        /\ plan.share = ShareOf(After(plan, o.perms))
        /\ \A g, x : Grants(g, x, After(plan, o.perms)) <=> Grants(g, x, NormalRows(m, old))
        /\ IsNormal(o.owner, old, new, share, m, NormalRows(m, old))
    <2>1. /\ NormalPlanDoes(plan, o.perms, o.owner, NormalRows(m, old))
          /\ IsNormal(o.owner, old, new, share, m, NormalRows(m, old))
        BY <1>2, <1>3, <1>5, <1>6, NormalPlan
    <2> QED BY <2>1 DEF NormalPlanDoes
  <1>9. Controls(o.owner, After(plan, o.perms))
    <2>1. {"R", "U", "S"} = Rights /\ "U" # "R" /\ "S" # "R"
        BY DEF Rights
    <2> QED BY <1>2, <1>8, <2>1 DEF Controls, IsNormal
  <1>10. plan.share = ShareOf(NormalRows(m, old))
      BY <1>8, ShareSame
  <1> QED BY <1>7, <1>8, <1>9, <1>10 DEF new, NormalUpdate

LEMMA OwnerPlan ==
    ASSUME NEW o \in Objects, NEW c \in Users, NEW next \in Grantees,
           NEW plan, plan = ChangeOwnerRaw(c, o, next), plan.ok
    PROVE  /\ plan \in Plans /\ plan.share = ShareOf(After(plan, o.perms))
           /\ Controls(plan.owner, After(plan, o.perms))
  <1> DEFINE row == Perm(next, Rights, FALSE)
             share == InjectPermissionsIntoACM(o.perms \cup {row}, o.share)
             n == NormalizePermissionsFromACM(o.owner, o.perms, {row}, share)
  <1>1. /\ plan = Plan(next, n.share, n.del, Consolidate(n.add), FALSE)
        /\ next # Everyone
      BY DEF ChangeOwnerRaw, Refused
  <1>2. /\ o.owner \in Bearers /\ o.perms \in SUBSET Keyed /\ o.owner # Everyone
        /\ next \in Bearers /\ o.share \subseteq Grantees
      BY <1>1, SharingAssumption DEF Objects, Bearers, Grantees
  <1>3. row \in Rows /\ row.g = next /\ row.rights = Rights
      BY DEF Perm, Rows
  <1> HIDE DEF row
  <1>4. share \in SUBSET Grantees
    <2>1. \A g : Grants(g, "R", o.perms \cup {row}) => g \in Grantees
        BY <1>2, <1>3 DEF Grants, Keyed, Rows
    <2> QED BY <1>2, <2>1, ReadersGrant DEF InjectPermissionsIntoACM
  <1> HIDE DEF share
  <1>5. PICK m : m = n
      OBVIOUS
  <1>6. m.del \cup (o.perms \ o.perms) = m.del
      OBVIOUS
  <1>7. NormalPlanFor(plan, o.perms, next, o.perms, m)
      BY <1>1, <1>5, <1>6 DEF NormalPlanFor
  <1>8. m = NormalizePermissionsFromACM(o.owner, o.perms, {row}, share)
      BY <1>5
  <1> HIDE DEF n
  <1>9. /\ plan \in Plans /\ plan.owner = next
        /\ plan.share = ShareOf(After(plan, o.perms))
        /\ \A g, x : Grants(g, x, After(plan, o.perms)) <=> Grants(g, x, NormalRows(m, o.perms))
        /\ IsNormal(o.owner, o.perms, {row}, share, m, NormalRows(m, o.perms))
    <2>1. {row} \in SUBSET Rows /\ o.perms \in SUBSET o.perms
        BY <1>3
    <2>2. /\ NormalPlanDoes(plan, o.perms, next, NormalRows(m, o.perms))
          /\ IsNormal(o.owner, o.perms, {row}, share, m, NormalRows(m, o.perms))
        BY <1>2, <1>4, <1>7, <1>8, <2>1, NormalPlan
    <2> QED BY <2>2 DEF NormalPlanDoes
  <1>10. \A x \in Rights : Grants(next, x, {row})
      BY <1>3 DEF Grants
  <1>11. Controls(next, After(plan, o.perms))
    <2>1. {"R", "U", "S"} = Rights /\ "U" # "R" /\ "S" # "R"
        BY DEF Rights
    <2> QED BY <1>1, <1>9, <1>10, <2>1 DEF Controls, IsNormal
  <1> QED BY <1>9, <1>11

LEMMA RestorePlan ==
    ASSUME NEW o \in Objects, NEW c \in Users,
           NEW plan, plan = RestoreVersion(c, o), plan.ok
    PROVE  /\ plan \in Plans
           /\ Sound(o) => /\ plan.share = ShareOf(After(plan, o.perms))
                          /\ Controls(plan.owner, After(plan, o.perms))
  <1>1. plan = Plan(o.owner, o.share, {}, {}, FALSE)
      BY DEF RestoreVersion, Refused
  <1>2. plan = [ok |-> TRUE, owner |-> o.owner, share |-> o.share, del |-> {}, add |-> {},
                need |-> FALSE]
      BY <1>1 DEF Plan
  <1>3. plan \in Plans
      BY <1>2 DEF Plans, Objects
  <1>4. After(plan, o.perms) = o.perms
      BY <1>2 DEF After
  <1> QED BY <1>2, <1>3, <1>4 DEF Sound

(***************************************************************************)
(* The rows shown to a client and read back: everyone has what everyone    *)
(* had, the others what they had and perhaps something of everyone's.      *)
(***************************************************************************)
LEMMA ShownRows ==
    ASSUME NEW ps \in SUBSET Keyed, NEW api \in MapODPermissionsToPermission(ps), NEW g, NEW x
    PROVE  LET new == MapPermissionToODPermissions(api) IN
           /\ Grants(Everyone, x, new) <=> Grants(Everyone, x, ps)
           /\ Grants(g, x, new) => Grants(g, x, ps) \/ Grants(Everyone, x, ps)
           /\ Grants(g, x, ps) => Grants(g, x, new)
  <1> DEFINE With(rights) == [y \in Rights |->
               [allow |-> {p.g : p \in {q \in ps : y \in q.rights \cup rights}}, deny |-> {}]]
             all == {p \in ps : p.g = Everyone}
             new == MapPermissionToODPermissions(api)
  <1>1. PICK rights : /\ api = With(rights)
                      /\ \A y \in rights : Grants(Everyone, y, ps)
    <2>1. CASE all = {}
      <3>1. api = With({})
          BY <2>1 DEF MapODPermissionsToPermission
      <3>2. \A y \in {} : Grants(Everyone, y, ps)
          OBVIOUS
      <3> HIDE DEF With
      <3> QED BY <3>1, <3>2
    <2>2. CASE all # {}
      <3>1. PICK p \in all : api = With(p.rights)
          BY <2>2 DEF MapODPermissionsToPermission
      <3>2. \A y \in p.rights : Grants(Everyone, y, ps)
          BY <3>1 DEF Grants
      <3> QED BY <3>1, <3>2
    <2> QED BY <2>1, <2>2
  <1>2. \A p \in ps : p.g \in Grantees /\ p.rights \subseteq Rights
      BY DEF Keyed, Rows
  <1>3. \A h, y : Grants(h, y, new) <=>
            h \in Grantees /\ y \in Rights /\ h \in api[y].allow \ api[y].deny
      BY MappedRows
  <1>4. \A y \in Rights : /\ api[y].allow = {p.g : p \in {q \in ps : y \in q.rights \cup rights}}
                          /\ api[y].deny = {}
      BY <1>1
  <1>5. \A h : \A y \in Rights : h \in api[y].allow \ api[y].deny <=>
            \E p \in ps : p.g = h /\ y \in p.rights \cup rights
      BY <1>4
  <1> HIDE DEF new
  <1>6. \A h, y : Grants(h, y, new) <=>
            y \in Rights /\ \E p \in ps : p.g = h /\ y \in p.rights \cup rights
      BY <1>2, <1>3, <1>5
  <1>7. \A h, y : Grants(h, y, new) => Grants(h, y, ps) \/ Grants(Everyone, y, ps)
      BY <1>1, <1>6 DEF Grants
  <1>8. \A h, y : Grants(h, y, ps) => Grants(h, y, new)
      BY <1>2, <1>6 DEF Grants
  <1> QED BY <1>7, <1>8 DEF new

LEMMA ResendPlan ==
    ASSUME NEW o \in Objects, NEW c \in Users, NEW api \in MapODPermissionsToPermission(o.perms),
           NEW plan, Sound(o), plan.ok,
           plan = UpdateObject(c, o, [acm |-> [given |-> TRUE, share |-> o.share],
                                      permission |-> api])
    PROVE  /\ plan.share = o.share
           /\ \A g \in Grantees : Held(g, After(plan, o.perms)) = Held(g, o.perms)
  <1>0. o.owner \in Bearers /\ o.owner # Everyone /\ o.perms \in SUBSET Keyed
        /\ o.share \subseteq Grantees
      BY SharingAssumption DEF Objects, Bearers
  <1> DEFINE in == [acm |-> [given |-> TRUE, share |-> o.share], permission |-> api]
             new == MapPermissionToODPermissions(api)
             Had(g, x) == Grants(g, x, o.perms)
  <1>1. in.acm.given /\ in.acm.share = o.share /\ in.permission = api
      OBVIOUS
  <1> HIDE DEF in
  <1>2. After(plan, o.perms) \subseteq Keyed /\ NormalUpdate(plan, o, new, o.share)
    <2>1. plan = UpdateObject(c, o, in)
        BY DEF in
    <2> QED BY <1>0, <1>1, <2>1, UpdatePlan
  <1>3. PICK n, rows : /\ IsNormal(o.owner, {}, new, o.share, n, rows)
                       /\ plan.share = ShareOf(rows)
                       /\ \A g, x : Grants(g, x, After(plan, o.perms)) <=> Grants(g, x, rows)
      BY <1>2 DEF NormalUpdate
  <1>4. \A g, x : /\ Grants(Everyone, x, new) <=> Had(Everyone, x)
                  /\ Grants(g, x, new) => Had(g, x) \/ Had(Everyone, x)
                  /\ Had(g, x) => Grants(g, x, new)
      BY <1>0, ShownRows
  <1>5. \A g, x : ~Grants(g, x, {})
      BY DEF Grants
  <1>6. /\ \A g : g \in o.share <=> Had(g, "R") /\ ~Had(Everyone, "R")
        /\ Had(o.owner, "U") /\ Had(o.owner, "S") /\ (Had(o.owner, "R") \/ Had(Everyone, "R"))
      BY ShareIs DEF Sound, Controls
  <1>7. \A x \in Rights : Had(o.owner, x) \/ Had(Everyone, x)
      BY <1>6 DEF Rights
  <1> HIDE DEF new, Had
  <1>8. CASE o.share = {}
    <2>1. Had(Everyone, "R")
        BY <1>6, <1>8
    <2>2. \A x : Grants(Everyone, x, rows) <=> Had(Everyone, x)
        BY <1>3, <1>4, <1>5, <1>8, <2>1 DEF IsNormal
    <2>3. \A g, x : g # Everyone => (Grants(g, x, rows) <=>
                      x # "R" /\ (Grants(g, x, new) \/ (g = o.owner /\ x \in Rights)))
        BY <1>3, <1>5, <1>8 DEF IsNormal
    <2>4. \A g, x : Grants(g, x, rows) \/ Grants(Everyone, x, rows) <=>
                      Had(g, x) \/ Had(Everyone, x)
        BY <1>4, <1>7, <2>1, <2>2, <2>3
    <2>5. plan.share = o.share
        BY <1>3, <1>8, <2>1, <2>2, ShareIs
    <2> QED BY <1>0, <1>2, <1>3, <2>4, <2>5, HeldSame DEF Had
  <1>9. CASE o.share # {}
    <2>1. ~Had(Everyone, "R")
        BY <1>6, <1>9
    <2>2. \A g : g \in o.share <=> Had(g, "R")
        BY <1>6, <2>1
    <2>3. \A x : Grants(Everyone, x, rows) <=> Had(Everyone, x)
        BY <1>3, <1>4, <1>5, <1>9, <2>1, <2>2 DEF IsNormal
    <2>4. \A g, x : g # Everyone => (Grants(g, x, rows) <=>
                      \/ g \in o.share /\ x = "R"
                      \/ Grants(g, x, new) \/ (g = o.owner /\ x \in Rights))
        BY <1>3, <1>5, <1>9 DEF IsNormal
    <2>5. \A g, x : Grants(g, x, rows) \/ Grants(Everyone, x, rows) <=>
                      Had(g, x) \/ Had(Everyone, x)
        BY <1>4, <1>7, <2>2, <2>3, <2>4
    <2>6. \A g : Grants(g, "R", rows) <=> Had(g, "R")
        BY <1>4, <1>6, <2>1, <2>2, <2>3, <2>4
    <2>7. plan.share = o.share
        BY <1>3, <1>6, <2>1, <2>6, ShareIs
    <2> QED BY <1>0, <1>2, <1>3, <2>5, <2>7, HeldSame DEF Had
  <1> QED BY <1>8, <1>9
--------------------------------------------------------------------------------
(* The requests *)

LEMMA AskedType ==
    ASSUME NEW in \in ShareInputs, NEW a \in MapObjectShareToODPermissions(in)
    PROVE  a \in Seq(Rows)
  <1>1. IsFiniteSet(in.to) /\ in.to \subseteq Grantees /\ in.rights \subseteq Rights
      BY SharingAssumption
  <1>2. PICK s \in SetToSeqs(in.to) : a = [i \in DOMAIN s |-> Perm(s[i], in.rights, FALSE)]
      BY DEF MapObjectShareToODPermissions
  <1>3. Cardinality(in.to) \in Nat
      BY <1>1, FS_CardinalityType
  <1>4. PICK k \in Nat : s \in [1 .. k -> in.to]
      BY <1>2, <1>3 DEF SetToSeqs
  <1>5. \A g \in Grantees : Perm(g, in.rights, FALSE) \in Rows
      BY <1>1 DEF Perm, Rows
  <1>6. a \in [1 .. k -> Rows]
      BY <1>1, <1>2, <1>4, <1>5
  <1> QED BY <1>6

LEMMA RollupType ==
    ASSUME NEW ps \in SUBSET Keyed, NEW c, NEW required
    PROVE  Rollup(c, ps, required) \subseteq Rights
    BY DEF Rollup, Mine, Keyed, Rows

(* The requests go on as they were while the object stays. *)
LEMMA KeepRequests ==
    ASSUME SharingInv, NEW r \in Reqs, NEW t, req' = [req EXCEPT ![r] = t],
           UNCHANGED <<obj, missed, copy>>, t = Idle \/ RequestOk(t)
    PROVE  SharingInv'
  <1>1. ASSUME NEW q, RequestOk(q) PROVE RequestOk(q)'
      BY <1>1 DEF RequestOk
  <1>2. \A p \in Reqs : \/ req'[p] = Idle
                         \/ \E q : RequestOk(q) /\ req'[p] = q
      BY DEF SharingInv
  <1>3. \A p \in Reqs : (req[p] = Idle \/ RequestOk(req[p]))'
      BY <1>1, <1>2
  <1>4. req' \in [Reqs -> Requests \cup {Idle}]
      BY DEF SharingInv, RequestOk
  <1>5. CopyUsable'
      BY DEF SharingInv, CopyUsable
  <1> QED BY <1>3, <1>4, <1>5 DEF SharingInv

LEMMA StartOk ==
    ASSUME SharingInv, NEW r \in Reqs, NEW c \in Users, NEW op \in Operations,
           NEW asked \in Seq(Rows), NEW plan, Start(r, c, op, asked, plan), plan \in Plans,
           op = "add" => \A p \in plan.add : p.rights \subseteq Rollup(c, obj.perms, {"R", "S"}),
           op = "remove" => \A p \in plan.add : p.g = obj.owner,
           Sound(obj) => Fits(op, asked, plan, obj)
    PROVE  SharingInv'
  <1>1. PICK t : t = [st |-> "planned", op |-> op, c |-> c, tok |-> obj.tok, asked |-> asked,
                      rollup |-> Rollup(c, obj.perms, {"R", "S"}), was |-> obj.owner, plan |-> plan]
      OBVIOUS
  <1>2. /\ obj.owner \in Bearers /\ obj.tok \in Nat
        /\ Rollup(c, obj.perms, {"R", "S"}) \subseteq Rights
      BY RollupType DEF SharingInv, Objects
  <1>3. /\ t.op = op /\ t.asked = asked /\ t.plan = plan /\ t.tok = obj.tok
        /\ t.rollup = Rollup(c, obj.perms, {"R", "S"}) /\ t.was = obj.owner
      BY <1>1
  <1>4. t \in Requests
      BY <1>1, <1>2 DEF Requests
  <1>5. RequestOk(t)
      BY <1>2, <1>3, <1>4 DEF RequestOk, Modest, SharingInv
  <1>6. req' = [req EXCEPT ![r] = t] /\ UNCHANGED <<obj, missed, copy>>
      BY <1>1 DEF Start
  <1> QED BY <1>5, <1>6, KeepRequests

LEMMA RequestStarts ==
    ASSUME SharingInv, NEW r \in Reqs, NEW c \in Users,
           \/ Share(r, c) \/ Unshare(r, c) \/ Update(r, c) \/ Resend(r, c) \/ Give(r, c)
           \/ Restore(r, c)
    PROVE  SharingInv'
  <1>0. obj \in Objects
      BY DEF SharingInv
  <1>1. \A op \in {"add", "remove", "update", "resend", "owner", "restore"} : op \in Operations
      BY DEF Operations
  <1>e. << >> \in Seq(Rows)
      OBVIOUS
  <1>2. CASE Share(r, c)
    <2>0. PICK in \in ShareInputs : \E a \in MapObjectShareToODPermissions(in) :
             Start(r, c, "add", a, AddObjectShare(c, obj, a))
        BY <1>2 DEF Share
    <2>1. PICK a \in MapObjectShareToODPermissions(in) :
             Start(r, c, "add", a, AddObjectShare(c, obj, a))
        BY <2>0
    <2>2. PICK plan : plan = AddObjectShare(c, obj, a) /\ plan.ok
        BY <2>1 DEF Start
    <2>3. a \in Seq(Rows)
        BY <2>1, AskedType
    <2>4. /\ plan \in Plans
          /\ \A p \in plan.add : p.rights \subseteq Rollup(c, obj.perms, {"R", "S"})
          /\ Sound(obj) => Fits("add", a, plan, obj)
        BY <1>0, <2>2, <2>3, AddPlan
    <2> QED BY <1>1, <2>1, <2>2, <2>3, <2>4, StartOk
  <1>3. CASE Unshare(r, c)
    <2>0. PICK in \in ShareInputs : \E a \in MapObjectShareToODPermissions(in) :
             Start(r, c, "remove", a, RemoveObjectShare(c, obj, a))
        BY <1>3 DEF Unshare
    <2>1. PICK a \in MapObjectShareToODPermissions(in) :
             Start(r, c, "remove", a, RemoveObjectShare(c, obj, a))
        BY <2>0
    <2>2. PICK plan : plan = RemoveObjectShare(c, obj, a) /\ plan.ok
        BY <2>1 DEF Start
    <2>3. a \in Seq(Rows)
        BY <2>1, AskedType
    <2>4. /\ plan \in Plans /\ \A p \in plan.add : p.g = obj.owner
          /\ Sound(obj) => Fits("remove", a, plan, obj)
        BY <1>0, <2>2, <2>3, RemovePlan
    <2> QED BY <1>1, <2>1, <2>2, <2>3, <2>4, StartOk
  <1>4. CASE Update(r, c)
    <2>1. PICK in \in UpdateInputs : Start(r, c, "update", <<>>, UpdateObject(c, obj, in))
        BY <1>4 DEF Update
    <2>2. PICK plan : plan = UpdateObject(c, obj, in) /\ plan.ok
        BY <2>1 DEF Start
    <2>3. in.acm.share \subseteq Grantees
        BY <2>1, SharingAssumption
    <2>4. /\ plan \in Plans /\ plan.share = ShareOf(After(plan, obj.perms))
          /\ Controls(plan.owner, After(plan, obj.perms))
        BY <1>0, <2>2, <2>3, UpdatePlan
    <2>5. Fits("update", <<>>, plan, obj)
        BY <2>4 DEF Fits
    <2> QED BY <1>1, <1>e, <2>1, <2>2, <2>4, <2>5, StartOk
  <1>5. CASE Resend(r, c)
    <2>1. PICK api \in MapODPermissionsToPermission(obj.perms) :
             Start(r, c, "resend", <<>>,
               UpdateObject(c, obj, [acm |-> [given |-> TRUE, share |-> obj.share], permission |-> api]))
        BY <1>5 DEF Resend
    <2>2. PICK in : in = [acm |-> [given |-> TRUE, share |-> obj.share], permission |-> api]
        OBVIOUS
    <2>3. in.acm.share \subseteq Grantees
        BY <1>0, <2>2 DEF Objects
    <2>4. PICK plan : plan = UpdateObject(c, obj, in) /\ plan.ok
        BY <2>1, <2>2 DEF Start
    <2>5. /\ plan \in Plans /\ plan.share = ShareOf(After(plan, obj.perms))
          /\ Controls(plan.owner, After(plan, obj.perms))
        BY <1>0, <2>3, <2>4, UpdatePlan
    <2>6. Sound(obj) => /\ plan.share = obj.share
                        /\ \A g \in Grantees : Held(g, After(plan, obj.perms)) = Held(g, obj.perms)
        BY <1>0, <2>1, <2>2, <2>4, ResendPlan
    <2>7. Sound(obj) => Fits("resend", <<>>, plan, obj)
        BY <2>5, <2>6 DEF Fits
    <2> QED BY <1>1, <1>e, <2>1, <2>2, <2>4, <2>5, <2>7, StartOk
  <1>6. CASE Give(r, c)
    <2>1. PICK n, plan :
             /\ n \in NewOwners /\ Start(r, c, "owner", <<>>, plan)
             /\ plan = ChangeOwner(c, obj, n) \/ plan = BulkOwnership(c, obj, n)
        BY <1>6 DEF Give
    <2>2. plan.ok
        BY <2>1 DEF Start
    <2>3. plan = ChangeOwnerRaw(c, obj, n)
        BY <2>1, <2>2 DEF ChangeOwner, BulkOwnership, Refused
    <2>4. n \in Grantees
        BY <2>1, SharingAssumption
    <2>5. /\ plan \in Plans /\ plan.share = ShareOf(After(plan, obj.perms))
          /\ Controls(plan.owner, After(plan, obj.perms))
        BY <1>0, <2>2, <2>3, <2>4, OwnerPlan
    <2>6. Fits("owner", <<>>, plan, obj)
        BY <2>5 DEF Fits
    <2> QED BY <1>1, <1>e, <2>1, <2>5, <2>6, StartOk
  <1>7. CASE Restore(r, c)
    <2>1. PICK plan : plan = RestoreVersion(c, obj) /\ plan.ok /\ Start(r, c, "restore", <<>>, plan)
        BY <1>7 DEF Restore, Start
    <2>2. /\ plan \in Plans
          /\ Sound(obj) => /\ plan.share = ShareOf(After(plan, obj.perms))
                           /\ Controls(plan.owner, After(plan, obj.perms))
        BY <1>0, <2>1, RestorePlan
    <2>3. Sound(obj) => Fits("restore", <<>>, plan, obj)
        BY <2>2 DEF Fits
    <2> QED BY <1>1, <1>e, <2>1, <2>2, <2>3, StartOk
  <1> QED BY <1>2, <1>3, <1>4, <1>5, <1>6, <1>7

LEMMA RequestGoesOn ==
    ASSUME SharingInv, NEW r \in Reqs, BeginUpdate(r) \/ Fails(r)
    PROVE  SharingInv'
  <1>1. PICK t : req' = [req EXCEPT ![r] = t] /\ (t = Idle \/ RequestOk(t))
    <2>1. CASE req' = [req EXCEPT ![r] = Idle]
        BY <2>1
    <2>2. CASE BeginUpdate(r) /\ req' = [req EXCEPT ![r].st = "begun"]
      <3>1. req[r] # Idle
          BY <2>2 DEF BeginUpdate, Idle
      <3>2. RequestOk(req[r]) /\ req[r] \in Requests
          BY <3>1 DEF SharingInv, RequestOk
      <3>3. PICK t : t = [req[r] EXCEPT !.st = "begun"]
          OBVIOUS
      <3>4. /\ t \in Requests /\ t.op = req[r].op /\ t.asked = req[r].asked /\ t.plan = req[r].plan
            /\ t.tok = req[r].tok /\ t.rollup = req[r].rollup /\ t.was = req[r].was
          BY <3>2, <3>3 DEF Requests
      <3>5. RequestOk(t)
          BY <3>2, <3>4 DEF RequestOk, Modest
      <3>6. req' = [req EXCEPT ![r] = t]
          BY <2>2, <3>3 DEF SharingInv
      <3> QED BY <3>5, <3>6
    <2> QED BY <2>1, <2>2 DEF BeginUpdate, Fails
  <1> QED BY <1>1, KeepRequests DEF BeginUpdate, Fails

(* What the transaction leaves, whether it finds its row or not. *)
LEMMA Written ==
    ASSUME SharingInv, NEW r \in Reqs, WriteObject(r)
    PROVE  /\ RequestOk(req[r]) /\ obj' \in Objects /\ missed' \in BOOLEAN
           /\ \A g, x : Grants(g, x, obj'.perms) <=> Grants(g, x, After(req[r].plan, obj.perms))
           /\ \A g : (\E p \in obj'.perms : p.g = g) <=>
                     \E p \in After(req[r].plan, obj.perms) : p.g = g
           /\ \/ /\ req[r].tok = obj.tok /\ missed' = missed /\ obj'.tok = obj.tok + 1
                 /\ obj'.owner = req[r].plan.owner /\ obj'.share = req[r].plan.share
              \/ req[r].tok # obj.tok /\ missed' /\ obj'.tok = obj.tok
  <1>1. req[r] # Idle
      BY DEF WriteObject, Idle
  <1>2. RequestOk(req[r])
      BY <1>1 DEF SharingInv
  <1>3. /\ req[r].tok \in Nat /\ req[r].plan \in Plans
      BY <1>2 DEF RequestOk, Requests
  <1>4. PICK plan : plan = req[r].plan
      OBVIOUS
  <1>5. /\ plan.add \in SUBSET Keyed /\ plan.owner \in Bearers /\ plan.share \in SUBSET Grantees
      BY <1>3, <1>4 DEF Plans
  <1>6. PICK dated : dated = {[x EXCEPT !.at = req[r].tok + 1] : x \in plan.add}
      OBVIOUS
  <1>7. /\ dated \subseteq Keyed
        /\ \A g, x : Grants(g, x, dated) <=> Grants(g, x, plan.add)
        /\ \A g : (\E p \in dated : p.g = g) <=> \E p \in plan.add : p.g = g
    <2>1. PICK t, add : t = req[r].tok + 1 /\ add = plan.add
        OBVIOUS
    <2>2. t \in Nat /\ add \in SUBSET Keyed
        BY <1>3, <1>5, <2>1
    <2>3. dated = {[x EXCEPT !.at = t] : x \in add}
        BY <1>6, <2>1
    <2>4. Dated(add, {[x EXCEPT !.at = t] : x \in add})
        BY <2>2, WithDate
    <2> QED BY <2>1, <2>3, <2>4 DEF Dated
  <1>8. PICK perms : perms = (obj.perms \ plan.del) \cup dated
      OBVIOUS
  <1>9. obj.perms \in SUBSET Keyed /\ obj.tok \in Nat /\ obj \in Objects /\ missed \in BOOLEAN
      BY DEF SharingInv, Objects
  <1>10. perms \in SUBSET Keyed
      BY <1>7, <1>8, <1>9
  <1>11. /\ \A g, x : Grants(g, x, perms) <=> Grants(g, x, After(plan, obj.perms))
         /\ \A g : (\E p \in perms : p.g = g) <=> \E p \in After(plan, obj.perms) : p.g = g
    <2>1. \A g, x : Grants(g, x, perms) <=> Grants(g, x, obj.perms \ plan.del) \/ Grants(g, x, dated)
        BY <1>8 DEF Grants
    <2>2. \A g, x : Grants(g, x, After(plan, obj.perms)) <=>
                      Grants(g, x, obj.perms \ plan.del) \/ Grants(g, x, plan.add)
        BY DEF Grants, After
    <2>3. \A g : (\E p \in perms : p.g = g) <=> \E p \in After(plan, obj.perms) : p.g = g
        BY <1>7, <1>8 DEF After
    <2> QED BY <1>7, <2>1, <2>2, <2>3
  <1>12. CASE req[r].tok = obj.tok
    <2>1. /\ obj' = [obj EXCEPT !.owner = plan.owner, !.share = plan.share, !.tok = obj.tok + 1,
                                !.perms = perms]
          /\ missed' = missed
        BY <1>4, <1>6, <1>8, <1>12 DEF WriteObject
    <2>2. /\ obj' \in Objects /\ obj'.perms = perms /\ obj'.tok = obj.tok + 1
          /\ obj'.owner = plan.owner /\ obj'.share = plan.share
      <3>1. PICK owner, share, tok : owner = plan.owner /\ share = plan.share /\ tok = obj.tok + 1
          OBVIOUS
      <3>2. owner \in Bearers /\ share \in SUBSET Grantees /\ tok \in Nat
          BY <1>5, <1>9, <3>1
      <3>3. PICK o : o = [obj EXCEPT !.owner = owner, !.share = share, !.tok = tok, !.perms = perms]
          OBVIOUS
      <3>4. /\ o \in Objects /\ o.perms = perms /\ o.tok = tok /\ o.owner = owner /\ o.share = share
          BY <1>9, <1>10, <3>2, <3>3 DEF Objects
      <3> QED BY <2>1, <3>1, <3>3, <3>4
    <2> QED BY <1>2, <1>4, <1>9, <1>11, <1>12, <2>1, <2>2
  <1>13. CASE req[r].tok # obj.tok
    <2>1. obj' = [obj EXCEPT !.perms = perms] /\ missed' = TRUE
        BY <1>4, <1>6, <1>8, <1>13 DEF WriteObject
    <2>2. obj' \in Objects /\ obj'.perms = perms /\ obj'.tok = obj.tok
      <3>1. PICK o : o = [obj EXCEPT !.perms = perms]
          OBVIOUS
      <3>2. o \in Objects /\ o.perms = perms /\ o.tok = obj.tok
          BY <1>9, <1>10, <3>1 DEF Objects
      <3> QED BY <2>1, <3>1, <3>2
    <2>3. missed' /\ missed' \in BOOLEAN
        BY <2>1
    <2> QED BY <1>2, <1>4, <1>11, <1>13, <2>2, <2>3
  <1> QED BY <1>12, <1>13

LEMMA ObjectWritten ==
    ASSUME SharingInv, NEW r \in Reqs, WriteObject(r)
    PROVE  SharingInv'
  <1>1. /\ RequestOk(req[r]) /\ obj' \in Objects /\ missed' \in BOOLEAN
        /\ \A g, x : Grants(g, x, obj'.perms) <=> Grants(g, x, After(req[r].plan, obj.perms))
        /\ \/ /\ req[r].tok = obj.tok /\ missed' = missed /\ obj'.tok = obj.tok + 1
              /\ obj'.owner = req[r].plan.owner /\ obj'.share = req[r].plan.share
           \/ req[r].tok # obj.tok /\ missed' /\ obj'.tok = obj.tok
      BY Written
  <1>2. ~missed' => Sound(obj')
    <2> SUFFICES ASSUME ~missed' PROVE Sound(obj')
        OBVIOUS
    <2>1. /\ ~missed /\ req[r].tok = obj.tok
          /\ obj'.owner = req[r].plan.owner /\ obj'.share = req[r].plan.share
        BY <1>1
    <2>2. /\ req[r].plan.share = ShareOf(After(req[r].plan, obj.perms))
          /\ Controls(req[r].plan.owner, After(req[r].plan, obj.perms))
        BY <1>1, <2>1 DEF RequestOk, Fits
    <2>3. ShareOf(obj'.perms) = ShareOf(After(req[r].plan, obj.perms))
        BY <1>1, ShareSame
    <2> QED BY <1>1, <2>1, <2>2, <2>3 DEF Sound, Controls
  <1>3. req' = [req EXCEPT ![r] = Idle] /\ UNCHANGED copy
      BY DEF WriteObject
  <1>4. ASSUME NEW q, RequestOk(q) PROVE RequestOk(q)'
    <2>1. q \in Requests /\ Modest(q) /\ q.tok <= obj.tok /\ q.tok \in Nat /\ obj.tok \in Nat
        BY <1>4 DEF RequestOk, Requests, SharingInv, Objects
    <2>2. q.tok <= obj'.tok /\ (missed' \/ q.tok # obj'.tok)
        BY <1>1, <2>1
    <2> QED BY <2>1, <2>2 DEF RequestOk, Modest
  <1>5. \A p \in Reqs : req'[p] = Idle \/ \E q : RequestOk(q) /\ req'[p] = q
      BY <1>3 DEF SharingInv
  <1>6. \A p \in Reqs : (req[p] = Idle \/ RequestOk(req[p]))'
      BY <1>4, <1>5
  <1>7. req' \in [Reqs -> Requests \cup {Idle}]
      BY <1>3 DEF SharingInv
  <1>8. CopyUsable'
      BY <1>3 DEF SharingInv, CopyUsable
  <1> QED BY <1>1, <1>2, <1>6, <1>7, <1>8 DEF SharingInv

LEMMA Trashed ==
    ASSUME SharingInv, Trash
    PROVE  SharingInv'
  <1>1. /\ obj' \in Objects /\ obj'.perms = obj.perms /\ obj'.tok = obj.tok + 1 /\ obj.tok \in Nat
        /\ obj'.share = obj.share /\ obj'.owner = obj.owner
    <2>1. obj \in Objects /\ obj.tok \in Nat
        BY DEF SharingInv, Objects
    <2>2. PICK tok \in Nat : tok = obj.tok + 1
        BY <2>1
    <2>3. PICK o : o = [obj EXCEPT !.deleted = TRUE, !.tok = tok]
        OBVIOUS
    <2>4. /\ o \in Objects /\ o.perms = obj.perms /\ o.tok = tok
          /\ o.share = obj.share /\ o.owner = obj.owner
        BY <2>1, <2>3 DEF Objects
    <2>5. obj' = o
        BY <2>2, <2>3 DEF Trash
    <2> QED BY <2>1, <2>2, <2>4, <2>5
  <1>2. UNCHANGED <<req, missed, copy>>
      BY DEF Trash
  <1>3. ~missed' => Sound(obj')
      BY <1>1, <1>2 DEF SharingInv, Sound
  <1>4. ASSUME NEW q, RequestOk(q) PROVE RequestOk(q)'
    <2>1. q \in Requests /\ Modest(q) /\ q.tok <= obj.tok /\ q.tok \in Nat
        BY <1>4 DEF RequestOk, Requests
    <2>2. q.tok <= obj'.tok /\ q.tok # obj'.tok
        BY <1>1, <2>1
    <2> QED BY <2>1, <2>2 DEF RequestOk, Modest
  <1>5. \A p \in Reqs : (req[p] = Idle \/ RequestOk(req[p]))'
      BY <1>2, <1>4 DEF SharingInv
  <1>6. CopyUsable'
      BY <1>2 DEF SharingInv, CopyUsable
  <1> QED BY <1>1, <1>2, <1>3, <1>5, <1>6 DEF SharingInv

LEMMA Copied ==
    ASSUME SharingInv, NEW c \in Users, CopyObject(c)
    PROVE  SharingInv'
  <1> DEFINE own == Perm(c, Rights, TRUE)
             Allowed(share) == IsUserAuthorizedForACM(c, share)
  <1>1. PICK share, n :
           /\ share = InjectPermissionsIntoACM(obj.perms \cup {own}, Head(SelectSeq(hist, Allowed)))
           /\ n = NormalizePermissionsFromACM(c, obj.perms, {own}, share)
      OBVIOUS
  <1>2. copy' = [owner |-> c, share |-> n.share, perms |-> NormalRows(n, obj.perms)]
      BY <1>1 DEF CopyObject, NormalRows
  <1>3. /\ own \in Rows /\ own.g = c /\ own.rights = Rights /\ own.key = TRUE
        /\ c \in Bearers /\ c # Everyone /\ "R" \in Rights
      BY SharingAssumption DEF Perm, Rows, Bearers, Grantees, Rights
  <1> HIDE DEF own
  <1>4. obj.perms \in SUBSET Rows /\ \A p \in obj.perms : p.key
      BY DEF SharingInv, Objects, Keyed
  <1>5. IsNormal(c, obj.perms, {own}, share, n, NormalRows(n, obj.perms))
    <2>1. {own} \in SUBSET Rows
        BY <1>3
    <2> QED BY <1>1, <1>3, <1>4, <2>1, Normalized
  <1>6. PICK p \in NormalRows(n, obj.perms) : p.g \in {c, Everyone} /\ "R" \in p.rights /\ p.key
    <2>1. CASE share = {}
      <3>1. Everyone \in Readers(obj.perms \cup {own})
        <4>1. c \in Readers(obj.perms \cup {own})
            BY <1>3, ReadersGrant DEF Grants
        <4> QED BY <1>1, <2>1, <4>1 DEF InjectPermissionsIntoACM
      <3>2. PICK p \in obj.perms : p.g = Everyone /\ "R" \in p.rights
          BY <1>3, <3>1, ReadersGrant DEF Grants
      <3>3. p \notin n.del
          BY <1>5, <2>1, <3>2 DEF IsNormal
      <3> QED BY <1>4, <3>2, <3>3 DEF NormalRows
    <2>2. CASE share # {}
      <3>1. own \in n.add
          BY <1>3, <1>5, <2>2 DEF IsNormal
      <3> QED BY <1>3, <3>1 DEF NormalRows
    <2> QED BY <2>1, <2>2
  <1>7. "R" \in Held(c, NormalRows(n, obj.perms))
      BY <1>6 DEF Held
  <1>8. IsUserAuthorizedForACM(c, n.share)
    <2>1. n.share = ShareOf(NormalRows(n, obj.perms))
        BY <1>5 DEF IsNormal
    <2>2. \/ Grants(c, "R", NormalRows(n, obj.perms))
          \/ Grants(Everyone, "R", NormalRows(n, obj.perms))
        BY <1>6 DEF Grants
    <2>3. n.share = {} \/ c \in n.share
        BY <2>1, <2>2, ShareIs
    <2> QED BY <2>3 DEF IsUserAuthorizedForACM
  <1>9. CopyUsable'
      BY <1>2, <1>7, <1>8 DEF CopyUsable
  <1>10. UNCHANGED <<obj, missed, req>>
      BY DEF CopyObject
  <1>11. \A s \in Reqs : (req[s] = Idle \/ RequestOk(req[s]))'
      BY <1>10 DEF SharingInv, RequestOk
  <1> QED BY <1>9, <1>10, <1>11 DEF SharingInv

(* What createObject makes of whatever it is sent. *)
LEMMA CreatedSound ==
    ASSUME NEW in \in Created, NEW o, o = CreateObject(in)
    PROVE  o \in Objects /\ Sound(o)
  <1>1. in.owner \in Bearers /\ in.owner # Everyone /\ in.share \subseteq Grantees
      BY SharingAssumption DEF Bearers
  <1>2. PICK given, own :
           given = MapPermissionToODPermissions(in.permission)
           /\ own = PermissionWithoutRead(PermissionForOwner(in.owner))
      OBVIOUS
  <1>3. given \in SUBSET Rows
      BY <1>2, MappedRows
  <1>4. own \in Rows
      BY <1>1, <1>2 DEF PermissionWithoutRead, PermissionForOwner, Perm, Rows, Bearers, Grantees
  <1>5. PICK asked : asked = given \cup {own}
      OBVIOUS
  <1>6. asked \in SUBSET Rows
      BY <1>3, <1>4, <1>5
  <1>7. PICK share : share = InjectPermissionsIntoACM(asked, in.share)
      OBVIOUS
  <1>8. share \subseteq Grantees
    <2>1. \A g : Grants(g, "R", asked) => g \in Grantees
        BY <1>6 DEF Grants, Rows
    <2> QED BY <1>1, <1>7, <2>1, ReadersGrant DEF InjectPermissionsIntoACM
  <1>9. PICK n : n = NormalizePermissionsFromACM(in.owner, {}, asked, share)
      OBVIOUS
  <1>10. IsNormal(in.owner, {}, asked, share, n, NormalRows(n, {}))
    <2>1. {} \in SUBSET Rows
        OBVIOUS
    <2> QED BY <1>1, <1>6, <1>9, <2>1, Normalized
  <1>11. n.add \in SUBSET Rows /\ NormalRows(n, {}) = n.add
      BY <1>8, <1>10 DEF IsNormal, NormalRows
  <1>12. PICK rows : rows = Consolidate(n.add)
      OBVIOUS
  <1>13. rows \in SUBSET Rows /\ \A g, x : Grants(g, x, rows) <=> Grants(g, x, n.add)
      BY <1>11, <1>12, ConsolidateGrants
  <1>14. PICK perms : perms = {[p EXCEPT !.key = TRUE] : p \in rows}
      OBVIOUS
  <1>15. perms \in SUBSET Keyed /\ \A g, x : Grants(g, x, perms) <=> Grants(g, x, rows)
      BY <1>13, <1>14, WithKey
  <1>16. o = [owner |-> in.owner, share |-> n.share, tok |-> 0, deleted |-> FALSE, perms |-> perms]
      BY <1>2, <1>5, <1>7, <1>9, <1>12, <1>14 DEF CreateObject
  <1>17. n.share = ShareOf(n.add)
      BY <1>10, <1>11 DEF IsNormal
  <1>18. n.share = ShareOf(perms)
      BY <1>13, <1>15, <1>17, ShareSame
  <1>19. n.share \subseteq Grantees
      BY <1>11, <1>17, ShareType
  <1>20. Controls(in.owner, perms)
    <2>1. {"R", "U", "S"} = Rights /\ "U" # "R" /\ "S" # "R"
        BY DEF Rights
    <2>2. Controls(in.owner, n.add)
        BY <1>1, <1>10, <1>11, <2>1 DEF Controls, IsNormal
    <2> QED BY <1>13, <1>15, <2>2 DEF Controls
  <1>21. o \in Objects
      BY <1>1, <1>15, <1>16, <1>19 DEF Objects
  <1>22. o.share = n.share /\ o.perms = perms /\ o.owner = in.owner
      BY <1>16
  <1> QED BY <1>18, <1>20, <1>21, <1>22 DEF Sound

LEMMA SharingStarts == Init => SharingInv
  <1> SUFFICES ASSUME Init PROVE SharingInv
      OBVIOUS
  <1>1. PICK in \in Created : obj = CreateObject(in)
      BY DEF Init
  <1>2. obj \in Objects /\ Sound(obj)
      BY <1>1, CreatedSound
  <1>3. /\ req = [r \in Reqs |-> Idle] /\ missed = FALSE
        /\ copy = [owner |-> "none", share |-> {}, perms |-> {}]
      BY DEF Init
  <1>4. CopyUsable
      BY <1>3 DEF CopyUsable
  <1>5. req \in [Reqs -> Requests \cup {Idle}] /\ \A r \in Reqs : req[r] = Idle
      BY <1>3
  <1> QED BY <1>2, <1>3, <1>4, <1>5 DEF SharingInv

LEMMA SharingSteps == SharingInv /\ [Next]_vars => SharingInv'
  <1> SUFFICES ASSUME SharingInv, [Next]_vars PROVE SharingInv'
      OBVIOUS
  <1>1. CASE Trash
      BY <1>1, Trashed
  <1>2. CASE \E r \in Reqs : BeginUpdate(r) \/ Fails(r)
      BY <1>2, RequestGoesOn
  <1>3. CASE \E r \in Reqs : WriteObject(r)
      BY <1>3, ObjectWritten
  <1>4. CASE \E c \in Users : CopyObject(c)
      BY <1>4, Copied
  <1>5. CASE \E c \in Users, r \in Reqs : \/ Share(r, c) \/ Unshare(r, c) \/ Update(r, c)
                                          \/ Resend(r, c) \/ Give(r, c) \/ Restore(r, c)
      BY <1>5, RequestStarts
  <1>6. CASE UNCHANGED vars
    <2>1. UNCHANGED <<obj, missed, req, copy>>
        BY <1>6 DEF vars
    <2>2. \A p \in Reqs : (req[p] = Idle \/ RequestOk(req[p]))'
        BY <2>1 DEF SharingInv, RequestOk
    <2>3. CopyUsable'
        BY <2>1 DEF SharingInv, CopyUsable
    <2> QED BY <2>1, <2>2, <2>3 DEF SharingInv
  <1> QED BY <1>1, <1>2, <1>3, <1>4, <1>5, <1>6 DEF Next

LEMMA SharingInvariant == Spec => []SharingInv
  <1> QED BY SharingStarts, SharingSteps, PTL DEF Spec
--------------------------------------------------------------------------------
(* What the invariant means *)

(***************************************************************************)
(* Every row UpdateObject and CreateObject add carries the content's key,  *)
(* so that IsUserAllowedTo counts it, also when an update missed its row;  *)
(* and who copies an object can read the copy, although the rows that      *)
(* NormalizePermissionsFromACM adds to it come without a key.              *)
(***************************************************************************)
THEOREM PermissionsHaveKeys == Spec => []KeysUsable
  <1>1. SharingInv => KeysUsable
      BY DEF SharingInv, Objects, Keyed, CopyUsable, KeysUsable
  <1> QED BY <1>1, SharingInvariant, PTL

(***************************************************************************)
(* Whatever requests overlap, the share of the ACM that the authorization  *)
(* service and the listings go by names exactly those with a row to read,  *)
(* as long as no UPDATE of UpdateObject missed its row.                    *)
(***************************************************************************)
THEOREM AcmAlwaysFollows == Spec => []AcmFollowsPermissions
  <1>1. ASSUME SharingInv, ~missed
        PROVE  Readers(obj.perms) # {} /\ obj.share = ShareOf(obj.perms)
    <2>1. Sound(obj)
        BY <1>1 DEF SharingInv
    <2>2. \E g : Grants(g, "R", obj.perms)
        BY <2>1 DEF Sound, Controls
    <2> QED BY <2>1, <2>2, ReadersGrant DEF Sound
  <1>2. SharingInv => AcmFollowsPermissions
      BY <1>1 DEF AcmFollowsPermissions
  <1> QED BY <1>2, SharingInvariant, PTL

(***************************************************************************)
(* No sequence of shares, removals, updates, restored versions and changes *)
(* of owner takes a right from the owner of an object, as long as no       *)
(* UPDATE of UpdateObject missed its row.                                  *)
(***************************************************************************)
THEOREM OwnerKeepsControl == Spec => []OwnerControls
  <1>1. ASSUME SharingInv, ~missed PROVE Held(obj.owner, obj.perms) = Rights
    <2>1. Controls(obj.owner, obj.perms)
        BY <1>1 DEF SharingInv, Sound
    <2>2. \A p \in obj.perms : p.key /\ p.rights \subseteq Rights
        BY <1>1 DEF SharingInv, Objects, Keyed, Rows
    <2>3. "U" \in Held(obj.owner, obj.perms)
        BY <2>1, <2>2, HeldGrants DEF Controls
    <2>4. "S" \in Held(obj.owner, obj.perms)
        BY <2>1, <2>2, HeldGrants DEF Controls
    <2>5. "R" \in Held(obj.owner, obj.perms)
        BY <2>1, <2>2, HeldGrants DEF Controls
    <2>6. Held(obj.owner, obj.perms) \subseteq Rights
        BY <2>2 DEF Held
    <2> QED BY <2>3, <2>4, <2>5, <2>6 DEF Rights
  <1>2. SharingInv => OwnerControls
      BY <1>1 DEF OwnerControls
  <1> QED BY <1>2, SharingInvariant, PTL

LEMMA RightsWritten ==
    ASSUME SharingInv, NEW r \in Reqs, WriteObject(r)
    PROVE  /\ obj.perms \in SUBSET Keyed /\ obj'.perms \in SUBSET Keyed
           /\ \A g, x : x \in Held(g, obj.perms) <=>
                 Grants(g, x, obj.perms) \/ Grants(Everyone, x, obj.perms)
           /\ \A g, x : x \in Held(g, obj'.perms) <=>
                 \/ Grants(g, x, After(req[r].plan, obj.perms))
                 \/ Grants(Everyone, x, After(req[r].plan, obj.perms))
  <1>1. obj.perms \in SUBSET Keyed
      BY DEF SharingInv, Objects
  <1>2. /\ obj'.perms \in SUBSET Keyed
        /\ \A g, x : Grants(g, x, obj'.perms) <=> Grants(g, x, After(req[r].plan, obj.perms))
    <2>1. /\ obj' \in Objects
          /\ \A g, x : Grants(g, x, obj'.perms) <=> Grants(g, x, After(req[r].plan, obj.perms))
        BY Written
    <2> QED BY <2>1 DEF Objects
  <1>3. \A ps \in SUBSET Keyed : \A g, x : x \in Held(g, ps) <=>
            Grants(g, x, ps) \/ Grants(Everyone, x, ps)
      BY HeldGrants DEF Keyed
  <1> QED BY <1>1, <1>2, <1>3

(***************************************************************************)
(* VerifyPermissionToShare and the plan made of what the sharer held bind  *)
(* the rows UpdateObject writes later, even in an object that others have  *)
(* changed meanwhile and even when the UPDATE misses its row.              *)
(***************************************************************************)
THEOREM NobodySharesMore == Spec => SharesWhatIsHeld
  <1>1. ASSUME SharingInv, NEW r \in Reqs, WriteObject(r), req[r].op \in {"add", "remove"},
               NEW g \in Grantees \ {req[r].was}
        PROVE  Held(g, obj'.perms) \ Held(g, obj.perms) \subseteq req[r].rollup
    <2>1. RequestOk(req[r]) /\ req[r].was \in Bearers /\ req[r].was # Everyone
      <3>1. RequestOk(req[r])
          BY <1>1, Written
      <3> QED BY <3>1, SharingAssumption DEF RequestOk, Requests, Bearers
    <2> SUFFICES ASSUME NEW x \in Held(g, obj'.perms) \ Held(g, obj.perms)
                 PROVE  x \in req[r].rollup
        OBVIOUS
    <2>2. PICK h \in {g, Everyone} : /\ Grants(h, x, After(req[r].plan, obj.perms))
                                     /\ ~Grants(h, x, obj.perms)
        BY <1>1, RightsWritten
    <2>3. PICK p \in req[r].plan.add : p.g = h /\ x \in p.rights
        BY <2>2 DEF Grants, After
    <2> QED BY <1>1, <2>1, <2>3 DEF RequestOk, Modest
  <1>2. SharingInv => \A r \in Reqs : WriteObject(r) /\ req[r].op \in {"add", "remove"} =>
                        \A g \in Grantees \ {req[r].was} :
                           Held(g, obj'.perms) \ Held(g, obj.perms) \subseteq req[r].rollup
      BY <1>1
  <1> QED BY <1>2, SharingInvariant, PTL DEF SharesWhatIsHeld

(* The plan of a request that finds its row was made for this object. *)
LEMMA PlanStillFits ==
    ASSUME SharingInv, NEW r \in Reqs, WriteObject(r), ~missed'
    PROVE  /\ Fits(req[r].op, req[r].asked, req[r].plan, obj)
           /\ obj'.share = req[r].plan.share
  <1>1. /\ RequestOk(req[r])
        /\ \/ /\ req[r].tok = obj.tok /\ missed' = missed
              /\ obj'.share = req[r].plan.share
           \/ req[r].tok # obj.tok /\ missed'
      BY Written
  <1> QED BY <1>1 DEF RequestOk

(***************************************************************************)
(* What addObjectShare and removeObjectShare report as done is done: the   *)
(* change token UpdateObject compares makes sure that the plan was made    *)
(* for the object it is written to.                                        *)
(***************************************************************************)
THEOREM SharesTakeEffect == Spec => ShareTakesEffect
  <1>1. ASSUME SharingInv, NEW r \in Reqs, WriteObject(r), ~missed'
        PROVE  /\ req[r].op = "add" => \A i \in DOMAIN req[r].asked :
                    req[r].asked[i].rights \subseteq Held(req[r].asked[i].g, obj'.perms)
               /\ req[r].op = "remove" => \A i \in DOMAIN req[r].asked :
                    \/ req[r].asked[i].g = obj.owner
                    \/ \A p \in obj'.perms : p.g # req[r].asked[i].g
    <2>1. Fits(req[r].op, req[r].asked, req[r].plan, obj)
        BY <1>1, PlanStillFits
    <2>2. ASSUME req[r].op = "add", NEW i \in DOMAIN req[r].asked, NEW x \in req[r].asked[i].rights
          PROVE  x \in Held(req[r].asked[i].g, obj'.perms)
      <3>1. \/ Grants(req[r].asked[i].g, x, After(req[r].plan, obj.perms))
            \/ Grants(Everyone, x, After(req[r].plan, obj.perms))
          BY <2>1, <2>2 DEF Fits
      <3> QED BY <1>1, <3>1, RightsWritten
    <2>3. ASSUME req[r].op = "remove", NEW i \in DOMAIN req[r].asked,
                 req[r].asked[i].g # obj.owner, NEW p \in obj'.perms
          PROVE  p.g # req[r].asked[i].g
      <3>1. \A q \in After(req[r].plan, obj.perms) : q.g # req[r].asked[i].g
          BY <2>1, <2>3 DEF Fits
      <3>2. \A g : (\E q \in obj'.perms : q.g = g) <=>
                   \E q \in After(req[r].plan, obj.perms) : q.g = g
          BY <1>1, Written
      <3> QED BY <3>1, <3>2
    <2> QED BY <2>2, <2>3
  <1>2. SharingInv => \A r \in Reqs : WriteObject(r) /\ ~missed' =>
          /\ req[r].op = "add" => \A i \in DOMAIN req[r].asked :
                req[r].asked[i].rights \subseteq Held(req[r].asked[i].g, obj'.perms)
          /\ req[r].op = "remove" => \A i \in DOMAIN req[r].asked :
                \/ req[r].asked[i].g = obj.owner
                \/ \A p \in obj'.perms : p.g # req[r].asked[i].g
      BY <1>1
  <1> QED BY <1>2, SharingInvariant, PTL DEF ShareTakesEffect

(***************************************************************************)
(* An object sent back as MapODObjectToObject showed it passes through     *)
(* MapPermissionToODPermissions, NormalizePermissionsFromACM, Consolidate  *)
(* and UpdateObject, and nobody has a right more or less.                  *)
(***************************************************************************)
THEOREM ResendIsHarmless == Spec => ResendChangesNothing
  <1>1. ASSUME SharingInv, NEW r \in Reqs, WriteObject(r), req[r].op = "resend", ~missed'
        PROVE  /\ obj'.share = obj.share
               /\ \A g \in Grantees : Held(g, obj'.perms) = Held(g, obj.perms)
    <2>1. /\ Fits(req[r].op, req[r].asked, req[r].plan, obj)
          /\ obj'.share = req[r].plan.share
        BY <1>1, PlanStillFits
    <2>2. /\ req[r].plan.share = obj.share
          /\ \A g \in Grantees : Held(g, After(req[r].plan, obj.perms)) = Held(g, obj.perms)
        BY <1>1, <2>1 DEF Fits
    <2>3. After(req[r].plan, obj.perms) \subseteq Keyed
      <3>1. RequestOk(req[r]) /\ obj.perms \in SUBSET Keyed
          BY <1>1, Written, RightsWritten
      <3> QED BY <3>1 DEF RequestOk, Requests, Plans, After
    <2>4. \A g : Held(g, obj'.perms) = Held(g, After(req[r].plan, obj.perms))
      <3>1. obj'.perms \in SUBSET Keyed
          BY <1>1, RightsWritten
      <3>2. \A g, x : Grants(g, x, obj'.perms) <=> Grants(g, x, After(req[r].plan, obj.perms))
          BY <1>1, Written
      <3> QED BY <2>3, <3>1, <3>2, HeldSame
    <2> QED BY <2>1, <2>2, <2>4
  <1>2. SharingInv => \A r \in Reqs : WriteObject(r) /\ req[r].op = "resend" /\ ~missed' =>
          /\ obj'.share = obj.share
          /\ \A g \in Grantees : Held(g, obj'.perms) = Held(g, obj.perms)
      BY <1>1
  <1> QED BY <1>2, SharingInvariant, PTL DEF ResendChangesNothing
================================================================================
