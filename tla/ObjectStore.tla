------------------------------ MODULE ObjectStore ------------------------------
(***************************************************************************)
(* The object tree in the metadata database, and the requests that create, *)
(* update, move, delete, restore and expunge objects of it concurrently.   *)
(*                                                                         *)
(* A request first reads the object in a transaction of its own and checks *)
(* it (the handlers of package server), then runs the transaction that     *)
(* changes it (package dao).  The database runs at READ-COMMITTED: a       *)
(* SELECT takes no lock and sees what is committed and what its own        *)
(* transaction wrote, an UPDATE waits for the lock of the row and sees its *)
(* latest version.  A reference to a parent, when it is set, takes a       *)
(* shared lock of the parent's row (foreign key).  The triggers ti_object  *)
(* and tu_object run before the row is written.                            *)
(*                                                                         *)
(* The change token of a row is a hash that changes with its changeCount,  *)
(* here the count itself.  All content of a row but its place in the tree  *)
(* and its trash state is left out: an update is its new count.            *)
(***************************************************************************)
EXTENDS Naturals, FiniteSets

CONSTANTS
  Objects,    \* object ids
  Existing,   \* the objects that exist at the start, the others can be created
  Deletable,  \* the objects whose permissions let the callers delete them
  Reqs,       \* concurrent requests
  Movers,     \* the requests that may move objects
  Ops,        \* the operations requests may call for
  Tries,      \* DeadlockRetryCounter
  MaxOps,     \* bound on the requests started
  MaxFaults   \* bound on failed commits and failed listings

AllOps == {"create", "update", "move", "delete", "expunge", "undelete"}
Root == "root"
NoReq == "none"

ASSUME StoreAssumption ==
  /\ Existing \subseteq Objects
  /\ Deletable \subseteq Objects
  /\ Movers \subseteq Reqs
  /\ Ops \subseteq AllOps
  /\ Tries \in Nat
  /\ MaxOps \in Nat
  /\ MaxFaults \in Nat
  /\ Root \notin Objects
  /\ NoReq \notin Reqs

VARIABLES
  row,      \* row[o]: the committed row of object o
  dirty,    \* dirty[o]: its uncommitted version, while xlock[o] is held
  xlock,    \* xlock[o]: the request whose transaction wrote o, or NoReq
  slock,    \* slock[o]: the requests whose transactions refer to o as a parent
  txn,      \* txn[r]: the state of request r
  started,  \* requests started so far
  faults    \* commits and listings that failed so far

locks == <<dirty, xlock, slock>>
vars == <<row, locks, txn, started, faults>>

Row == [exists : BOOLEAN, parent : Objects \cup {Root}, deleted : BOOLEAN,
        ancestor : BOOLEAN, expunged : BOOLEAN, count : Nat]
NoRow == [exists |-> FALSE, parent |-> Root, deleted |-> FALSE,
          ancestor |-> FALSE, expunged |-> FALSE, count |-> 0]
NewRow(p) == [NoRow EXCEPT !.exists = TRUE, !.parent = p]

(***************************************************************************)
(* A request: op on object id, whose change token the caller gave, with    *)
(* target the parent to be set.  at is the object it is working on and     *)
(* want the change token at should have; todo holds the objects, with the  *)
(* tokens they were listed with, that it still has to work on.  wrote says *)
(* whether its UPDATE affected a row, tries how often it may still retry.  *)
(***************************************************************************)
Steps == {"walk", "read", "write", "key", "commit", "ok"}
Active == [pc : Steps, op : AllOps, id : Objects, target : Objects \cup {Root},
           token : Nat, at : Objects, want : Nat, todo : SUBSET (Objects \X Nat),
           wrote : BOOLEAN, tries : 0 .. Tries]
Idle == [pc |-> "idle", op |-> "none", id |-> Root, target |-> Root, token |-> 0,
         at |-> Root, want |-> 0, todo |-> {}, wrote |-> FALSE, tries |-> 0]

TypeOK ==
  /\ row \in [Objects -> Row]
  /\ dirty \in [Objects -> Row]
  /\ xlock \in [Objects -> Reqs \cup {NoReq}]
  /\ slock \in [Objects -> SUBSET Reqs]
  /\ txn \in [Reqs -> Active \cup {Idle}]
  /\ started \in 0 .. MaxOps
  /\ faults \in 0 .. MaxFaults

(***************************************************************************)
(* No set of objects has all its parents in itself.                        *)
(***************************************************************************)
Forest(objs, parent) ==
  \A S \in (SUBSET objs) \ {{}} : \E o \in S : parent[o] \notin S

Init ==
  /\ \E parent \in [Existing -> Existing \cup {Root}] :
       /\ Forest(Existing, parent)
       /\ row = [o \in Objects |-> IF o \in Existing THEN NewRow(parent[o]) ELSE NoRow]
  /\ dirty = [o \in Objects |-> NoRow]
  /\ xlock = [o \in Objects |-> NoReq]
  /\ slock = [o \in Objects |-> {}]
  /\ txn = [r \in Reqs |-> Idle]
  /\ started = 0
  /\ faults = 0

--------------------------------------------------------------------------------
(* Rows as a transaction sees and locks them *)

Visible(r, o) == IF xlock[o] = r THEN dirty[o] ELSE row[o]

CanWrite(r, o) == xlock[o] \in {NoReq, r} /\ slock[o] \subseteq {r}

CanRefer(r, o) == xlock[o] \in {NoReq, r}

WriteRow(r, o, new) ==
  /\ dirty' = [dirty EXCEPT ![o] = new]
  /\ xlock' = [xlock EXCEPT ![o] = r]

(***************************************************************************)
(* The end of r's transaction: its locks go.                               *)
(***************************************************************************)
Release(r) ==
  /\ xlock' = [o \in Objects |-> IF xlock[o] = r THEN NoReq ELSE xlock[o]]
  /\ dirty' = [o \in Objects |-> IF xlock[o] = r THEN NoRow ELSE dirty[o]]
  /\ slock' = [o \in Objects |-> slock[o] \ {r}]

Fault == faults < MaxFaults /\ faults' = faults + 1

Become(r, t) == txn' = [txn EXCEPT ![r] = t]

(***************************************************************************)
(* The transaction is rolled back and the request answered with an error.  *)
(***************************************************************************)
Fail(r) == Release(r) /\ Become(r, Idle)

(***************************************************************************)
(* What the triggers demand of the parent of a row to be written: unless   *)
(* the row goes to or comes from the trash, its parent must not be deleted.*)
(***************************************************************************)
ParentValid(r, old, new) ==
  \/ new.parent = Root
  \/ old.exists /\ old.deleted # new.deleted
  \/ Visible(r, new.parent).exists /\ ~Visible(r, new.parent).deleted

(* Mutant: the triggers keep the count. *)
BumpKept(old, new) == new

Bump(old, new) == [new EXCEPT !.count = old.count + 1]

--------------------------------------------------------------------------------
(* The handlers: the object is read and checked *)

Start(r, op, o, target, pc) ==
  /\ op \in Ops
  /\ txn[r].pc = "idle"
  /\ started < MaxOps
  /\ started' = started + 1
  /\ Become(r, [pc |-> pc, op |-> op, id |-> o, target |-> target,
                token |-> row[o].count, at |-> IF pc = "walk" THEN target ELSE o,
                want |-> row[o].count, todo |-> {}, wrote |-> FALSE, tries |-> Tries])
  /\ UNCHANGED <<row, locks, faults>>

BeginCreate(r, o, p) ==
  /\ ~row[o].exists
  /\ \A q \in Reqs : txn[q].id # o  \* the trigger gives the new row a fresh id
  /\ p # Root => row[p].exists /\ ~row[p].deleted
  /\ Start(r, "create", o, p, "write")

(***************************************************************************)
(* updateObject and the other handlers that keep the parent.               *)
(***************************************************************************)
BeginUpdate(r, o) ==
  /\ row[o].exists /\ ~row[o].deleted
  /\ Start(r, "update", o, row[o].parent, "read")

(***************************************************************************)
(* moveObjectRaw.  The test of the target parent's IsDeleted is of a       *)
(* record that was never filled and so does nothing.  changeOwner moves    *)
(* the object to the root.                                                 *)
(***************************************************************************)
BeginMove(r, o, p) ==
  /\ r \in Movers
  /\ row[o].exists /\ ~row[o].deleted
  /\ p # row[o].parent /\ p # o
  /\ p # Root => row[p].exists
  /\ Start(r, "move", o, p, IF p = Root THEN "read" ELSE "walk")

BeginDelete(r, o) ==
  /\ row[o].exists /\ ~row[o].deleted /\ o \in Deletable
  /\ Start(r, "delete", o, Root, "read")

BeginExpunge(r, o) ==
  /\ row[o].exists /\ ~row[o].expunged /\ o \in Deletable
  /\ Start(r, "expunge", o, Root, "read")

(***************************************************************************)
(* removeObjectFromTrash, which does not ask whether the object is deleted.*)
(***************************************************************************)
BeginUndelete(r, o) ==
  /\ row[o].exists /\ ~row[o].expunged /\ ~row[o].ancestor /\ o \in Deletable
  /\ Start(r, "undelete", o, Root, "write")

Begin(r) ==
  \E o \in Objects :
    \/ \E p \in Objects \cup {Root} : BeginCreate(r, o, p) \/ BeginMove(r, o, p)
    \/ BeginUpdate(r, o) \/ BeginDelete(r, o) \/ BeginExpunge(r, o) \/ BeginUndelete(r, o)

(* Mutant: only the target itself is looked at, not its ancestors. *)
WalkOnce(r) ==
  /\ txn[r].pc = "walk"
  /\ Become(r, IF row[txn[r].at].parent = txn[r].id THEN Idle
               ELSE [txn[r] EXCEPT !.pc = "read", !.at = txn[r].id])
  /\ UNCHANGED <<row, locks, started, faults>>

(***************************************************************************)
(* IsParentIDADescendent walks from the target parent to the root, each    *)
(* row read by a statement of its own, looking for the object.             *)
(***************************************************************************)
Walk(r) ==
  /\ txn[r].pc = "walk"
  /\ LET p == row[txn[r].at].parent IN
     Become(r, IF p = txn[r].id THEN Idle
               ELSE IF p = Root THEN [txn[r] EXCEPT !.pc = "read", !.at = txn[r].id]
               ELSE [txn[r] EXCEPT !.at = p])
  /\ UNCHANGED <<row, locks, started, faults>>

--------------------------------------------------------------------------------
(* UpdateObject, CreateObject *)

(***************************************************************************)
(* updateObjectInTransaction reads the row and checks token and state.     *)
(***************************************************************************)
ReadForUpdate(r) ==
  /\ txn[r].pc = "read"
  /\ txn[r].op \in {"update", "move"}
  /\ IF Visible(r, txn[r].id).count # txn[r].token \/ Visible(r, txn[r].id).deleted
     THEN Fail(r)
     ELSE Become(r, [txn[r] EXCEPT !.pc = "write"]) /\ UNCHANGED locks
  /\ UNCHANGED <<row, started, faults>>

(***************************************************************************)
(* The row is written; setting another parent needs its shared lock next.  *)
(***************************************************************************)
WriteUpdate(r, old, new) ==
  IF ~ParentValid(r, old, new) THEN Fail(r)
  ELSE /\ WriteRow(r, txn[r].id, Bump(old, new))
       /\ Become(r, [txn[r] EXCEPT !.wrote = TRUE,
                                   !.pc = IF new.parent \in {Root, old.parent}
                                          THEN "commit" ELSE "key"])
       /\ UNCHANGED slock

(* Mutant: the UPDATE selects the row by its id alone. *)
UpdateRowById(r) ==
  LET old == Visible(r, txn[r].id) IN
  /\ txn[r].pc = "write"
  /\ txn[r].op \in {"update", "move"}
  /\ CanWrite(r, txn[r].id)
  /\ WriteUpdate(r, old, [old EXCEPT !.parent = txn[r].target])
  /\ UNCHANGED <<row, started, faults>>

(***************************************************************************)
(* UPDATE ... WHERE id = ? AND changeToken = ?.  That no row is affected   *)
(* is logged and the transaction goes on.                                  *)
(***************************************************************************)
UpdateRow(r) ==
  LET old == Visible(r, txn[r].id) IN
  /\ txn[r].pc = "write"
  /\ txn[r].op \in {"update", "move"}
  /\ CanWrite(r, txn[r].id)
  /\ IF old.count # txn[r].token
     THEN Become(r, [txn[r] EXCEPT !.pc = "commit"]) /\ UNCHANGED locks
     ELSE WriteUpdate(r, old, [old EXCEPT !.parent = txn[r].target])
  /\ UNCHANGED <<row, started, faults>>

(***************************************************************************)
(* INSERT with changeCount 0.                                              *)
(***************************************************************************)
InsertRow(r) ==
  /\ txn[r].pc = "write"
  /\ txn[r].op = "create"
  /\ CanWrite(r, txn[r].id)
  /\ IF ~ParentValid(r, NoRow, NewRow(txn[r].target)) THEN Fail(r)
     ELSE /\ WriteRow(r, txn[r].id, NewRow(txn[r].target))
          /\ Become(r, [txn[r] EXCEPT !.wrote = TRUE,
                                      !.pc = IF txn[r].target = Root THEN "commit" ELSE "key"])
          /\ UNCHANGED slock
  /\ UNCHANGED <<row, started, faults>>

(***************************************************************************)
(* The foreign key of the parent: its row is locked, deleted or not.       *)
(***************************************************************************)
ReferToParent(r) ==
  /\ txn[r].pc = "key"
  /\ CanRefer(r, txn[r].target)
  /\ slock' = [slock EXCEPT ![txn[r].target] = @ \cup {r}]
  /\ Become(r, [txn[r] EXCEPT !.pc = "commit"])
  /\ UNCHANGED <<row, dirty, xlock, started, faults>>

--------------------------------------------------------------------------------
(* DeleteObject, ExpungeObject *)

(***************************************************************************)
(* The next object on the list, or the end of the transaction.             *)
(***************************************************************************)
NextOf(t, todo, pc) ==
  IF todo = {} THEN {[t EXCEPT !.pc = "commit", !.todo = {}]}
  ELSE {[t EXCEPT !.pc = pc, !.at = x[1], !.want = x[2], !.todo = todo \ {x}] : x \in todo}

Continue(r, todo, pc) ==
  \E t \in NextOf([txn[r] EXCEPT !.wrote = TRUE], todo, pc) : Become(r, t)

(***************************************************************************)
(* The object is read, its token checked; if it is already deleted (or     *)
(* expunged) there is nothing to do for it and what is below it.           *)
(***************************************************************************)
ReadForDelete(r) ==
  LET old == Visible(r, txn[r].at) IN
  /\ txn[r].pc = "read"
  /\ txn[r].op \in {"delete", "expunge"}
  /\ IF old.count # txn[r].want THEN Fail(r)
     ELSE /\ IF (IF txn[r].op = "delete" THEN old.deleted ELSE old.expunged)
             THEN Continue(r, txn[r].todo, "read")
             ELSE Become(r, [txn[r] EXCEPT !.pc = "write"])
          /\ UNCHANGED locks
  /\ UNCHANGED <<row, started, faults>>

(***************************************************************************)
(* The children that are not deleted and that the caller may delete, with  *)
(* their tokens.  They fit on one page of the listing.                     *)
(***************************************************************************)
Children(r, o) ==
  {<<c, Visible(r, c).count>> : c \in {d \in Deletable \ {o} :
     /\ Visible(r, d).exists /\ Visible(r, d).parent = o
     /\ ~Visible(r, d).deleted /\ ~Visible(r, d).ancestor}}

(***************************************************************************)
(* The object is marked, by its id alone, and its children are listed; the *)
(* error of the listing is not looked at and leaves an empty list.  The    *)
(* code works depth first, the model in any order.                         *)
(***************************************************************************)
MarkDeleted(r) ==
  LET o   == txn[r].at
      old == Visible(r, o)
      new == [old EXCEPT !.deleted = TRUE, !.ancestor = (o # txn[r].id),
                         !.expunged = @ \/ txn[r].op = "expunge"] IN
  /\ txn[r].pc = "write"
  /\ txn[r].op \in {"delete", "expunge"}
  /\ CanWrite(r, o)
  /\ IF ~ParentValid(r, old, new) THEN Fail(r) /\ UNCHANGED faults
     ELSE /\ WriteRow(r, o, Bump(old, new))
          /\ \/ Continue(r, txn[r].todo \cup Children(r, o), "read") /\ UNCHANGED faults
             \/ Continue(r, txn[r].todo, "read") /\ Fault
          /\ UNCHANGED slock
  /\ UNCHANGED <<row, started>>

--------------------------------------------------------------------------------
(* UndeleteObject *)

(***************************************************************************)
(* The children that went to the trash with an ancestor.                   *)
(***************************************************************************)
AncestorChildren(r, o) ==
  {<<c, 0>> : c \in {d \in Objects \ {o} :
     /\ Visible(r, d).exists /\ Visible(r, d).parent = o
     /\ Visible(r, d).ancestor /\ ~Visible(r, d).expunged}}

(* Mutant: what is restored below the object keeps the flag. *)
MarkUndeletedOnly(r) ==
  LET o   == txn[r].at
      old == Visible(r, o)
      new == [old EXCEPT !.deleted = FALSE] IN
  /\ txn[r].pc = "write"
  /\ txn[r].op = "undelete"
  /\ CanWrite(r, o)
  /\ IF ~ParentValid(r, old, new) THEN Fail(r)
     ELSE /\ WriteRow(r, o, Bump(old, new))
          /\ Continue(r, txn[r].todo \cup AncestorChildren(r, o), "write")
          /\ UNCHANGED slock
  /\ UNCHANGED <<row, started, faults>>

(***************************************************************************)
(* undeleteObjectInTransaction restores the object by its id alone, first, *)
(* then undeleteAncestorChildren everything below that went with an        *)
(* ancestor, unless it is expunged by then.                                *)
(***************************************************************************)
MarkUndeleted(r) ==
  LET o     == txn[r].at
      old   == Visible(r, o)
      first == ~txn[r].wrote
      skip  == ~first /\ old.expunged
      new   == [old EXCEPT !.deleted = FALSE, !.ancestor = @ /\ first] IN
  /\ txn[r].pc = "write"
  /\ txn[r].op = "undelete"
  /\ CanWrite(r, o)
  /\ IF ~skip /\ ~ParentValid(r, old, new) THEN Fail(r)
     ELSE /\ IF skip THEN UNCHANGED <<dirty, xlock>> ELSE WriteRow(r, o, Bump(old, new))
          /\ Continue(r, txn[r].todo \cup AncestorChildren(r, o), "write")
          /\ UNCHANGED slock
  /\ UNCHANGED <<row, started, faults>>

--------------------------------------------------------------------------------
(* The end of a transaction *)

Commit(r) ==
  /\ txn[r].pc = "commit"
  /\ row' = [o \in Objects |-> IF xlock[o] = r THEN dirty[o] ELSE row[o]]
  /\ Release(r)
  /\ Become(r, [txn[r] EXCEPT !.pc = "ok"])
  /\ UNCHANGED <<started, faults>>

(***************************************************************************)
(* The error of tx.Commit is not looked at.  Only CreateObject notices, as *)
(* it reads back in vain what it created.                                  *)
(***************************************************************************)
CommitFails(r) ==
  /\ txn[r].pc = "commit"
  /\ Fault
  /\ Release(r)
  /\ Become(r, IF txn[r].op = "create" THEN Idle
               ELSE [txn[r] EXCEPT !.pc = "ok", !.wrote = FALSE])
  /\ UNCHANGED <<row, started>>

(* Mutant: the retries are not limited. *)
LockFailsForever(r) ==
  /\ \/ txn[r].pc = "write" /\ ~CanWrite(r, txn[r].at)
     \/ txn[r].pc = "key" /\ ~CanRefer(r, txn[r].target)
  /\ Release(r)
  /\ Become(r, IF txn[r].op \in {"create", "update", "move"}
               THEN [txn[r] EXCEPT !.tries = @ - 1, !.wrote = FALSE,
                                   !.pc = IF txn[r].op = "create" THEN "write" ELSE "read"]
               ELSE Idle)
  /\ UNCHANGED <<row, started, faults>>

(***************************************************************************)
(* r waits for a lock and is told of a deadlock or a timeout.  UpdateObject*)
(* and CreateObject start over, the others give up.                        *)
(***************************************************************************)
LockFails(r) ==
  /\ \/ txn[r].pc = "write" /\ ~CanWrite(r, txn[r].at)
     \/ txn[r].pc = "key" /\ ~CanRefer(r, txn[r].target)
  /\ Release(r)
  /\ Become(r, IF txn[r].op \in {"create", "update", "move"} /\ txn[r].tries > 0
               THEN [txn[r] EXCEPT !.tries = @ - 1, !.wrote = FALSE,
                                   !.pc = IF txn[r].op = "create" THEN "write" ELSE "read"]
               ELSE Idle)
  /\ UNCHANGED <<row, started, faults>>

(***************************************************************************)
(* The request is answered with success.                                   *)
(***************************************************************************)
Answer(r) ==
  /\ txn[r].pc = "ok"
  /\ Become(r, Idle)
  /\ UNCHANGED <<row, locks, started, faults>>

Step(r) ==
  \/ Walk(r)
  \/ ReadForUpdate(r) \/ UpdateRow(r) \/ InsertRow(r) \/ ReferToParent(r)
  \/ ReadForDelete(r) \/ MarkDeleted(r) \/ MarkUndeleted(r)
  \/ Commit(r) \/ CommitFails(r) \/ LockFails(r) \/ Answer(r)

Next == \E r \in Reqs : Begin(r) \/ Step(r)

Spec == Init /\ [][Next]_vars

--------------------------------------------------------------------------------
(* Properties *)

(***************************************************************************)
(* The change token is the lock of an update: what UpdateObject commits    *)
(* replaces the very revision its caller named, which was not deleted,     *)
(* whatever committed between its read and its write (dao.UpdateObject).   *)
(***************************************************************************)
UpdatesAreCurrent ==
  [][\A r \in Reqs :
       txn[r].op \in {"update", "move"} /\ txn[r].pc = "commit" =>
         LET o == txn[r].id IN
           txn'[r].pc = "ok" /\ row'[o] # row[o] =>
             row[o].count = txn[r].token /\ ~row[o].deleted]_vars

(***************************************************************************)
(* The committed tree has no circular reference (moveObjectRaw), so that   *)
(* GetParents and IsParentIDADescendent come to an end.                    *)
(***************************************************************************)
Acyclic ==
  Forest({o \in Objects : row[o].exists}, [o \in Objects |-> row[o].parent])

(***************************************************************************)
(* IsAncestorDeleted marks what went to the trash with its parent and      *)
(* comes back with it: its parent is deleted.  Otherwise nothing can ever  *)
(* restore the object, as removeObjectFromTrash refuses it.                *)
(***************************************************************************)
RestoredWithParent ==
  \A o \in Objects :
    row[o].ancestor /\ ~row[o].expunged =>
      row[o].parent # Root /\ row[row[o].parent].deleted

(***************************************************************************)
(* The requests, with their reads, locks, waits, retries and failures,     *)
(* change the rows as if each changed them in one step: a revision is      *)
(* never skipped, rewritten or half done (READ-COMMITTED transactions of   *)
(* package dao, triggers ti_object and tu_object).                         *)
(***************************************************************************)
Promise == INSTANCE Revisions WITH Objects <- Objects, Root <- Root, row <- row
RevisionsAtomic == Promise!Spec
================================================================================
