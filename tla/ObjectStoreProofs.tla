--------------------------- MODULE ObjectStoreProofs ---------------------------
(***************************************************************************)
(* Proofs about ObjectStore for every number of objects and requests: type *)
(* correctness, and that an update only ever replaces the revision its     *)
(* caller named; that the transactions of package dao implement the atomic *)
(* changes of Revisions, one mover at a time keeps the tree free of cycles,*)
(* and without moves whatever went to the trash with its parent can come   *)
(* back with it.                                                           *)
(***************************************************************************)
EXTENDS ObjectStore, TLAPS

(* UpdateObject's own requests, and those of the operations on the trash. *)
Updates == {"update", "move"}
Trashes == {"delete", "expunge", "undelete"}
Unfinished == {"walk", "read", "write", "key", "commit"}

(* A foreign key is only locked for a parent that is an object. *)
KeyInv == \A r \in Reqs : txn[r].pc = "key" => txn[r].target # Root

(***************************************************************************)
(* An uncommitted row is a new revision of the committed one, or the row   *)
(* of an object that its transaction creates.  Only an unfinished          *)
(* transaction holds locks, and one of UpdateObject or CreateObject holds  *)
(* that of its own object, once it has written it.                         *)
(***************************************************************************)
LockOk(o) ==
  xlock[o] # NoReq =>
    LET t == txn[xlock[o]] IN
      /\ dirty[o].exists
      /\ row[o].exists => dirty[o].count > row[o].count
      /\ ~row[o].exists => t.op = "create" /\ t.id = o
      /\ t.pc \in Unfinished
      /\ t.op \in Updates \cup {"create"} =>
           t.id = o /\ t.wrote /\ t.pc \in {"key", "commit"}

(***************************************************************************)
(* Tokens never run ahead of the row; a row that still has the token an    *)
(* update read is still not deleted, and cannot change once it is written. *)
(***************************************************************************)
TokenOk(r) ==
  txn[r].op \in Updates /\ txn[r].pc \in Unfinished =>
    LET o == txn[r].id IN
      /\ row[o].exists
      /\ txn[r].token <= row[o].count
      /\ txn[r].pc \in {"walk", "read", "write"} => ~txn[r].wrote
      /\ txn[r].pc = "write" /\ row[o].count = txn[r].token => ~row[o].deleted
      /\ txn[r].pc \in {"key", "commit"} /\ txn[r].wrote =>
           xlock[o] = r /\ row[o].count = txn[r].token /\ ~row[o].deleted

(* An object is created by one request, and does not exist before. *)
CreateOk(r) ==
  txn[r].op = "create" /\ txn[r].pc \in Unfinished =>
    /\ ~row[txn[r].id].exists
    /\ \A q \in Reqs \ {r} : txn[q].id # txn[r].id

(* What goes to the trash or comes back exists. *)
TrashOk(r) ==
  txn[r].op \in Trashes /\ txn[r].pc \in Unfinished =>
    /\ txn[r].pc # "walk"
    /\ row[txn[r].at].exists
    /\ \A x \in txn[r].todo : row[x[1]].exists

StoreInv ==
  /\ \A o \in Objects : LockOk(o)
  /\ \A r \in Reqs : TokenOk(r) /\ CreateOk(r) /\ TrashOk(r)

--------------------------------------------------------------------------------
(* Types *)

Txns == [Reqs -> Active \cup {Idle}]
TypeInv == TypeOK /\ KeyInv

LEMMA ActiveType ==
  ASSUME txn \in Txns, NEW r \in Reqs, txn[r].pc # "idle"
  PROVE  txn[r] \in Active
  BY DEF Txns, Idle

LEMMA BecomeType ==
  ASSUME txn \in Txns, KeyInv, NEW r \in Reqs, NEW t \in Active \cup {Idle},
         t.pc = "key" => t.target # Root, Become(r, t)
  PROVE  txn' \in Txns /\ KeyInv'
  BY DEF Txns, Become, KeyInv

LEMMA RowType ==
  /\ NoRow \in Row
  /\ \A p \in Objects \cup {Root} : NewRow(p) \in Row
  /\ \A old, new \in Row : Bump(old, new) \in Row /\ Bump(old, new).count = old.count + 1
       /\ Bump(old, new).exists = new.exists
  <1>1. NoRow \in Row
      BY DEF NoRow, Row
  <1>2. \A p \in Objects \cup {Root} : NewRow(p) \in Row
      BY DEF NewRow, NoRow, Row
  <1>3. ASSUME NEW old \in Row, NEW new \in Row
        PROVE  /\ Bump(old, new) \in Row /\ Bump(old, new).count = old.count + 1
               /\ Bump(old, new).exists = new.exists
      BY DEF Bump, Row
  <1> QED BY <1>1, <1>2, <1>3

LEMMA VisibleType ==
  ASSUME TypeOK, NEW r \in Reqs, NEW o \in Objects
  PROVE  Visible(r, o) \in Row
  BY DEF TypeOK, Visible

LEMMA WriteType ==
  ASSUME TypeOK, NEW r \in Reqs, NEW o \in Objects, NEW new \in Row, WriteRow(r, o, new)
  PROVE  /\ dirty' \in [Objects -> Row]
         /\ xlock' \in [Objects -> Reqs \cup {NoReq}]
  BY DEF TypeOK, WriteRow

LEMMA ReleaseType ==
  ASSUME TypeOK, NEW r \in Reqs, Release(r)
  PROVE  /\ dirty' \in [Objects -> Row]
         /\ xlock' \in [Objects -> Reqs \cup {NoReq}]
         /\ slock' \in [Objects -> SUBSET Reqs]
  BY RowType DEF TypeOK, Release

LEMMA FailType ==
  ASSUME TypeInv, NEW r \in Reqs, Fail(r), UNCHANGED <<row, started, faults>>
  PROVE  TypeInv'
  <1>1. Become(r, Idle) /\ txn' \in Txns /\ KeyInv'
    <2>1. txn \in Txns /\ KeyInv
        BY DEF TypeInv, TypeOK, Txns
    <2>2. Become(r, Idle) /\ Idle.pc # "key"
        BY DEF Fail, Idle
    <2> QED BY <2>1, <2>2, BecomeType
  <1>2. /\ dirty' \in [Objects -> Row]
        /\ xlock' \in [Objects -> Reqs \cup {NoReq}]
        /\ slock' \in [Objects -> SUBSET Reqs]
      BY ReleaseType DEF Fail, TypeInv
  <1> QED BY <1>1, <1>2 DEF TypeInv, TypeOK, Txns

LEMMA ContinueType ==
  ASSUME TypeInv, NEW r \in Reqs, txn[r] \in Active, NEW todo \in SUBSET (Objects \X Nat),
         NEW pc \in {"read", "write"}, Continue(r, todo, pc)
  PROVE  txn' \in Txns /\ KeyInv'
  <1> DEFINE u == [txn[r] EXCEPT !.wrote = TRUE]
  <1>1. u \in Active
      BY DEF Active
  <1> HIDE DEF u
  <1>2. PICK t \in NextOf(u, todo, pc) : Become(r, t)
      BY DEF Continue, u
  <1>3. t \in Active /\ t.pc # "key"
    <2>1. CASE todo = {}
      <3>1. t = [u EXCEPT !.pc = "commit", !.todo = {}]
          BY <1>2, <2>1 DEF NextOf
      <3>2. {} \in SUBSET (Objects \X Nat) /\ "commit" \in Steps
          BY DEF Steps
      <3> QED BY <1>1, <3>1, <3>2 DEF Active
    <2>2. CASE todo # {}
      <3>1. PICK x \in todo :
              t = [u EXCEPT !.pc = pc, !.at = x[1], !.want = x[2], !.todo = todo \ {x}]
          BY <1>2, <2>2 DEF NextOf
      <3>2. x[1] \in Objects /\ x[2] \in Nat /\ todo \ {x} \in SUBSET (Objects \X Nat)
          OBVIOUS
      <3> QED BY <1>1, <3>1, <3>2 DEF Active, Steps
    <2> QED BY <2>1, <2>2
  <1> QED BY <1>2, <1>3, BecomeType DEF TypeInv, TypeOK, Txns

LEMMA ChildrenType ==
  ASSUME TypeOK, NEW r \in Reqs, NEW o \in Objects
  PROVE  /\ Children(r, o) \in SUBSET (Objects \X Nat)
         /\ AncestorChildren(r, o) \in SUBSET (Objects \X Nat)
  <1>1. \A d \in Objects : Visible(r, d).count \in Nat
      BY VisibleType DEF Row
  <1> QED BY <1>1, StoreAssumption DEF Children, AncestorChildren

LEMMA TypeInit == Init => TypeInv
  <1> SUFFICES ASSUME Init PROVE TypeInv
      OBVIOUS
  <1>1. row \in [Objects -> Row]
    <2>1. PICK parent \in [Existing -> Existing \cup {Root}] :
            row = [o \in Objects |-> IF o \in Existing THEN NewRow(parent[o]) ELSE NoRow]
        BY DEF Init
    <2>2. \A o \in Existing : NewRow(parent[o]) \in Row
        BY StoreAssumption, RowType
    <2> QED BY <2>1, <2>2, RowType
  <1>2. dirty \in [Objects -> Row]
      BY RowType DEF Init
  <1>3. KeyInv
      BY DEF Init, KeyInv, Idle
  <1>4. started \in 0 .. MaxOps /\ faults \in 0 .. MaxFaults
      BY StoreAssumption DEF Init
  <1> QED BY <1>1, <1>2, <1>3, <1>4 DEF Init, TypeInv, TypeOK

(* The record a request starts with. *)
LEMMA StartType ==
  ASSUME TypeInv, NEW r \in Reqs, NEW op \in AllOps, NEW o \in Objects,
         NEW p \in Objects \cup {Root}, NEW pc \in {"walk", "read", "write"},
         pc = "walk" => p # Root, Start(r, op, o, p, pc)
  PROVE  TypeInv'
  <1> DEFINE t == [pc |-> pc, op |-> op, id |-> o, target |-> p,
                   token |-> row[o].count, at |-> IF pc = "walk" THEN p ELSE o,
                   want |-> row[o].count, todo |-> {}, wrote |-> FALSE, tries |-> Tries]
  <1>1. row[o].count \in Nat /\ Tries \in 0 .. Tries
      BY StoreAssumption DEF TypeInv, TypeOK, Row
  <1>2. t \in Active /\ t.pc # "key"
      BY <1>1 DEF Active, Steps
  <1>3. Become(r, t)
      BY DEF Start
  <1> HIDE DEF t
  <1>4. txn' \in Txns /\ KeyInv'
      BY <1>2, <1>3, BecomeType DEF TypeInv, TypeOK, Txns
  <1>5. started' \in 0 .. MaxOps
      BY StoreAssumption DEF Start, TypeInv, TypeOK
  <1> QED BY <1>4, <1>5 DEF Start, TypeInv, TypeOK, Txns, locks

LEMMA TypeBegin ==
  ASSUME TypeInv, NEW r \in Reqs, Begin(r)
  PROVE  TypeInv'
  <1>1. PICK o \in Objects :
          \/ \E p \in Objects \cup {Root} : BeginCreate(r, o, p) \/ BeginMove(r, o, p)
          \/ BeginUpdate(r, o) \/ BeginDelete(r, o) \/ BeginExpunge(r, o)
          \/ BeginUndelete(r, o)
      BY DEF Begin
  <1>2. ASSUME NEW p \in Objects \cup {Root}, BeginCreate(r, o, p) PROVE TypeInv'
      BY <1>2, StartType DEF BeginCreate, AllOps
  <1>3. ASSUME NEW p \in Objects \cup {Root}, BeginMove(r, o, p) PROVE TypeInv'
      BY <1>3, StartType DEF BeginMove, AllOps
  <1>4. CASE BeginUpdate(r, o)
    <2>1. row[o].parent \in Objects \cup {Root}
        BY DEF TypeInv, TypeOK, Row
    <2> QED BY <1>4, <2>1, StartType DEF BeginUpdate, AllOps
  <1>5. CASE BeginDelete(r, o)
      BY <1>5, StartType DEF BeginDelete, AllOps
  <1>6. CASE BeginExpunge(r, o)
      BY <1>6, StartType DEF BeginExpunge, AllOps
  <1>7. CASE BeginUndelete(r, o)
      BY <1>7, StartType DEF BeginUndelete, AllOps
  <1> QED BY <1>1, <1>2, <1>3, <1>4, <1>5, <1>6, <1>7

LEMMA TypeStep ==
  ASSUME TypeInv, NEW r \in Reqs, Step(r)
  PROVE  TypeInv'
  <1> DEFINE q == txn[r]
  <1>a. TypeOK /\ txn \in Txns /\ KeyInv
      BY DEF TypeInv, TypeOK, Txns
  <1>b. q \in Active
      BY <1>a, ActiveType DEF Step, Walk, ReadForUpdate, UpdateRow, InsertRow,
         ReferToParent, ReadForDelete, MarkDeleted, MarkUndeleted, Commit, CommitFails,
         LockFails, Answer
  <1>c. /\ q.at \in Objects /\ q.id \in Objects /\ q.target \in Objects \cup {Root}
        /\ q.todo \in SUBSET (Objects \X Nat)
      BY <1>b DEF Active
  <1>d. Visible(r, q.at) \in Row /\ Visible(r, q.id) \in Row
      BY <1>a, <1>c, VisibleType
  <1>e. \A pc \in Steps \ {"key"} :
          [q EXCEPT !.pc = pc] \in Active /\ [q EXCEPT !.pc = pc].pc = pc
      BY <1>b DEF Active
  <1>1. CASE Walk(r)
    <2> DEFINE p == row[q.at].parent
    <2>1. p \in Objects \cup {Root}
        BY <1>a, <1>c DEF TypeOK, Row
    <2> DEFINE t == IF p = q.id THEN Idle
                    ELSE IF p = Root THEN [q EXCEPT !.pc = "read", !.at = q.id]
                    ELSE [q EXCEPT !.at = p]
    <2>2. /\ [q EXCEPT !.pc = "read", !.at = q.id] \in Active
          /\ [q EXCEPT !.pc = "read", !.at = q.id].pc = "read"
        BY <1>b, <1>c DEF Active, Steps
    <2>3. p # Root => [q EXCEPT !.at = p] \in Active /\ [q EXCEPT !.at = p].pc = q.pc
        BY <1>b, <2>1 DEF Active
    <2>4. q.pc = "walk" /\ Become(r, t)
        BY <1>1 DEF Walk
    <2>5. t \in Active \cup {Idle} /\ t.pc # "key"
        BY <2>2, <2>3, <2>4 DEF Idle
    <2> HIDE DEF t
    <2>6. txn' \in Txns /\ KeyInv'
        BY <1>a, <2>4, <2>5, BecomeType
    <2> QED BY <1>1, <1>a, <2>6 DEF Walk, TypeInv, TypeOK, Txns, locks
  <1>2. CASE ReadForUpdate(r)
    <2>1. CASE Fail(r)
        BY <1>2, <2>1, FailType DEF ReadForUpdate
    <2>2. CASE ~Fail(r)
      <3>1. Become(r, [q EXCEPT !.pc = "write"]) /\ UNCHANGED locks
          BY <1>2, <2>2 DEF ReadForUpdate
      <3>2. txn' \in Txns /\ KeyInv'
          BY <1>a, <1>e, <3>1, BecomeType DEF Steps
      <3> QED BY <1>2, <1>a, <3>1, <3>2 DEF ReadForUpdate, TypeInv, TypeOK, Txns, locks
    <2> QED BY <2>1, <2>2
  <1>3. CASE UpdateRow(r)
    <2> DEFINE old == Visible(r, q.id)
               new == [old EXCEPT !.parent = q.target]
    <2>1. CASE Fail(r)
        BY <1>3, <2>1, FailType DEF UpdateRow
    <2>2. CASE ~Fail(r) /\ old.count # q.token
      <3>1. Become(r, [q EXCEPT !.pc = "commit"]) /\ UNCHANGED locks
          BY <1>3, <2>2 DEF UpdateRow
      <3>2. txn' \in Txns /\ KeyInv'
          BY <1>a, <1>e, <3>1, BecomeType DEF Steps
      <3> QED BY <1>3, <1>a, <3>1, <3>2 DEF UpdateRow, TypeInv, TypeOK, Txns, locks
    <2>3. CASE ~Fail(r) /\ old.count = q.token
      <3>1. new \in Row /\ Bump(old, new) \in Row /\ new.parent = q.target
        <4>1. new \in Row /\ new.parent = q.target
            BY <1>c, <1>d DEF Row
        <4> QED BY <1>d, <4>1, RowType
      <3> DEFINE t == [q EXCEPT !.wrote = TRUE,
                                !.pc = IF new.parent \in {Root, old.parent}
                                       THEN "commit" ELSE "key"]
      <3>2. WriteRow(r, q.id, Bump(old, new)) /\ Become(r, t) /\ UNCHANGED slock
          BY <1>3, <2>3 DEF UpdateRow, WriteUpdate
      <3>3. t \in Active /\ (t.pc = "key" => t.target # Root)
          BY <1>b, <3>1 DEF Active, Steps
      <3>4. txn' \in Txns /\ KeyInv'
          BY <1>a, <3>2, <3>3, BecomeType
      <3>5. /\ dirty' \in [Objects -> Row]
            /\ xlock' \in [Objects -> Reqs \cup {NoReq}]
          BY <1>a, <1>c, <3>1, <3>2, WriteType
      <3> QED BY <1>3, <1>a, <3>2, <3>4, <3>5 DEF UpdateRow, TypeInv, TypeOK, Txns
    <2> QED BY <2>1, <2>2, <2>3
  <1>4. CASE InsertRow(r)
    <2>1. CASE Fail(r)
        BY <1>4, <2>1, FailType DEF InsertRow
    <2>2. CASE ~Fail(r)
      <3> DEFINE t == [q EXCEPT !.wrote = TRUE,
                                !.pc = IF q.target = Root THEN "commit" ELSE "key"]
      <3>1. WriteRow(r, q.id, NewRow(q.target)) /\ Become(r, t) /\ UNCHANGED slock
          BY <1>4, <2>2 DEF InsertRow
      <3>2. t \in Active /\ (t.pc = "key" => t.target # Root)
          BY <1>b DEF Active, Steps
      <3> HIDE DEF t
      <3>3. txn' \in Txns /\ KeyInv'
          BY <1>a, <3>1, <3>2, BecomeType
      <3>4. /\ dirty' \in [Objects -> Row]
            /\ xlock' \in [Objects -> Reqs \cup {NoReq}]
          BY <1>a, <1>c, <3>1, WriteType, RowType
      <3> QED BY <1>4, <1>a, <3>1, <3>3, <3>4 DEF InsertRow, TypeInv, TypeOK, Txns
    <2> QED BY <2>1, <2>2
  <1>5. CASE ReferToParent(r)
    <2>1. q.target \in Objects
        BY <1>5, <1>a, <1>c DEF ReferToParent, KeyInv
    <2>2. slock' \in [Objects -> SUBSET Reqs]
        BY <1>5, <1>a, <2>1 DEF ReferToParent, TypeOK
    <2>3. txn' \in Txns /\ KeyInv'
        BY <1>5, <1>a, <1>e, BecomeType DEF ReferToParent, Steps
    <2> QED BY <1>5, <1>a, <2>2, <2>3 DEF ReferToParent, TypeInv, TypeOK, Txns
  <1>6. CASE ReadForDelete(r)
    <2>1. CASE Fail(r)
        BY <1>6, <2>1, FailType DEF ReadForDelete
    <2>2. CASE ~Fail(r)
      <3>1. /\ UNCHANGED locks
            /\ Continue(r, q.todo, "read") \/ Become(r, [q EXCEPT !.pc = "write"])
          BY <1>6, <2>2 DEF ReadForDelete
      <3>2. txn' \in Txns /\ KeyInv'
        <4>1. CASE Continue(r, q.todo, "read")
            BY <1>b, <1>c, <4>1, ContinueType
        <4>2. CASE Become(r, [q EXCEPT !.pc = "write"])
            BY <1>a, <1>e, <4>2, BecomeType DEF Steps
        <4> QED BY <3>1, <4>1, <4>2
      <3> QED BY <1>6, <1>a, <3>1, <3>2 DEF ReadForDelete, TypeInv, TypeOK, Txns, locks
    <2> QED BY <2>1, <2>2
  <1>7. CASE MarkDeleted(r)
    <2> DEFINE o   == q.at
               old == Visible(r, o)
               new == [old EXCEPT !.deleted = TRUE, !.ancestor = (o # q.id),
                                  !.expunged = @ \/ q.op = "expunge"]
    <2>1. CASE Fail(r) /\ UNCHANGED faults
        BY <1>7, <2>1, FailType DEF MarkDeleted
    <2>2. CASE ~(Fail(r) /\ UNCHANGED faults)
      <3>1. Bump(old, new) \in Row
        <4>1. new \in Row
            BY <1>d DEF Row
        <4> QED BY <1>d, <4>1, RowType
      <3>2. /\ WriteRow(r, o, Bump(old, new))
            /\ UNCHANGED slock
            /\ \/ Continue(r, q.todo \cup Children(r, o), "read") /\ UNCHANGED faults
               \/ Continue(r, q.todo, "read") /\ Fault
          BY <1>7, <2>2 DEF MarkDeleted
      <3>3. Children(r, o) \in SUBSET (Objects \X Nat)
          BY <1>a, <1>c, ChildrenType
      <3>4. txn' \in Txns /\ KeyInv'
        <4>1. PICK todo \in SUBSET (Objects \X Nat) : Continue(r, todo, "read")
            BY <1>c, <3>2, <3>3
        <4> QED BY <1>b, <4>1, ContinueType
      <3>5. /\ dirty' \in [Objects -> Row]
            /\ xlock' \in [Objects -> Reqs \cup {NoReq}]
          BY <1>a, <1>c, <3>1, <3>2, WriteType
      <3>6. faults' \in 0 .. MaxFaults
          BY <1>a, <3>2, StoreAssumption DEF Fault, TypeOK
      <3> QED BY <1>7, <1>a, <3>2, <3>4, <3>5, <3>6 DEF MarkDeleted, TypeInv, TypeOK, Txns
    <2> QED BY <2>1, <2>2
  <1>8. CASE MarkUndeleted(r)
    <2> DEFINE o   == q.at
               old == Visible(r, o)
               new == [old EXCEPT !.deleted = FALSE, !.ancestor = @ /\ ~q.wrote]
    <2>1. CASE Fail(r)
        BY <1>8, <2>1, FailType DEF MarkUndeleted
    <2>2. CASE ~Fail(r)
      <3>1. Bump(old, new) \in Row
        <4>1. new \in Row
            BY <1>d DEF Row
        <4> QED BY <1>d, <4>1, RowType
      <3>2. /\ WriteRow(r, o, Bump(old, new)) \/ UNCHANGED <<dirty, xlock>>
            /\ UNCHANGED slock
            /\ Continue(r, q.todo \cup AncestorChildren(r, o), "write")
          BY <1>8, <2>2 DEF MarkUndeleted
      <3>3. AncestorChildren(r, o) \in SUBSET (Objects \X Nat)
          BY <1>a, <1>c, ChildrenType
      <3>4. txn' \in Txns /\ KeyInv'
        <4>1. PICK todo \in SUBSET (Objects \X Nat) : Continue(r, todo, "write")
            BY <1>c, <3>2, <3>3
        <4> QED BY <1>b, <4>1, ContinueType
      <3>5. /\ dirty' \in [Objects -> Row]
            /\ xlock' \in [Objects -> Reqs \cup {NoReq}]
        <4>1. CASE WriteRow(r, o, Bump(old, new))
            BY <1>a, <1>c, <3>1, <4>1, WriteType
        <4>2. CASE UNCHANGED <<dirty, xlock>>
            BY <1>a, <4>2 DEF TypeOK
        <4> QED BY <3>2, <4>1, <4>2
      <3> QED BY <1>8, <1>a, <3>2, <3>4, <3>5 DEF MarkUndeleted, TypeInv, TypeOK, Txns
    <2> QED BY <2>1, <2>2
  <1>9. CASE Commit(r)
    <2>1. txn' \in Txns /\ KeyInv'
        BY <1>9, <1>a, <1>e, BecomeType DEF Commit, Steps
    <2>2. row' \in [Objects -> Row]
        BY <1>9, <1>a DEF Commit, TypeOK
    <2>3. /\ dirty' \in [Objects -> Row]
          /\ xlock' \in [Objects -> Reqs \cup {NoReq}]
          /\ slock' \in [Objects -> SUBSET Reqs]
        BY <1>9, <1>a, ReleaseType DEF Commit
    <2> QED BY <1>9, <1>a, <2>1, <2>2, <2>3 DEF Commit, TypeInv, TypeOK, Txns
  <1>10. CASE CommitFails(r)
    <2>1. txn' \in Txns /\ KeyInv'
      <3>1. /\ [q EXCEPT !.pc = "ok", !.wrote = FALSE] \in Active
            /\ [q EXCEPT !.pc = "ok", !.wrote = FALSE].pc # "key"
          BY <1>b DEF Active, Steps
      <3>2. CASE q.op = "create"
          BY <1>10, <1>a, <3>2, BecomeType DEF CommitFails, Idle
      <3>3. CASE q.op # "create"
          BY <1>10, <1>a, <3>1, <3>3, BecomeType DEF CommitFails
      <3> QED BY <3>2, <3>3
    <2>2. /\ dirty' \in [Objects -> Row]
          /\ xlock' \in [Objects -> Reqs \cup {NoReq}]
          /\ slock' \in [Objects -> SUBSET Reqs]
        BY <1>10, <1>a, ReleaseType DEF CommitFails
    <2>3. faults' \in 0 .. MaxFaults
        BY <1>10, <1>a, StoreAssumption DEF CommitFails, Fault, TypeOK
    <2> QED BY <1>10, <1>a, <2>1, <2>2, <2>3 DEF CommitFails, TypeInv, TypeOK, Txns
  <1>11. CASE LockFails(r)
    <2> DEFINE t == IF q.op \in {"create", "update", "move"} /\ q.tries > 0
                    THEN [q EXCEPT !.tries = @ - 1, !.wrote = FALSE,
                                   !.pc = IF q.op = "create" THEN "write" ELSE "read"]
                    ELSE Idle
    <2>1. Become(r, t) /\ Release(r)
        BY <1>11 DEF LockFails
    <2>2. t \in Active \cup {Idle} /\ t.pc # "key"
      <3>1. q.tries \in 0 .. Tries
          BY <1>b DEF Active
      <3>2. q.tries > 0 => q.tries - 1 \in 0 .. Tries
          BY <3>1, StoreAssumption
      <3>3. CASE q.op \in {"create", "update", "move"} /\ q.tries > 0
        <4>1. t = [q EXCEPT !.tries = @ - 1, !.wrote = FALSE,
                            !.pc = IF q.op = "create" THEN "write" ELSE "read"]
            BY <3>3
        <4> HIDE DEF t
        <4> QED BY <1>b, <3>2, <3>3, <4>1 DEF Active, Steps
      <3>4. CASE ~(q.op \in {"create", "update", "move"} /\ q.tries > 0)
          BY <3>4 DEF Idle
      <3> QED BY <3>3, <3>4
    <2>3. txn' \in Txns /\ KeyInv'
        BY <1>a, <2>1, <2>2, BecomeType
    <2>4. /\ dirty' \in [Objects -> Row]
          /\ xlock' \in [Objects -> Reqs \cup {NoReq}]
          /\ slock' \in [Objects -> SUBSET Reqs]
        BY <1>a, <2>1, ReleaseType
    <2> QED BY <1>11, <1>a, <2>3, <2>4 DEF LockFails, TypeInv, TypeOK, Txns
  <1>12. CASE Answer(r)
    <2>1. txn' \in Txns /\ KeyInv'
        BY <1>12, <1>a, BecomeType DEF Answer, Idle
    <2> QED BY <1>12, <1>a, <2>1 DEF Answer, TypeInv, TypeOK, Txns, locks
  <1> QED BY <1>1, <1>2, <1>3, <1>4, <1>5, <1>6, <1>7, <1>8, <1>9, <1>10, <1>11, <1>12
          DEF Step

LEMMA TypeNext == TypeInv /\ [Next]_vars => TypeInv'
  <1> SUFFICES ASSUME TypeInv, [Next]_vars PROVE TypeInv'
      OBVIOUS
  <1>1. ASSUME NEW r \in Reqs, Begin(r) \/ Step(r) PROVE TypeInv'
      BY <1>1, TypeBegin, TypeStep
  <1>2. CASE UNCHANGED vars
      BY <1>2 DEF vars, locks, TypeInv, TypeOK, KeyInv
  <1> QED BY <1>1, <1>2 DEF Next

(***************************************************************************)
(* Every state of the object store is well typed: no request ever works on *)
(* what is not an object, or retries more often than DeadlockRetryCounter. *)
(***************************************************************************)
THEOREM StoreTypeCorrect == Spec => []TypeOK
  <1>1. Spec => []TypeInv
      BY TypeInit, TypeNext, PTL DEF Spec
  <1> QED BY <1>1, PTL DEF TypeInv

--------------------------------------------------------------------------------
(* An update replaces the revision its caller named *)

(***************************************************************************)
(* A step of r that commits nothing keeps StoreInv if it takes no lock of  *)
(* another request and StoreInv holds of r and of its locks afterwards.    *)
(***************************************************************************)
LEMMA Frame ==
  ASSUME TypeOK, StoreInv, NEW r \in Reqs, row' = row,
         \A q \in Reqs \ {r} : txn'[q] = txn[q],
         \A o \in Objects :
           \/ xlock'[o] = r /\ xlock[o] \in {NoReq, r}
           \/ xlock'[o] = NoReq /\ xlock[o] = r
           \/ xlock'[o] = xlock[o] /\ dirty'[o] = dirty[o] /\ xlock[o] # r,
         \A o \in Objects : xlock'[o] = r => LockOk(o)',
         \/ txn'[r].id = txn[r].id
         \/ \A q \in Reqs \ {r} :
              txn[q].op = "create" /\ txn[q].pc \in Unfinished => txn'[r].id # txn[q].id,
         TokenOk(r)', CreateOk(r)', TrashOk(r)'
  PROVE  StoreInv'
  <1>1. ASSUME NEW o \in Objects PROVE LockOk(o)'
    <2>1. CASE xlock'[o] = r
        BY <2>1
    <2>2. CASE xlock'[o] = NoReq
        BY <2>2 DEF LockOk
    <2>3. CASE xlock'[o] = xlock[o] /\ dirty'[o] = dirty[o] /\ xlock[o] \notin {r, NoReq}
      <3>1. xlock[o] \in Reqs \ {r}
          BY <2>3 DEF TypeOK
      <3>2. txn'[xlock[o]] = txn[xlock[o]] /\ LockOk(o)
          BY <3>1 DEF StoreInv
      <3> QED BY <2>3, <3>2 DEF LockOk
    <2> QED BY <2>1, <2>2, <2>3
  <1>2. ASSUME NEW q \in Reqs \ {r} PROVE TokenOk(q)' /\ CreateOk(q)' /\ TrashOk(q)'
    <2>1. txn'[q] = txn[q] /\ TokenOk(q) /\ CreateOk(q) /\ TrashOk(q)
        BY DEF StoreInv
    <2>2. TokenOk(q)'
      <3>1. txn[q].pc \in Unfinished => txn[q] \in Active
          BY DEF TypeOK, Idle, Unfinished
      <3>2. txn[q].pc \in Unfinished => txn[q].id \in Objects
          BY <3>1 DEF Active
      <3>3. \A o \in Objects : xlock[o] = q => xlock'[o] = q
          BY StoreAssumption
      <3> QED BY <2>1, <3>2, <3>3 DEF TokenOk
    <2>3. CreateOk(q)'
      <3> SUFFICES ASSUME txn[q].op = "create", txn[q].pc \in Unfinished
                   PROVE  /\ ~row[txn[q].id].exists
                          /\ \A p \in Reqs \ {q} : txn'[p].id # txn[q].id
          BY <2>1 DEF CreateOk
      <3>1. /\ ~row[txn[q].id].exists
            /\ \A p \in Reqs \ {q} : txn[p].id # txn[q].id
          BY <2>1 DEF CreateOk
      <3>2. ASSUME NEW p \in Reqs \ {q} PROVE txn'[p].id # txn[q].id
        <4>1. CASE p = r
            BY <3>1, <4>1
        <4>2. CASE p # r
            BY <3>1, <4>2
        <4> QED BY <4>1, <4>2
      <3> QED BY <3>1, <3>2
    <2>4. TrashOk(q)'
        BY <2>1 DEF TrashOk
    <2> QED BY <2>2, <2>3, <2>4
  <1> QED BY <1>1, <1>2 DEF StoreInv

(* A request that is answered is out of the picture. *)
LEMMA IdleInv ==
  ASSUME TypeOK, StoreInv, NEW r \in Reqs, Become(r, Idle), row' = row,
         \A o \in Objects :
           \/ xlock'[o] = NoReq /\ xlock[o] = r
           \/ xlock'[o] = xlock[o] /\ dirty'[o] = dirty[o] /\ xlock[o] # r
  PROVE  StoreInv'
  <1>1. /\ \A q \in Reqs \ {r} : txn'[q] = txn[q]
        /\ txn'[r] = Idle
      BY DEF Become, TypeOK
  <1>2. \A o \in Objects : xlock'[o] # r
      BY StoreAssumption
  <1>3. TokenOk(r)' /\ CreateOk(r)' /\ TrashOk(r)'
      BY <1>1 DEF TokenOk, CreateOk, TrashOk, Idle, Unfinished
  <1>4. \A q \in Reqs \ {r} :
          txn[q].op = "create" /\ txn[q].pc \in Unfinished => txn'[r].id # txn[q].id
    <2> SUFFICES ASSUME NEW q \in Reqs \ {r}, txn[q].pc \in Unfinished
                 PROVE  txn[q].id # Root
        BY <1>1 DEF Idle
    <2>1. txn[q] \in Active
        BY DEF TypeOK, Idle, Unfinished
    <2> QED BY <2>1, StoreAssumption DEF Active
  <1> QED BY <1>1, <1>2, <1>3, <1>4, Frame

LEMMA FailInv ==
  ASSUME TypeOK, StoreInv, NEW r \in Reqs, Fail(r), row' = row
  PROVE  StoreInv'
  <1>1. \A o \in Objects :
           \/ xlock'[o] = NoReq /\ xlock[o] = r
           \/ xlock'[o] = xlock[o] /\ dirty'[o] = dirty[o] /\ xlock[o] # r
      BY DEF Fail, Release
  <1>2. Become(r, Idle)
      BY DEF Fail
  <1> QED BY <1>1, <1>2, IdleInv

(* A request whose transaction is rolled back keeps its object at most. *)
LEMMA ReleaseInv ==
  ASSUME TypeOK, StoreInv, NEW r \in Reqs, NEW t, Release(r), Become(r, t), row' = row,
         t.id = txn[r].id, TokenOk(r)', CreateOk(r)', TrashOk(r)'
  PROVE  StoreInv'
  <1>1. /\ \A q \in Reqs \ {r} : txn'[q] = txn[q]
        /\ txn'[r] = t
      BY DEF Become, TypeOK
  <1>2. \A o \in Objects :
           \/ xlock'[o] = NoReq /\ xlock[o] = r
           \/ xlock'[o] = xlock[o] /\ dirty'[o] = dirty[o] /\ xlock[o] # r
      BY DEF Release
  <1>3. \A o \in Objects : xlock'[o] # r
      BY <1>2, StoreAssumption
  <1> QED BY <1>1, <1>2, <1>3, Frame

(***************************************************************************)
(* A step within a transaction writes one row, of a new revision, or none. *)
(***************************************************************************)
LEMMA WorkInv ==
  ASSUME TypeOK, StoreInv, NEW r \in Reqs, NEW t, Become(r, t), row' = row,
         txn[r].pc \in Unfinished, t.pc \in Unfinished,
         t.op = txn[r].op, t.id = txn[r].id,
         \A o \in Objects :
           \/ xlock'[o] = xlock[o] /\ dirty'[o] = dirty[o]
           \/ /\ xlock'[o] = r /\ xlock[o] \in {NoReq, r}
              /\ dirty'[o].exists
              /\ row[o].exists => dirty'[o].count > row[o].count
              /\ ~row[o].exists => t.op = "create" /\ t.id = o
              /\ t.op \in Updates \cup {"create"} =>
                   t.id = o /\ t.wrote /\ t.pc \in {"key", "commit"},
         t.op \in Updates \cup {"create"} /\ txn[r].pc \in {"key", "commit"} =>
           t.pc \in {"key", "commit"} /\ t.wrote = txn[r].wrote,
         t.op \in Updates \cup {"create"} =>
           txn[r].pc \in {"key", "commit"} \/ \A o \in Objects : xlock[o] # r,
         TokenOk(r)', TrashOk(r)'
  PROVE  StoreInv'
  <1>1. /\ \A q \in Reqs \ {r} : txn'[q] = txn[q]
        /\ txn'[r] = t
      BY DEF Become, TypeOK
  <1>2. \A o \in Objects :
           \/ xlock'[o] = r /\ xlock[o] \in {NoReq, r}
           \/ xlock'[o] = NoReq /\ xlock[o] = r
           \/ xlock'[o] = xlock[o] /\ dirty'[o] = dirty[o] /\ xlock[o] # r
      OBVIOUS
  <1>3. ASSUME NEW o \in Objects, xlock'[o] = r PROVE LockOk(o)'
    <2>1. CASE xlock'[o] = xlock[o] /\ dirty'[o] = dirty[o]
      <3>1. LockOk(o) /\ xlock[o] = r
          BY <1>3, <2>1 DEF StoreInv
      <3> QED BY <1>1, <1>3, <2>1, <3>1 DEF LockOk
    <2>2. CASE ~(xlock'[o] = xlock[o] /\ dirty'[o] = dirty[o])
        BY <1>1, <1>3, <2>2 DEF LockOk
    <2> QED BY <2>1, <2>2
  <1>4. CreateOk(r)'
    <2>1. CreateOk(r)
        BY DEF StoreInv
    <2> QED BY <1>1, <2>1 DEF CreateOk
  <1> QED BY <1>1, <1>2, <1>3, <1>4, Frame

(* Before it has written, UpdateObject or CreateObject holds no lock. *)
LEMMA NoLockYet ==
  ASSUME TypeOK, StoreInv, NEW r \in Reqs,
         txn[r].op \in Updates \cup {"create"} => txn[r].pc \notin {"key", "commit"},
         txn[r].op \in Updates \cup {"create"} \/ txn[r].pc \notin Unfinished
  PROVE  \A o \in Objects : xlock[o] # r
  <1> SUFFICES ASSUME NEW o \in Objects, xlock[o] = r PROVE FALSE
      OBVIOUS
  <1>1. LockOk(o) /\ xlock[o] # NoReq
      BY StoreAssumption DEF StoreInv
  <1> QED BY <1>1 DEF LockOk

LEMMA StoreInit == Init => StoreInv
  BY DEF Init, StoreInv, LockOk, TokenOk, CreateOk, TrashOk, Idle, Unfinished

(* The state of a request that just started. *)
LEMMA StartInv ==
  ASSUME TypeOK, StoreInv, NEW r \in Reqs, NEW op \in AllOps, NEW o \in Objects,
         NEW p \in Objects \cup {Root}, NEW pc \in {"walk", "read", "write"},
         Start(r, op, o, p, pc),
         op = "create" => ~row[o].exists /\ \A q \in Reqs : txn[q].id # o,
         op # "create" => row[o].exists,
         op \in Updates => pc # "write",
         op \in Trashes => pc # "walk"
  PROVE  StoreInv'
  <1>1. /\ txn'[r].op = op /\ txn'[r].id = o /\ txn'[r].pc = pc
        /\ txn'[r].token = row[o].count /\ txn'[r].todo = {} /\ txn'[r].wrote = FALSE
        /\ pc # "walk" => txn'[r].at = o
        /\ \A q \in Reqs \ {r} : txn'[q] = txn[q]
      BY DEF Start, Become, TypeOK
  <1>2. row' = row /\ xlock' = xlock /\ dirty' = dirty /\ txn[r].pc = "idle"
      BY DEF Start, locks
  <1>3. \A d \in Objects : xlock[d] # r
      BY <1>2, NoLockYet DEF Unfinished
  <1>4. row[o].count \in Nat
      BY DEF TypeOK, Row
  <1>5. TokenOk(r)'
      BY <1>1, <1>2, <1>4 DEF TokenOk, Updates, Unfinished
  <1>6. CreateOk(r)' /\ TrashOk(r)'
      BY <1>1, <1>2 DEF CreateOk, TrashOk, Trashes
  <1>7. \A q \in Reqs \ {r} :
          txn[q].op = "create" /\ txn[q].pc \in Unfinished => txn'[r].id # txn[q].id
    <2> SUFFICES ASSUME NEW q \in Reqs \ {r}, txn[q].op = "create", txn[q].pc \in Unfinished
                 PROVE  o # txn[q].id
        BY <1>1
    <2>1. ~row[txn[q].id].exists
        BY DEF StoreInv, CreateOk
    <2> QED BY <2>1
  <1> QED BY <1>1, <1>2, <1>3, <1>5, <1>6, <1>7, Frame

LEMMA BeginInv ==
  ASSUME TypeOK, StoreInv, NEW r \in Reqs, Begin(r)
  PROVE  StoreInv'
  <1> USE DEF AllOps, Updates, Trashes
  <1>1. PICK o \in Objects :
          \/ \E p \in Objects \cup {Root} : BeginCreate(r, o, p) \/ BeginMove(r, o, p)
          \/ BeginUpdate(r, o) \/ BeginDelete(r, o) \/ BeginExpunge(r, o)
          \/ BeginUndelete(r, o)
      BY DEF Begin
  <1>2. ASSUME NEW p \in Objects \cup {Root}, BeginCreate(r, o, p) PROVE StoreInv'
      BY <1>2, StartInv DEF BeginCreate
  <1>3. ASSUME NEW p \in Objects \cup {Root}, BeginMove(r, o, p) PROVE StoreInv'
    <2>1. CASE p = Root
        BY <1>3, <2>1, StartInv DEF BeginMove
    <2>2. CASE p # Root
        BY <1>3, <2>2, StartInv DEF BeginMove
    <2> QED BY <2>1, <2>2
  <1>4. CASE BeginUpdate(r, o)
    <2>1. row[o].parent \in Objects \cup {Root}
        BY DEF TypeOK, Row
    <2> QED BY <1>4, <2>1, StartInv DEF BeginUpdate
  <1>5. CASE BeginDelete(r, o)
      BY <1>5, StartInv DEF BeginDelete
  <1>6. CASE BeginExpunge(r, o)
      BY <1>6, StartInv DEF BeginExpunge
  <1>7. CASE BeginUndelete(r, o)
      BY <1>7, StartInv DEF BeginUndelete
  <1> QED BY <1>1, <1>2, <1>3, <1>4, <1>5, <1>6, <1>7

(* The rows that a request sees and writes in the trash are rows that exist. *)
LEMMA SeenExists ==
  ASSUME TypeOK, StoreInv, NEW r \in Reqs, txn[r].op \in Trashes,
         NEW o \in Objects
  PROVE  /\ row[o].exists => /\ Visible(r, o).exists
                             /\ Visible(r, o).count >= row[o].count
         /\ Visible(r, o).exists => row[o].exists
  <1>1. row[o].count \in Nat /\ dirty[o].count \in Nat
      BY DEF TypeOK, Row
  <1>2. CASE xlock[o] = r
    <2>1. LockOk(o) /\ xlock[o] # NoReq
        BY <1>2, StoreAssumption DEF StoreInv
    <2> QED BY <1>1, <1>2, <2>1 DEF LockOk, Visible, Trashes
  <1>3. CASE xlock[o] # r
      BY <1>1, <1>3 DEF Visible
  <1> QED BY <1>2, <1>3

(***************************************************************************)
(* A step of an operation on the trash goes on to objects that exist.      *)
(***************************************************************************)
LEMMA TrashWorkInv ==
  ASSUME TypeOK, StoreInv, NEW r \in Reqs, txn[r] \in Active, row' = row,
         txn[r].pc \in Unfinished, txn[r].op \in Trashes,
         NEW todo \in SUBSET (Objects \X Nat), NEW pc \in {"read", "write"},
         Continue(r, todo, pc), \A x \in todo : row[x[1]].exists,
         \/ UNCHANGED <<dirty, xlock>>
         \/ \E new \in Row : /\ CanWrite(r, txn[r].at)
                             /\ WriteRow(r, txn[r].at, Bump(Visible(r, txn[r].at), new))
                             /\ new.exists = Visible(r, txn[r].at).exists
  PROVE  StoreInv'
  <1> DEFINE u == [txn[r] EXCEPT !.wrote = TRUE]
  <1>1. /\ u \in Active /\ u.pc = txn[r].pc /\ u.op = txn[r].op /\ u.id = txn[r].id
        /\ u.at = txn[r].at
      BY DEF Active
  <1> HIDE DEF u
  <1>2. PICK t \in NextOf(u, todo, pc) : Become(r, t)
      BY DEF Continue, u
  <1>3. TrashOk(r) /\ txn[r].at \in Objects /\ row[txn[r].at].exists
      BY DEF StoreInv, Active, TrashOk
  <1>4. /\ t.op = txn[r].op /\ t.id = txn[r].id /\ t.pc \in Unfinished \ {"walk"}
        /\ row[t.at].exists /\ \A x \in t.todo : row[x[1]].exists
    <2>1. CASE todo = {}
      <3>1. t = [u EXCEPT !.pc = "commit", !.todo = {}]
          BY <1>2, <2>1 DEF NextOf
      <3> QED BY <1>1, <1>3, <3>1 DEF Active, Unfinished
    <2>2. CASE todo # {}
      <3>1. PICK x \in todo :
              t = [u EXCEPT !.pc = pc, !.at = x[1], !.want = x[2], !.todo = todo \ {x}]
          BY <1>2, <2>2 DEF NextOf
      <3> QED BY <1>1, <3>1 DEF Active, Unfinished
    <2> QED BY <2>1, <2>2
  <1>5. txn'[r] = t
      BY <1>2 DEF Become, TypeOK
  <1>6. TokenOk(r)' /\ TrashOk(r)'
      BY <1>4, <1>5 DEF TokenOk, TrashOk, Trashes, Updates
  <1>7. t.op \notin Updates \cup {"create"}
      BY <1>4 DEF Trashes, Updates
  <1>8. \A o \in Objects :
           \/ xlock'[o] = xlock[o] /\ dirty'[o] = dirty[o]
           \/ /\ xlock'[o] = r /\ xlock[o] \in {NoReq, r}
              /\ dirty'[o].exists
              /\ row[o].exists /\ dirty'[o].count > row[o].count
    <2>1. CASE UNCHANGED <<dirty, xlock>>
        BY <2>1
    <2>2. CASE ~UNCHANGED <<dirty, xlock>>
      <3>0. PICK new \in Row :
              /\ CanWrite(r, txn[r].at)
              /\ WriteRow(r, txn[r].at, Bump(Visible(r, txn[r].at), new))
              /\ new.exists = Visible(r, txn[r].at).exists
          BY <2>2
      <3> DEFINE old == Visible(r, txn[r].at)
                 b == Bump(old, new)
      <3>1. old.exists /\ old.count >= row[txn[r].at].count /\ old \in Row
          BY <1>3, SeenExists, VisibleType
      <3>2. b \in Row /\ b.count = old.count + 1 /\ b.exists
          BY <3>0, <3>1, RowType
      <3>3. row[txn[r].at].count \in Nat /\ old.count \in Nat
          BY <1>3, <3>1 DEF TypeOK, Row
      <3>4. b.count > row[txn[r].at].count
          BY <3>1, <3>2, <3>3
      <3>5. WriteRow(r, txn[r].at, b) /\ CanWrite(r, txn[r].at)
          BY <3>0
      <3> HIDE DEF b, old
      <3>6. \A o \in Objects :
              /\ o # txn[r].at => xlock'[o] = xlock[o] /\ dirty'[o] = dirty[o]
              /\ o = txn[r].at => /\ xlock'[o] = r /\ dirty'[o] = b
                                  /\ xlock[o] \in {NoReq, r}
          BY <3>5 DEF WriteRow, CanWrite, TypeOK
      <3> QED BY <1>3, <3>2, <3>4, <3>6
    <2> QED BY <2>1, <2>2
  <1> QED BY <1>2, <1>4, <1>6, <1>7, <1>8, WorkInv

LEMMA ListedExist ==
  ASSUME TypeOK, StoreInv, NEW r \in Reqs, txn[r].op \in Trashes, NEW o \in Objects
  PROVE  \A x \in Children(r, o) \cup AncestorChildren(r, o) : row[x[1]].exists
  <1>1. ASSUME NEW d \in Objects, Visible(r, d).exists PROVE row[d].exists
      BY <1>1, SeenExists
  <1>2. ASSUME NEW x \in Children(r, o) PROVE row[x[1]].exists
    <2>1. PICK c \in Objects : Visible(r, c).exists /\ x = <<c, Visible(r, c).count>>
        BY StoreAssumption DEF Children
    <2> QED BY <1>1, <2>1
  <1>3. ASSUME NEW x \in AncestorChildren(r, o) PROVE row[x[1]].exists
    <2>1. PICK c \in Objects : Visible(r, c).exists /\ x = <<c, 0>>
        BY DEF AncestorChildren
    <2> QED BY <1>1, <2>1
  <1> QED BY <1>2, <1>3

LEMMA CommitInv ==
  ASSUME TypeOK, StoreInv, NEW r \in Reqs, Commit(r)
  PROVE  StoreInv'
  <1>1. /\ \A q \in Reqs \ {r} : txn'[q] = txn[q]
        /\ txn'[r].pc = "ok"
    <2>1. txn[r] \in Active
        BY DEF TypeOK, Commit, Idle
    <2> QED BY <2>1 DEF Commit, Become, TypeOK, Active
  <1>2. \A o \in Objects :
          /\ xlock[o] = r => xlock'[o] = NoReq /\ row'[o] = dirty[o]
          /\ xlock[o] # r => /\ xlock'[o] = xlock[o] /\ dirty'[o] = dirty[o]
                             /\ row'[o] = row[o]
      BY DEF Commit, Release
  <1>3. \A o \in Objects : row[o].count \in Nat /\ dirty[o].count \in Nat
      BY DEF TypeOK, Row
  <1>4. ASSUME NEW o \in Objects PROVE LockOk(o)'
    <2>1. CASE xlock'[o] = NoReq
        BY <2>1 DEF LockOk
    <2>2. CASE xlock'[o] # NoReq
      <3>1. xlock[o] \in Reqs \ {r} /\ xlock'[o] = xlock[o] /\ LockOk(o)
          BY <1>2, <2>2 DEF TypeOK, StoreInv
      <3> QED BY <1>1, <1>2, <3>1 DEF LockOk
    <2> QED BY <2>1, <2>2
  <1>5. \A o \in Objects : row[o].exists => /\ row'[o].exists
                                            /\ row'[o].count >= row[o].count
                                            /\ xlock[o] = r => row'[o].count > row[o].count
    <2> SUFFICES ASSUME NEW o \in Objects, row[o].exists
                 PROVE  /\ row'[o].exists
                        /\ row'[o].count >= row[o].count
                        /\ xlock[o] = r => row'[o].count > row[o].count
        OBVIOUS
    <2>1. CASE xlock[o] = r
      <3>1. LockOk(o) /\ xlock[o] # NoReq
          BY <2>1, StoreAssumption DEF StoreInv
      <3> QED BY <1>2, <1>3, <2>1, <3>1 DEF LockOk
    <2>2. CASE xlock[o] # r
        BY <1>2, <1>3, <2>2
    <2> QED BY <2>1, <2>2
  <1>6. ASSUME NEW q \in Reqs \ {r} PROVE TokenOk(q)' /\ CreateOk(q)' /\ TrashOk(q)'
    <2>1. txn'[q] = txn[q] /\ TokenOk(q) /\ CreateOk(q) /\ TrashOk(q)
        BY <1>1 DEF StoreInv
    <2>2. CASE txn[q].pc \notin Unfinished
        BY <2>1, <2>2 DEF TokenOk, CreateOk, TrashOk
    <2>3. CASE txn[q].pc \in Unfinished
      <3>1. txn[q] \in Active
          BY <2>3 DEF TypeOK, Idle, Unfinished
      <3>2. /\ txn[q].id \in Objects /\ txn[q].at \in Objects /\ txn[q].token \in Nat
            /\ txn[q].todo \in SUBSET (Objects \X Nat)
          BY <3>1 DEF Active
      <3>3. TokenOk(q)'
        <4> SUFFICES ASSUME txn[q].op \in Updates PROVE TokenOk(q)'
            BY <2>1 DEF TokenOk
        <4> DEFINE o == txn[q].id
        <4>1. /\ row[o].exists /\ txn[q].token <= row[o].count
              /\ txn[q].pc \in {"walk", "read", "write"} => ~txn[q].wrote
              /\ txn[q].pc = "write" /\ row[o].count = txn[q].token => ~row[o].deleted
              /\ txn[q].pc \in {"key", "commit"} /\ txn[q].wrote =>
                   xlock[o] = q /\ row[o].count = txn[q].token /\ ~row[o].deleted
            BY <2>1, <2>3 DEF TokenOk
        <4>2. row'[o].exists /\ txn[q].token <= row'[o].count
            BY <1>3, <1>5, <1>2, <3>2, <4>1
        <4>3. CASE xlock[o] = r
          <5>1. row'[o].count # txn[q].token
              BY <1>2, <1>3, <1>5, <3>2, <4>1, <4>3
          <5> QED BY <2>1, <4>1, <4>2, <4>3, <5>1 DEF TokenOk
        <4>4. CASE xlock[o] # r
          <5>1. row'[o] = row[o] /\ xlock'[o] = xlock[o]
              BY <1>2, <3>2, <4>4
          <5> QED BY <2>1, <4>1, <5>1 DEF TokenOk
        <4> QED BY <4>3, <4>4
      <3>4. CreateOk(q)'
        <4> SUFFICES ASSUME txn[q].op = "create" PROVE CreateOk(q)'
            BY <2>1 DEF CreateOk
        <4>1. /\ ~row[txn[q].id].exists
              /\ \A p \in Reqs \ {q} : txn[p].id # txn[q].id
            BY <2>1, <2>3 DEF CreateOk
        <4>2. xlock[txn[q].id] # r
          <5> SUFFICES ASSUME xlock[txn[q].id] = r PROVE FALSE
              OBVIOUS
          <5>1. LockOk(txn[q].id) /\ r # NoReq
              BY <3>2, StoreAssumption DEF StoreInv
          <5> QED BY <4>1, <5>1 DEF LockOk
        <4>3. ~row'[txn[q].id].exists
            BY <1>2, <3>2, <4>1, <4>2
        <4>4. \A p \in Reqs \ {q} : txn'[p].id # txn'[q].id
          <5>1. txn'[r].id = txn[r].id
            <6>1. txn[r] \in Active
                BY DEF TypeOK, Commit, Idle
            <6> QED BY <6>1 DEF Commit, Become, TypeOK, Active
          <5> QED BY <1>1, <2>1, <4>1, <5>1
        <4> QED BY <2>1, <4>3, <4>4 DEF CreateOk
      <3>5. TrashOk(q)'
        <4> SUFFICES ASSUME txn[q].op \in Trashes PROVE TrashOk(q)'
            BY <2>1 DEF TrashOk
        <4>1. /\ txn[q].pc # "walk" /\ row[txn[q].at].exists
              /\ \A x \in txn[q].todo : row[x[1]].exists
            BY <2>1, <2>3 DEF TrashOk
        <4>2. \A x \in txn[q].todo : x[1] \in Objects
            BY <3>2
        <4>3. row'[txn[q].at].exists
            BY <1>5, <3>2, <4>1
        <4>4. \A x \in txn[q].todo : row'[x[1]].exists
            BY <1>5, <4>1, <4>2
        <4> QED BY <2>1, <4>1, <4>3, <4>4 DEF TrashOk
      <3> QED BY <3>3, <3>4, <3>5
    <2> QED BY <2>2, <2>3
  <1>7. TokenOk(r)' /\ CreateOk(r)' /\ TrashOk(r)'
      BY <1>1 DEF TokenOk, CreateOk, TrashOk, Unfinished
  <1> QED BY <1>4, <1>6, <1>7 DEF StoreInv

LEMMA StepInv ==
  ASSUME TypeInv, StoreInv, NEW r \in Reqs, Step(r)
  PROVE  StoreInv'
  <1> DEFINE q == txn[r]
  <1>a. TypeOK /\ KeyInv
      BY DEF TypeInv
  <1>b. q \in Active
      BY <1>a DEF TypeOK, Idle, Step, Walk, ReadForUpdate, UpdateRow, InsertRow,
         ReferToParent, ReadForDelete, MarkDeleted, MarkUndeleted, Commit, CommitFails,
         LockFails, Answer
  <1>c. /\ q.at \in Objects /\ q.id \in Objects /\ q.target \in Objects \cup {Root}
        /\ q.todo \in SUBSET (Objects \X Nat)
      BY <1>b DEF Active
  <1>d. Visible(r, q.at) \in Row /\ Visible(r, q.id) \in Row
      BY <1>a, <1>c, VisibleType
  <1>e. TokenOk(r) /\ CreateOk(r) /\ TrashOk(r)
      BY DEF StoreInv
  <1>f. \A t : Become(r, t) => txn'[r] = t
      BY <1>a DEF Become, TypeOK
  <1>g. q.op \in Updates \cup {"create"} /\ q.pc \in {"walk", "read", "write"} =>
          \A o \in Objects : xlock[o] # r
      BY <1>a, NoLockYet
  <1>h. q.op \in Updates \/ q.op = "create" \/ q.op \in Trashes
      BY <1>b DEF Active, AllOps, Updates, Trashes
  (* What a step may do that neither writes nor releases: go on. *)
  <1>m. ASSUME NEW t, Become(r, t), UNCHANGED <<row, dirty, xlock>>,
               q.pc \in Unfinished, t.pc \in Unfinished, t.op = q.op, t.id = q.id,
               t.wrote = q.wrote,
               q.pc \in {"key", "commit"} => t.pc \in {"key", "commit"},
               TokenOk(r)', TrashOk(r)'
        PROVE  StoreInv'
    <2>1. t.op \in Updates \cup {"create"} =>
            q.pc \in {"key", "commit"} \/ \A o \in Objects : xlock[o] # r
        BY <1>g, <1>m DEF Unfinished
    <2>2. \A o \in Objects : xlock'[o] = xlock[o] /\ dirty'[o] = dirty[o]
        BY <1>m
    <2>3. row' = row
        BY <1>m
    <2> QED BY <1>a, <1>m, <2>1, <2>2, <2>3, WorkInv
  (* An answered request. *)
  <1>n. ASSUME NEW t, t.pc \notin Unfinished, Release(r), Become(r, t), row' = row,
               t.id = q.id
        PROVE  StoreInv'
    <2>1. TokenOk(r)' /\ CreateOk(r)' /\ TrashOk(r)'
        BY <1>f, <1>n DEF TokenOk, CreateOk, TrashOk
    <2> QED BY <1>a, <1>n, <2>1, ReleaseInv
  <1>1. CASE Walk(r)
    <2> DEFINE p == row[q.at].parent
    <2>0. q.pc = "walk" /\ UNCHANGED <<row, dirty, xlock>>
        BY <1>1 DEF Walk, locks
    <2>a. q.op \notin Trashes
        BY <1>e, <2>0 DEF TrashOk, Unfinished
    <2>1. CASE p = q.id
      <3>1. Become(r, Idle)
          BY <1>1, <2>1 DEF Walk
      <3>2. \A o \in Objects :
              xlock'[o] = xlock[o] /\ dirty'[o] = dirty[o] /\ xlock[o] # r
          BY <1>g, <1>h, <2>0, <2>a
      <3>3. row' = row
          BY <2>0
      <3> QED BY <1>a, <3>1, <3>2, <3>3, IdleInv
    <2>2. CASE p # q.id
      <3>1. PICK t : /\ Become(r, t)
                     /\ \/ t = [q EXCEPT !.pc = "read", !.at = q.id]
                        \/ t = [q EXCEPT !.at = p]
          BY <1>1, <2>2 DEF Walk
      <3>2. /\ t.op = q.op /\ t.id = q.id /\ t.token = q.token /\ t.wrote = q.wrote
            /\ t.pc \in {"walk", "read"}
          BY <1>b, <2>0, <3>1 DEF Active
      <3>3. TokenOk(r)' /\ TrashOk(r)'
          BY <1>e, <1>f, <2>0, <2>a, <3>1, <3>2 DEF TokenOk, TrashOk, Unfinished
      <3> QED BY <1>m, <2>0, <3>1, <3>2, <3>3 DEF Unfinished
    <2> QED BY <2>1, <2>2
  <1>2. CASE ReadForUpdate(r)
    <2>0. q.pc = "read" /\ q.op \in Updates /\ row' = row
        BY <1>2 DEF ReadForUpdate, Updates
    <2>1. CASE Fail(r)
        BY <1>a, <2>0, <2>1, FailInv
    <2>2. CASE ~Fail(r)
      <3> DEFINE t == [q EXCEPT !.pc = "write"]
      <3>1. /\ Become(r, t) /\ UNCHANGED <<dirty, xlock>>
            /\ ~Visible(r, q.id).deleted
          BY <1>2, <2>2 DEF ReadForUpdate, locks
      <3>2. /\ t.op = q.op /\ t.id = q.id /\ t.token = q.token /\ t.wrote = q.wrote
            /\ t.pc = "write"
          BY <1>b DEF Active
      <3> HIDE DEF t
      <3>3. ~row[q.id].deleted
          BY <1>c, <1>g, <2>0, <3>1 DEF Visible
      <3>4. TokenOk(r)' /\ TrashOk(r)'
          BY <1>e, <1>f, <2>0, <3>1, <3>2, <3>3
             DEF TokenOk, TrashOk, Unfinished, Updates, Trashes
      <3> QED BY <1>m, <2>0, <3>1, <3>2, <3>4 DEF Unfinished
    <2> QED BY <2>1, <2>2
  <1>3. CASE UpdateRow(r)
    <2> DEFINE old == Visible(r, q.id)
               new == [old EXCEPT !.parent = q.target]
    <2>0. q.pc = "write" /\ q.op \in Updates /\ row' = row /\ CanWrite(r, q.id)
        BY <1>3 DEF UpdateRow, Updates
    <2>a. /\ old = row[q.id] /\ row[q.id].exists /\ q.token <= row[q.id].count
          /\ ~q.wrote
          /\ row[q.id].count = q.token => ~row[q.id].deleted
        BY <1>c, <1>e, <1>g, <2>0 DEF Visible, TokenOk, Unfinished
    <2>1. CASE Fail(r)
        BY <1>a, <2>0, <2>1, FailInv
    <2>2. CASE ~Fail(r) /\ old.count # q.token
      <3> DEFINE t == [q EXCEPT !.pc = "commit"]
      <3>1. Become(r, t) /\ UNCHANGED <<dirty, xlock>>
          BY <1>3, <2>2 DEF UpdateRow, locks
      <3>2. /\ t.op = q.op /\ t.id = q.id /\ t.pc = "commit" /\ t.wrote = q.wrote
            /\ t.token = q.token
          BY <1>b DEF Active
      <3> HIDE DEF t
      <3>3. TokenOk(r)' /\ TrashOk(r)'
          BY <1>f, <2>0, <2>a, <3>1, <3>2 DEF TokenOk, TrashOk, Updates, Trashes
      <3> QED BY <1>m, <2>0, <3>1, <3>2, <3>3 DEF Unfinished
    <2>3. CASE ~Fail(r) /\ old.count = q.token
      <3> DEFINE b == Bump(old, new)
                 t == [q EXCEPT !.wrote = TRUE,
                                !.pc = IF new.parent \in {Root, old.parent}
                                       THEN "commit" ELSE "key"]
      <3>1. WriteRow(r, q.id, b) /\ Become(r, t)
          BY <1>3, <2>3 DEF UpdateRow, WriteUpdate
      <3>2. b.exists /\ b.count = row[q.id].count + 1 /\ b \in Row
        <4>1. new \in Row /\ new.exists = old.exists
            BY <1>c, <1>d DEF Row
        <4>2. old \in Row /\ old.exists /\ old.count = row[q.id].count
            BY <1>d, <2>a
        <4> HIDE DEF old, new
        <4>3. /\ Bump(old, new) \in Row /\ Bump(old, new).count = old.count + 1
              /\ Bump(old, new).exists = new.exists
            BY <4>1, <4>2, RowType
        <4> QED BY <4>1, <4>2, <4>3
      <3>3. /\ t.op = q.op /\ t.id = q.id /\ t.pc \in {"key", "commit"} /\ t.wrote = TRUE
            /\ t.token = q.token
          BY <1>b DEF Active
      <3> HIDE DEF t, b, new, old
      <3>4. \A o \in Objects :
              /\ o # q.id => xlock'[o] = xlock[o] /\ dirty'[o] = dirty[o]
              /\ o = q.id => xlock'[o] = r /\ dirty'[o] = b /\ xlock[o] \in {NoReq, r}
          BY <1>a, <2>0, <3>1 DEF WriteRow, CanWrite, TypeOK
      <3>5. b.count > row[q.id].count
          BY <1>a, <1>c, <3>2 DEF TypeOK, Row
      <3>6. TokenOk(r)' /\ TrashOk(r)'
          BY <1>c, <1>f, <2>0, <2>a, <2>3, <3>1, <3>3, <3>4
             DEF TokenOk, TrashOk, Updates, Trashes
      <3>7. \A o \in Objects :
              \/ xlock'[o] = xlock[o] /\ dirty'[o] = dirty[o]
              \/ /\ xlock'[o] = r /\ xlock[o] \in {NoReq, r}
                 /\ dirty'[o].exists
                 /\ row[o].exists /\ dirty'[o].count > row[o].count
                 /\ t.id = o
          BY <2>a, <3>2, <3>3, <3>4, <3>5
      <3> QED BY <1>a, <1>g, <2>0, <3>1, <3>3, <3>6, <3>7, WorkInv DEF Unfinished
    <2> QED BY <2>1, <2>2, <2>3
  <1>4. CASE InsertRow(r)
    <2>0. q.pc = "write" /\ q.op = "create" /\ row' = row /\ CanWrite(r, q.id)
        BY <1>4 DEF InsertRow
    <2>1. CASE Fail(r)
        BY <1>a, <2>0, <2>1, FailInv
    <2>2. CASE ~Fail(r)
      <3> DEFINE t == [q EXCEPT !.wrote = TRUE,
                                !.pc = IF q.target = Root THEN "commit" ELSE "key"]
      <3>1. WriteRow(r, q.id, NewRow(q.target)) /\ Become(r, t)
          BY <1>4, <2>2 DEF InsertRow
      <3>2. t.op = q.op /\ t.id = q.id /\ t.pc \in {"key", "commit"} /\ t.wrote = TRUE
          BY <1>b DEF Active
      <3> HIDE DEF t
      <3>3. NewRow(q.target).exists /\ ~row[q.id].exists
          BY <1>e, <2>0 DEF NewRow, NoRow, CreateOk, Unfinished
      <3>4. \A o \in Objects :
              /\ o # q.id => xlock'[o] = xlock[o] /\ dirty'[o] = dirty[o]
              /\ o = q.id => /\ xlock'[o] = r /\ dirty'[o] = NewRow(q.target)
                             /\ xlock[o] \in {NoReq, r}
          BY <1>a, <2>0, <3>1 DEF WriteRow, CanWrite, TypeOK
      <3>5. TokenOk(r)' /\ TrashOk(r)'
          BY <1>f, <2>0, <3>1, <3>2 DEF TokenOk, TrashOk, Updates, Trashes
      <3>6. \A o \in Objects :
              \/ xlock'[o] = xlock[o] /\ dirty'[o] = dirty[o]
              \/ /\ xlock'[o] = r /\ xlock[o] \in {NoReq, r}
                 /\ dirty'[o].exists /\ ~row[o].exists /\ t.id = o
          BY <3>2, <3>3, <3>4
      <3> QED BY <1>a, <1>g, <2>0, <3>1, <3>2, <3>5, <3>6, WorkInv DEF Unfinished
    <2> QED BY <2>1, <2>2
  <1>5. CASE ReferToParent(r)
    <2> DEFINE t == [q EXCEPT !.pc = "commit"]
    <2>1. q.pc = "key" /\ Become(r, t) /\ UNCHANGED <<row, dirty, xlock>>
        BY <1>5 DEF ReferToParent
    <2>2. /\ t.op = q.op /\ t.id = q.id /\ t.pc = "commit" /\ t.wrote = q.wrote
          /\ t.token = q.token /\ t.at = q.at /\ t.todo = q.todo
        BY <1>b DEF Active
    <2> HIDE DEF t
    <2>3. TokenOk(r)' /\ TrashOk(r)'
        BY <1>e, <1>f, <2>1, <2>2 DEF TokenOk, TrashOk, Unfinished
    <2> QED BY <1>m, <2>1, <2>2, <2>3 DEF Unfinished
  <1>6. CASE ReadForDelete(r)
    <2>0. q.pc = "read" /\ q.op \in Trashes /\ row' = row
        BY <1>6 DEF ReadForDelete, Trashes
    <2>a. row[q.at].exists /\ \A x \in q.todo : row[x[1]].exists
        BY <1>e, <2>0 DEF TrashOk, Unfinished
    <2>1. CASE Fail(r)
        BY <1>a, <2>0, <2>1, FailInv
    <2>2. CASE Continue(r, q.todo, "read") /\ UNCHANGED locks
        BY <1>a, <1>b, <1>c, <2>0, <2>a, <2>2, TrashWorkInv DEF Unfinished, locks
    <2>3. CASE Become(r, [q EXCEPT !.pc = "write"]) /\ UNCHANGED locks
      <3> DEFINE t == [q EXCEPT !.pc = "write"]
      <3>1. Become(r, t) /\ UNCHANGED <<dirty, xlock>>
          BY <2>3 DEF locks
      <3>2. /\ t.op = q.op /\ t.id = q.id /\ t.pc = "write" /\ t.wrote = q.wrote
            /\ t.at = q.at /\ t.todo = q.todo
          BY <1>b DEF Active
      <3> HIDE DEF t
      <3>3. TokenOk(r)' /\ TrashOk(r)'
          BY <1>f, <2>0, <2>a, <3>1, <3>2 DEF TokenOk, TrashOk, Updates, Trashes
      <3> QED BY <1>m, <2>0, <3>1, <3>2, <3>3 DEF Unfinished
    <2> QED BY <1>6, <2>1, <2>2, <2>3 DEF ReadForDelete
  <1>7. CASE MarkDeleted(r)
    <2> DEFINE o   == q.at
               old == Visible(r, o)
               new == [old EXCEPT !.deleted = TRUE, !.ancestor = (o # q.id),
                                  !.expunged = @ \/ q.op = "expunge"]
    <2>0. q.pc = "write" /\ q.op \in Trashes /\ row' = row /\ CanWrite(r, o)
        BY <1>7 DEF MarkDeleted, Trashes
    <2>a. \A x \in q.todo \cup Children(r, o) : row[x[1]].exists
        BY <1>a, <1>c, <1>e, <2>0, ListedExist DEF TrashOk, Unfinished
    <2>1. CASE Fail(r)
        BY <1>a, <2>0, <2>1, FailInv
    <2>2. CASE ~Fail(r)
      <3>1. new \in Row /\ new.exists = old.exists
          BY <1>d DEF Row
      <3>2. /\ WriteRow(r, o, Bump(old, new))
            /\ \/ Continue(r, q.todo \cup Children(r, o), "read")
               \/ Continue(r, q.todo, "read")
          BY <1>7, <2>2 DEF MarkDeleted
      <3>3. Children(r, o) \in SUBSET (Objects \X Nat)
          BY <1>a, <1>c, ChildrenType
      <3>4. PICK todo \in SUBSET (Objects \X Nat) :
              Continue(r, todo, "read") /\ \A x \in todo : row[x[1]].exists
          BY <1>c, <2>a, <3>2, <3>3
      <3>5. \E w \in Row : /\ CanWrite(r, q.at)
                           /\ WriteRow(r, q.at, Bump(Visible(r, q.at), w))
                           /\ w.exists = Visible(r, q.at).exists
          BY <2>0, <3>1, <3>2
      <3> QED BY <1>a, <1>b, <2>0, <3>4, <3>5, TrashWorkInv DEF Unfinished
    <2> QED BY <2>1, <2>2
  <1>8. CASE MarkUndeleted(r)
    <2> DEFINE o   == q.at
               old == Visible(r, o)
               new == [old EXCEPT !.deleted = FALSE, !.ancestor = @ /\ ~q.wrote]
    <2>0. q.pc = "write" /\ q.op \in Trashes /\ row' = row /\ CanWrite(r, o)
        BY <1>8 DEF MarkUndeleted, Trashes
    <2>a. \A x \in q.todo \cup AncestorChildren(r, o) : row[x[1]].exists
        BY <1>a, <1>c, <1>e, <2>0, ListedExist DEF TrashOk, Unfinished
    <2>1. CASE Fail(r)
        BY <1>a, <2>0, <2>1, FailInv
    <2>2. CASE ~Fail(r)
      <3>1. new \in Row /\ new.exists = old.exists
          BY <1>d DEF Row
      <3>2. /\ WriteRow(r, o, Bump(old, new)) \/ UNCHANGED <<dirty, xlock>>
            /\ Continue(r, q.todo \cup AncestorChildren(r, o), "write")
          BY <1>8, <2>2 DEF MarkUndeleted
      <3>3. AncestorChildren(r, o) \in SUBSET (Objects \X Nat)
          BY <1>a, <1>c, ChildrenType
      <3>4. PICK todo \in SUBSET (Objects \X Nat) :
              Continue(r, todo, "write") /\ \A x \in todo : row[x[1]].exists
          BY <1>c, <2>a, <3>2, <3>3
      <3>5. \/ UNCHANGED <<dirty, xlock>>
            \/ \E w \in Row : /\ CanWrite(r, q.at)
                              /\ WriteRow(r, q.at, Bump(Visible(r, q.at), w))
                              /\ w.exists = Visible(r, q.at).exists
          BY <2>0, <3>1, <3>2
      <3> QED BY <1>a, <1>b, <2>0, <3>4, <3>5, TrashWorkInv DEF Unfinished
    <2> QED BY <2>1, <2>2
  <1>9. CASE Commit(r)
      BY <1>9, <1>a, CommitInv
  <1>10. CASE CommitFails(r)
    <2> DEFINE t == [q EXCEPT !.pc = "ok", !.wrote = FALSE]
    <2>1. t.pc = "ok" /\ t.id = q.id
        BY <1>b DEF Active
    <2>2. CASE q.op = "create"
        BY <1>10, <1>a, <2>2, FailInv DEF CommitFails, Fail
    <2>3. CASE q.op # "create"
      <3>1. Release(r) /\ Become(r, t) /\ row' = row
          BY <1>10, <2>3 DEF CommitFails
      <3> HIDE DEF t
      <3> QED BY <1>n, <2>1, <3>1 DEF Unfinished
    <2> QED BY <2>2, <2>3
  <1>11. CASE LockFails(r)
    <2>0. q.pc \in {"write", "key"} /\ Release(r) /\ row' = row
        BY <1>11 DEF LockFails
    <2>1. CASE Become(r, Idle)
        BY <1>a, <2>0, <2>1, FailInv DEF Fail
    <2>2. CASE ~Become(r, Idle)
      <3> DEFINE t == [q EXCEPT !.tries = @ - 1, !.wrote = FALSE,
                                !.pc = IF q.op = "create" THEN "write" ELSE "read"]
      <3>1. Become(r, t) /\ q.op \in Updates \cup {"create"}
          BY <1>11, <2>2 DEF LockFails, Updates
      <3>2. /\ t.op = q.op /\ t.id = q.id /\ t.wrote = FALSE /\ t.token = q.token
            /\ t.pc = IF q.op = "create" THEN "write" ELSE "read"
          BY <1>b DEF Active
      <3> HIDE DEF t
      <3>3. \A p \in Reqs \ {r} : txn'[p] = txn[p]
          BY <1>a, <3>1 DEF Become, TypeOK
      <3>4. TokenOk(r)' /\ TrashOk(r)'
          BY <1>e, <1>f, <2>0, <3>1, <3>2 DEF TokenOk, TrashOk, Updates, Trashes, Unfinished
      <3>5. CreateOk(r)'
          BY <1>e, <1>f, <2>0, <3>1, <3>2, <3>3 DEF CreateOk, Unfinished
      <3> QED BY <1>a, <2>0, <3>1, <3>2, <3>4, <3>5, ReleaseInv
    <2> QED BY <2>1, <2>2
  <1>12. CASE Answer(r)
    <2>1. \A o \in Objects : xlock[o] # r
        BY <1>12, <1>a, NoLockYet DEF Answer, Unfinished
    <2>2. Become(r, Idle) /\ row' = row /\ xlock' = xlock /\ dirty' = dirty
        BY <1>12 DEF Answer, locks
    <2> QED BY <1>a, <2>1, <2>2, IdleInv
  <1> QED BY <1>1, <1>2, <1>3, <1>4, <1>5, <1>6, <1>7, <1>8, <1>9, <1>10, <1>11, <1>12
          DEF Step

Safe == TypeInv /\ StoreInv

LEMMA SafeNext == Safe /\ [Next]_vars => Safe'
  <1> SUFFICES ASSUME Safe, [Next]_vars PROVE Safe'
      OBVIOUS
  <1>1. TypeInv'
      BY TypeNext DEF Safe
  <1>2. ASSUME NEW r \in Reqs, Begin(r) \/ Step(r) PROVE StoreInv'
      BY <1>2, BeginInv, StepInv DEF Safe, TypeInv
  <1>3. CASE UNCHANGED vars
    <2>1. row' = row /\ dirty' = dirty /\ xlock' = xlock /\ txn' = txn
        BY <1>3 DEF vars, locks
    <2>2. \A o \in Objects : LockOk(o) = LockOk(o)'
        BY <2>1 DEF LockOk
    <2>3. \A r \in Reqs : TokenOk(r) = TokenOk(r)'
        BY <2>1 DEF TokenOk
    <2>4. \A r \in Reqs : CreateOk(r) = CreateOk(r)' /\ TrashOk(r) = TrashOk(r)'
        BY <2>1 DEF CreateOk, TrashOk
    <2> QED BY <1>1, <2>2, <2>3, <2>4 DEF Safe, StoreInv
  <1> QED BY <1>1, <1>2, <1>3 DEF Next, Safe

(* The same in one step. *)
LEMMA OneUpdate ==
  ASSUME Safe, [Next]_vars, NEW r \in Reqs,
         txn[r].op \in {"update", "move"}, txn[r].pc = "commit", txn'[r].pc = "ok",
         row'[txn[r].id] # row[txn[r].id]
  PROVE  row[txn[r].id].count = txn[r].token /\ ~row[txn[r].id].deleted
  <1> DEFINE o == txn[r].id
  <1>1. TypeOK /\ StoreInv /\ txn[r] \in Active /\ o \in Objects
    <2>1. TypeOK /\ StoreInv /\ txn[r] \in Active
        BY DEF Safe, TypeInv, TypeOK, Idle
    <2> QED BY <2>1 DEF Active
  <1>2. PICK q \in Reqs : Begin(q) \/ Step(q)
      BY DEF Next, vars
  <1>3. q = r
    <2> SUFFICES ASSUME q # r PROVE txn'[r] = txn[r]
        OBVIOUS
    <2>1. ASSUME NEW t, Become(q, t) PROVE txn'[r] = txn[r]
        BY <1>1, <2>1 DEF Become, TypeOK
    <2>2. \E t : Become(q, t)
        BY <1>2 DEF Begin, BeginCreate, BeginMove, BeginUpdate, BeginDelete, BeginExpunge,
           BeginUndelete, Start, Step, Walk, ReadForUpdate, UpdateRow, WriteUpdate, InsertRow,
           ReferToParent, ReadForDelete, MarkDeleted, MarkUndeleted, Commit, CommitFails,
           LockFails, Answer, Fail, Continue
    <2> QED BY <2>1, <2>2
  <1>4. Commit(r)
      BY <1>2, <1>3 DEF Begin, BeginCreate, BeginMove, BeginUpdate, BeginDelete,
         BeginExpunge, BeginUndelete, Start, Step, Walk, ReadForUpdate, UpdateRow, InsertRow,
         ReferToParent, ReadForDelete, MarkDeleted, MarkUndeleted, CommitFails,
         LockFails, Answer
  <1>5. xlock[o] = r /\ r # NoReq
      BY <1>1, <1>4, StoreAssumption DEF Commit
  <1>6. LockOk(o) /\ TokenOk(r)
      BY <1>1 DEF StoreInv
  <1> QED BY <1>5, <1>6 DEF LockOk, TokenOk, Updates, Unfinished

(***************************************************************************)
(* The change token is the lock of an update.  Whatever other requests     *)
(* commit between the read of updateObjectInTransaction and its UPDATE,    *)
(* and however often it starts over, what UpdateObject commits replaces    *)
(* the revision that its caller named, and one that is not in the trash.   *)
(***************************************************************************)
THEOREM UpdateReplacesNamedRevision == Spec => UpdatesAreCurrent
  <1>1. Init => Safe
      BY TypeInit, StoreInit DEF Safe
  <1>2. Safe /\ [Next]_vars =>
          [\A r \in Reqs :
             txn[r].op \in {"update", "move"} /\ txn[r].pc = "commit" =>
               LET o == txn[r].id IN
                 txn'[r].pc = "ok" /\ row'[o] # row[o] =>
                   row[o].count = txn[r].token /\ ~row[o].deleted]_vars
      BY OneUpdate
  <1> QED BY <1>1, <1>2, SafeNext, PTL DEF Spec, UpdatesAreCurrent

--------------------------------------------------------------------------------
(* The tree of objects *)

Discards == {"delete", "expunge"}

(* Only a mover moves. *)
MoveOk(r) == txn[r].op = "move" => r \in Movers /\ "move" \in Ops

(***************************************************************************)
(* What transaction t has made of the row old of object o.                 *)
(***************************************************************************)
Written(t, o, old, new) ==
  /\ t.op \in Updates => new = [old EXCEPT !.parent = t.target, !.count = @ + 1]
  /\ t.op = "create" => new = NewRow(t.target)
  /\ t.op \in Discards =>
       new = [old EXCEPT !.deleted = TRUE, !.ancestor = (o # t.id),
                         !.expunged = @ \/ t.op = "expunge", !.count = @ + 1]
  /\ t.op = "undelete" =>
       /\ o # t.id => ~old.expunged
       /\ \E again \in BOOLEAN :
            /\ again => o = t.id
            /\ new = [old EXCEPT !.deleted = FALSE, !.ancestor = @ /\ o = t.id /\ ~again,
                                 !.count = @ + (IF again THEN 2 ELSE 1)]

(* The objects that a request on the trash still has to work on. *)
Pending(t) ==
  (IF t.pc = "commit" THEN {} ELSE {t.at}) \cup {x[1] : x \in t.todo}

(***************************************************************************)
(* A request on the trash begins with the object it names; from then on    *)
(* that is locked, unless there was nothing to do.  What it still has to   *)
(* mark it has not marked, but for the named object of an undelete that it *)
(* met again.                                                              *)
(***************************************************************************)
OrderOk(r) ==
  LET t == txn[r] IN
    /\ t.pc \in {"read", "write", "commit"}
    /\ t.pc = "commit" => t.todo = {} /\ t.wrote
    /\ ~t.wrote => t.at = t.id /\ t.todo = {} /\ \A o \in Objects : xlock[o] # r
    /\ t.wrote => \/ t.pc = "commit" /\ \A o \in Objects : xlock[o] # r
                  \/ xlock[t.id] = r
    /\ t.op \in Discards /\ t.pc = "write" => xlock[t.at] # r
    /\ t.op = "undelete" =>
         /\ t.pc # "read"
         /\ \A x \in t.todo : x[2] = 0 /\ (t.pc = "write" => x[1] # t.at)
         /\ \A o \in Pending(t) : xlock[o] = r => o = t.id /\ dirty[o].ancestor

OwnOk(r) ==
  txn[r].pc \in Unfinished =>
    /\ \A o \in Objects : xlock[o] = r => Written(txn[r], o, row[o], dirty[o])
    /\ txn[r].op \in Trashes => OrderOk(r)

(* Every transaction does what Revisions lets a request do. *)
WorkOk == \A r \in Reqs : MoveOk(r) /\ OwnOk(r)

(***************************************************************************)
(* The parent of a row exists, and so does that of a row to be written.    *)
(* An update keeps the parent of the revision it replaces.                 *)
(***************************************************************************)
ParentOk(o) ==
  /\ row[o].exists \/ row[o] = NoRow
  /\ row[o].parent = Root \/ row[row[o].parent].exists

TargetOk(r) ==
  txn[r].pc \in Unfinished =>
    /\ txn[r].op \in Updates \cup {"create"} => txn[r].target = Root \/ row[txn[r].target].exists
    /\ txn[r].op = "update" /\ row[txn[r].id].count = txn[r].token =>
         row[txn[r].id].parent = txn[r].target

(***************************************************************************)
(* The objects that IsParentIDADescendent has met on its way from the      *)
(* target to the root: the moved object is not among them, nor will it be  *)
(* while nobody else moves anything.                                       *)
(***************************************************************************)
Met(t, W) ==
  LET next == IF t.pc = "walk" THEN t.at ELSE Root IN
    /\ t.target \in W \cup {next}
    /\ t.id \notin W \cup {next}
    /\ next # Root => row[next].exists
    /\ \A w \in W : row[w].exists /\ row[w].parent \in W \cup {next}

WalkOk(r) ==
  txn[r].pc \in Unfinished /\ txn[r].op = "move" /\ txn[r].target # Root =>
    \E W \in SUBSET Objects : Met(txn[r], W)

TreeOk ==
  /\ \A o \in Objects : ParentOk(o)
  /\ \A r \in Reqs : TargetOk(r) /\ WalkOk(r)
  /\ Acyclic

(* No two requests move objects. *)
OneMover == \A q, r \in Reqs : txn[q].op = "move" /\ txn[r].op = "move" => q = r

(***************************************************************************)
(* What goes to the trash with the object named in a delete goes together  *)
(* with its parent.                                                        *)
(***************************************************************************)
GoneOk(r) ==
  LET t == txn[r] IN
    t.pc \in Unfinished /\ t.op \in Discards =>
      \A o \in Objects :
        (xlock[o] = r \/ o \in Pending(t)) /\ o # t.id =>
          row[o].parent # Root /\ xlock[row[o].parent] = r

(***************************************************************************)
(* An undelete comes to every object that went with one it has restored.   *)
(***************************************************************************)
BackOk(r) ==
  LET t == txn[r] IN
    t.pc \in Unfinished /\ t.op = "undelete" =>
      \A o, c \in Objects :
        xlock[o] = r /\ row[c].ancestor /\ ~row[c].expunged /\ row[c].parent = o =>
          c \in Pending(t) \/ (xlock[c] = r /\ ~dirty[c].ancestor)

TrashInv == \A r \in Reqs : GoneOk(r) /\ BackOk(r)

--------------------------------------------------------------------------------
(* What a transaction does *)

(***************************************************************************)
(* A step of r leaves alone what the others wrote.                         *)
(***************************************************************************)
Aside(r) ==
  /\ \A q \in Reqs \ {r} : txn'[q] = txn[q]
  /\ \A q \in Reqs \ {r}, o \in Objects :
       /\ xlock'[o] = q <=> xlock[o] = q
       /\ xlock[o] = q => dirty'[o] = dirty[o] /\ row'[o] = row[o]

LEMMA OwnFrame ==
  ASSUME TypeOK, StoreInv, WorkOk, NEW r \in Reqs, Aside(r), MoveOk(r)', OwnOk(r)'
  PROVE  WorkOk'
  <1>1. ASSUME NEW q \in Reqs \ {r} PROVE MoveOk(q)' /\ OwnOk(q)'
    <2>1. MoveOk(q) /\ OwnOk(q) /\ txn'[q] = txn[q]
        BY DEF WorkOk, Aside
    <2>2. MoveOk(q)'
        BY <2>1 DEF MoveOk
    <2>3. CASE txn[q].pc \in Unfinished
      <3>1. txn[q] \in Active
          BY <2>3 DEF TypeOK, Idle, Unfinished
      <3>2. /\ txn[q].id \in Objects /\ txn[q].at \in Objects
            /\ \A x \in txn[q].todo : x[1] \in Objects
          BY <3>1 DEF Active
      <3>3. Pending(txn[q]) \subseteq Objects
          BY <3>2 DEF Pending
      <3>4. \A o \in Objects : /\ xlock'[o] = q <=> xlock[o] = q
                               /\ xlock[o] = q => dirty'[o] = dirty[o] /\ row'[o] = row[o]
          BY DEF Aside
      <3>5. \A o \in Objects : xlock'[o] = q => Written(txn[q], o, row[o], dirty[o])'
        <4> SUFFICES ASSUME NEW o \in Objects, xlock'[o] = q
                     PROVE  Written(txn[q], o, row[o], dirty[o])'
            OBVIOUS
        <4>1. Written(txn[q], o, row[o], dirty[o])
            BY <2>1, <2>3, <3>4 DEF OwnOk
        <4>2. row'[o] = row[o] /\ dirty'[o] = dirty[o]
            BY <3>4
        <4> QED BY <2>1, <4>1, <4>2 DEF Written
      <3>6. txn[q].op \in Trashes => OrderOk(q)'
        <4> SUFFICES ASSUME txn[q].op \in Trashes PROVE OrderOk(q)'
            OBVIOUS
        <4>1. OrderOk(q)
            BY <2>1, <2>3 DEF OwnOk
        <4>2. Pending(txn[q])' = Pending(txn[q])
            BY <2>1 DEF Pending
        <4> QED BY <2>1, <3>2, <3>3, <3>4, <4>1, <4>2 DEF OrderOk
      <3> QED BY <2>1, <2>2, <3>5, <3>6 DEF OwnOk
    <2>4. CASE txn[q].pc \notin Unfinished
        BY <2>1, <2>2, <2>4 DEF OwnOk
    <2> QED BY <2>3, <2>4
  <1> QED BY <1>1 DEF WorkOk

LEMMA WorkInit == Init => WorkOk
  BY DEF Init, WorkOk, MoveOk, OwnOk, Idle, Unfinished

LEMMA OwnStart ==
  ASSUME TypeOK, StoreInv, WorkOk, NEW r \in Reqs, NEW op \in AllOps, NEW o \in Objects,
         NEW p \in Objects \cup {Root}, NEW pc \in {"walk", "read", "write"},
         Start(r, op, o, p, pc),
         op = "move" => r \in Movers,
         op \in Discards => pc = "read",
         op = "undelete" => pc = "write"
  PROVE  WorkOk'
  <1>1. /\ txn'[r].op = op /\ txn'[r].id = o /\ txn'[r].pc = pc
        /\ txn'[r].todo = {} /\ txn'[r].wrote = FALSE
        /\ pc # "walk" => txn'[r].at = o
        /\ \A q \in Reqs \ {r} : txn'[q] = txn[q]
        /\ op \in Ops
      BY DEF Start, Become, TypeOK
  <1>2. row' = row /\ xlock' = xlock /\ dirty' = dirty /\ txn[r].pc = "idle"
      BY DEF Start, locks
  <1>3. \A d \in Objects : xlock[d] # r
      BY <1>2, NoLockYet DEF Unfinished
  <1>4. Aside(r)
      BY <1>1, <1>2 DEF Aside
  <1>5. MoveOk(r)'
      BY <1>1 DEF MoveOk
  <1>6. op \in Trashes => OrderOk(r)'
    <2> SUFFICES ASSUME op \in Trashes PROVE OrderOk(r)'
        OBVIOUS
    <2>1. pc # "walk" /\ (op = "undelete" => pc # "read") /\ (op \in Discards => pc # "write")
        BY DEF Trashes, Discards
    <2>2. Pending(txn[r])' = {o}
        BY <1>1, <2>1 DEF Pending
    <2> QED BY <1>1, <1>2, <1>3, <2>1, <2>2 DEF OrderOk
  <1>7. OwnOk(r)'
      BY <1>1, <1>2, <1>3, <1>6 DEF OwnOk
  <1> QED BY <1>4, <1>5, <1>7, OwnFrame

LEMMA WorkBegin ==
  ASSUME TypeOK, StoreInv, WorkOk, NEW r \in Reqs, Begin(r)
  PROVE  WorkOk'
  <1> USE DEF AllOps, Discards
  <1>1. PICK o \in Objects :
          \/ \E p \in Objects \cup {Root} : BeginCreate(r, o, p) \/ BeginMove(r, o, p)
          \/ BeginUpdate(r, o) \/ BeginDelete(r, o) \/ BeginExpunge(r, o)
          \/ BeginUndelete(r, o)
      BY DEF Begin
  <1>2. ASSUME NEW p \in Objects \cup {Root}, BeginCreate(r, o, p) PROVE WorkOk'
      BY <1>2, OwnStart DEF BeginCreate
  <1>3. ASSUME NEW p \in Objects \cup {Root}, BeginMove(r, o, p) PROVE WorkOk'
    <2>1. CASE p = Root
        BY <1>3, <2>1, OwnStart DEF BeginMove
    <2>2. CASE p # Root
        BY <1>3, <2>2, OwnStart DEF BeginMove
    <2> QED BY <2>1, <2>2
  <1>4. CASE BeginUpdate(r, o)
    <2>1. row[o].parent \in Objects \cup {Root}
        BY DEF TypeOK, Row
    <2> QED BY <1>4, <2>1, OwnStart DEF BeginUpdate
  <1>5. CASE BeginDelete(r, o)
      BY <1>5, OwnStart DEF BeginDelete
  <1>6. CASE BeginExpunge(r, o)
      BY <1>6, OwnStart DEF BeginExpunge
  <1>7. CASE BeginUndelete(r, o)
      BY <1>7, OwnStart DEF BeginUndelete
  <1> QED BY <1>1, <1>2, <1>3, <1>4, <1>5, <1>6, <1>7

(* Where a request on the trash goes on. *)
LEMMA ContinueFacts ==
  ASSUME TypeOK, NEW r \in Reqs, txn[r] \in Active,
         NEW todo \in SUBSET (Objects \X Nat), NEW pc \in {"read", "write"},
         Continue(r, todo, pc)
  PROVE  /\ \A q \in Reqs \ {r} : txn'[q] = txn[q]
         /\ txn'[r].op = txn[r].op /\ txn'[r].id = txn[r].id /\ txn'[r].wrote = TRUE
         /\ \/ todo = {} /\ txn'[r].pc = "commit" /\ txn'[r].todo = {}
            \/ /\ txn'[r].pc = pc
               /\ <<txn'[r].at, txn'[r].want>> \in todo
               /\ txn'[r].todo = todo \ {<<txn'[r].at, txn'[r].want>>}
         /\ Pending(txn'[r]) = {x[1] : x \in todo}
  <1> DEFINE u == [txn[r] EXCEPT !.wrote = TRUE]
  <1>1. /\ u \in Active /\ u.op = txn[r].op /\ u.id = txn[r].id /\ u.wrote = TRUE
      BY DEF Active
  <1>2. PICK t \in NextOf(u, todo, pc) : Become(r, t)
      BY DEF Continue
  <1> HIDE DEF u
  <1>3. txn'[r] = t /\ \A q \in Reqs \ {r} : txn'[q] = txn[q]
      BY <1>2 DEF Become, TypeOK
  <1>4. CASE todo = {}
    <2>1. t = [u EXCEPT !.pc = "commit", !.todo = {}]
        BY <1>2, <1>4 DEF NextOf
    <2>2. /\ t.op = u.op /\ t.id = u.id /\ t.wrote = TRUE /\ t.pc = "commit" /\ t.todo = {}
        BY <1>1, <2>1 DEF Active
    <2> QED BY <1>1, <1>3, <1>4, <2>2 DEF Pending
  <1>5. CASE todo # {}
    <2>1. PICK x \in todo :
            t = [u EXCEPT !.pc = pc, !.at = x[1], !.want = x[2], !.todo = todo \ {x}]
        BY <1>2, <1>5 DEF NextOf
    <2>2. /\ t.op = u.op /\ t.id = u.id /\ t.wrote = TRUE /\ t.pc = pc
          /\ t.at = x[1] /\ t.want = x[2] /\ t.todo = todo \ {x}
        BY <1>1, <2>1 DEF Active
    <2>3. x = <<t.at, t.want>>
        BY <2>2
    <2>4. Pending(t) = {x[1]} \cup {y[1] : y \in todo \ {x}}
        BY <2>2 DEF Pending
    <2>5. Pending(t) = {y[1] : y \in todo}
        BY <2>4
    <2> QED BY <1>1, <1>3, <2>2, <2>3, <2>5
  <1> QED BY <1>4, <1>5

(* A row that is written with a lock of r, and nothing else. *)
LEMMA WriteFacts ==
  ASSUME TypeOK, NEW r \in Reqs, NEW o \in Objects, NEW b, CanWrite(r, o), WriteRow(r, o, b)
  PROVE  /\ \A d \in Objects \ {o} : xlock'[d] = xlock[d] /\ dirty'[d] = dirty[d]
         /\ xlock'[o] = r /\ dirty'[o] = b
         /\ xlock[o] \in {NoReq, r}
  BY DEF WriteRow, CanWrite, TypeOK

LEMMA WriteAside ==
  ASSUME TypeOK, NEW r \in Reqs, NEW o \in Objects, NEW b, CanWrite(r, o), WriteRow(r, o, b),
         row' = row, \A q \in Reqs \ {r} : txn'[q] = txn[q]
  PROVE  Aside(r)
  <1>1. /\ \A d \in Objects \ {o} : xlock'[d] = xlock[d] /\ dirty'[d] = dirty[d]
        /\ xlock'[o] = r
        /\ xlock[o] \in {NoReq, r}
      BY WriteFacts
  <1> QED BY <1>1, StoreAssumption DEF Aside

LEMMA WorkStep ==
  ASSUME TypeInv, StoreInv, WorkOk, NEW r \in Reqs, Step(r)
  PROVE  WorkOk'
  <1> DEFINE q == txn[r]
  <1>a. TypeOK /\ KeyInv
      BY DEF TypeInv
  <1>b. q \in Active
      BY <1>a DEF TypeOK, Idle, Step, Walk, ReadForUpdate, UpdateRow, InsertRow,
         ReferToParent, ReadForDelete, MarkDeleted, MarkUndeleted, Commit, CommitFails,
         LockFails, Answer
  <1>c. /\ q.at \in Objects /\ q.id \in Objects /\ q.target \in Objects \cup {Root}
        /\ q.todo \in SUBSET (Objects \X Nat)
      BY <1>b DEF Active
  <1>d. Visible(r, q.at) \in Row /\ Visible(r, q.id) \in Row /\ row[q.at] \in Row /\ row[q.id] \in Row
        /\ dirty[q.at] \in Row
      BY <1>a, <1>c, VisibleType DEF TypeOK
  <1>e. MoveOk(r) /\ OwnOk(r) /\ TokenOk(r) /\ CreateOk(r) /\ TrashOk(r)
      BY DEF StoreInv, WorkOk
  <1>f. \A t : Become(r, t) => txn'[r] = t /\ \A p \in Reqs \ {r} : txn'[p] = txn[p]
      BY <1>a DEF Become, TypeOK
  <1>g. q.op \in Updates \cup {"create"} /\ q.pc \in {"walk", "read", "write"} =>
          \A o \in Objects : xlock[o] # r
      BY <1>a, NoLockYet
  <1>h. q.op \in Updates \/ q.op = "create" \/ q.op \in Trashes
      BY <1>b DEF Active, AllOps, Updates, Trashes
  (* The request is answered or its transaction starts over. *)
  <1>m. ASSUME NEW t, Become(r, t), Release(r), row' = row,
               \/ t.pc \notin Unfinished /\ t.op \in {"none", q.op}
               \/ t.op = q.op /\ t.op \notin Trashes
        PROVE  WorkOk'
    <2>1. \A o \in Objects : /\ xlock'[o] # r
                             /\ xlock[o] # r => xlock'[o] = xlock[o] /\ dirty'[o] = dirty[o]
                             /\ xlock[o] = r => xlock'[o] = NoReq
        BY <1>m, StoreAssumption DEF Release
    <2>2. Aside(r)
        BY <1>f, <1>m, <2>1, StoreAssumption DEF Aside
    <2>3. MoveOk(r)' /\ OwnOk(r)'
        BY <1>e, <1>f, <1>m, <2>1 DEF MoveOk, OwnOk, Trashes
    <2> QED BY <1>a, <2>2, <2>3, OwnFrame
  <1>n. ASSUME Fail(r), row' = row PROVE WorkOk'
    <2>1. Idle.pc \notin Unfinished /\ Idle.op = "none"
        BY DEF Idle, Unfinished
    <2> QED BY <1>m, <1>n, <2>1 DEF Fail
  (* The request goes on. *)
  <1>o. ASSUME NEW t, Become(r, t), UNCHANGED <<row, dirty, xlock>>, t.op = q.op,
               t.id = q.id, t.target = q.target, q.pc \in Unfinished,
               q.op \in Trashes => OrderOk(r)'
        PROVE  WorkOk'
    <2>1. Aside(r)
        BY <1>f, <1>o DEF Aside
    <2>2. ASSUME NEW o \in Objects, xlock'[o] = r PROVE Written(txn[r], o, row[o], dirty[o])'
      <3>1. Written(txn[r], o, row[o], dirty[o])
          BY <1>e, <1>o, <2>2 DEF OwnOk
      <3>2. txn'[r] = t /\ row'[o] = row[o] /\ dirty'[o] = dirty[o]
          BY <1>f, <1>o
      <3> QED BY <1>o, <3>1, <3>2 DEF Written
    <2>3. MoveOk(r)' /\ OwnOk(r)'
        BY <1>e, <1>f, <1>o, <2>2 DEF MoveOk, OwnOk
    <2> QED BY <1>a, <2>1, <2>3, OwnFrame
  <1>1. CASE Walk(r)
    <2> DEFINE p == row[q.at].parent
    <2>0. q.pc = "walk" /\ UNCHANGED <<row, dirty, xlock>>
        BY <1>1 DEF Walk, locks
    <2>a. q.op \notin Trashes
        BY <1>e, <2>0 DEF TrashOk, Unfinished
    <2>1. CASE p = q.id
      <3>1. Become(r, Idle) /\ Idle.pc \notin Unfinished /\ Idle.op = "none"
          BY <1>1, <2>1 DEF Walk, Idle, Unfinished
      <3>2. Aside(r)
          BY <1>f, <2>0, <3>1 DEF Aside
      <3>3. MoveOk(r)' /\ OwnOk(r)'
          BY <1>f, <3>1 DEF MoveOk, OwnOk
      <3> QED BY <1>a, <3>2, <3>3, OwnFrame
    <2>2. CASE p # q.id
      <3>1. PICK t : /\ Become(r, t)
                     /\ \/ t = [q EXCEPT !.pc = "read", !.at = q.id]
                        \/ t = [q EXCEPT !.at = p]
          BY <1>1, <2>2 DEF Walk
      <3>2. t.op = q.op /\ t.id = q.id /\ t.target = q.target
          BY <1>b, <3>1 DEF Active
      <3> QED BY <1>o, <2>0, <2>a, <3>1, <3>2 DEF Unfinished
    <2> QED BY <2>1, <2>2
  <1>2. CASE ReadForUpdate(r)
    <2>0. q.pc = "read" /\ q.op \notin Trashes /\ row' = row
        BY <1>2 DEF ReadForUpdate, Trashes
    <2>1. CASE Fail(r)
        BY <1>n, <2>0, <2>1
    <2>2. CASE ~Fail(r)
      <3> DEFINE t == [q EXCEPT !.pc = "write"]
      <3>1. Become(r, t) /\ UNCHANGED <<row, dirty, xlock>>
          BY <1>2, <2>2 DEF ReadForUpdate, locks
      <3>2. t.op = q.op /\ t.id = q.id /\ t.target = q.target
          BY <1>b DEF Active
      <3> HIDE DEF t
      <3> QED BY <1>o, <2>0, <3>1, <3>2 DEF Unfinished
    <2> QED BY <2>1, <2>2
  <1>3. CASE UpdateRow(r)
    <2> DEFINE old == Visible(r, q.id)
               new == [old EXCEPT !.parent = q.target]
    <2>0. q.pc = "write" /\ q.op \in Updates /\ row' = row /\ CanWrite(r, q.id)
        BY <1>3 DEF UpdateRow, Updates
    <2>a. q.op \notin Trashes /\ q.op # "create" /\ q.op \notin Discards /\ q.op # "undelete"
        BY <2>0 DEF Updates, Trashes, Discards
    <2>b. old = row[q.id]
        BY <1>c, <1>g, <2>0 DEF Visible
    <2>1. CASE Fail(r)
        BY <1>n, <2>0, <2>1
    <2>2. CASE ~Fail(r) /\ old.count # q.token
      <3> DEFINE t == [q EXCEPT !.pc = "commit"]
      <3>1. Become(r, t) /\ UNCHANGED <<row, dirty, xlock>>
          BY <1>3, <2>2 DEF UpdateRow, locks
      <3>2. t.op = q.op /\ t.id = q.id /\ t.target = q.target
          BY <1>b DEF Active
      <3> HIDE DEF t
      <3> QED BY <1>o, <2>0, <2>a, <3>1, <3>2 DEF Unfinished
    <2>3. CASE ~Fail(r) /\ old.count = q.token
      <3> DEFINE b == Bump(old, new)
                 t == [q EXCEPT !.wrote = TRUE,
                                !.pc = IF new.parent \in {Root, old.parent}
                                       THEN "commit" ELSE "key"]
      <3>1. WriteRow(r, q.id, b) /\ Become(r, t)
          BY <1>3, <2>3 DEF UpdateRow, WriteUpdate
      <3>2. b = [row[q.id] EXCEPT !.parent = q.target, !.count = @ + 1]
          BY <1>c, <1>d, <2>b DEF Bump, Row
      <3>3. t.op = q.op /\ t.id = q.id /\ t.target = q.target
          BY <1>b DEF Active
      <3> HIDE DEF t, b, new, old
      <3>4. Aside(r)
          BY <1>a, <1>c, <1>f, <2>0, <3>1, WriteAside
      <3>5. \A o \in Objects : xlock'[o] = r => o = q.id /\ dirty'[o] = b
          BY <1>a, <1>c, <1>g, <2>0, <3>1, WriteFacts
      <3>6. Written(txn'[r], q.id, row'[q.id], b)
        <4>1. txn'[r].op = q.op /\ txn'[r].target = q.target /\ row'[q.id] = row[q.id]
            BY <1>f, <2>0, <3>1, <3>3
        <4> QED BY <2>0, <2>a, <3>2, <4>1 DEF Written
      <3>7. MoveOk(r)' /\ OwnOk(r)'
        <4>1. txn'[r] = t
            BY <1>f, <3>1
        <4>2. ASSUME NEW o \in Objects, xlock'[o] = r
              PROVE  Written(txn[r], o, row[o], dirty[o])'
            BY <3>5, <3>6, <4>2
        <4> QED BY <1>e, <2>a, <3>3, <4>1, <4>2 DEF MoveOk, OwnOk
      <3> QED BY <1>a, <3>4, <3>7, OwnFrame
    <2> QED BY <2>1, <2>2, <2>3
  <1>4. CASE InsertRow(r)
    <2>0. q.pc = "write" /\ q.op = "create" /\ row' = row /\ CanWrite(r, q.id)
        BY <1>4 DEF InsertRow
    <2>1. CASE Fail(r)
        BY <1>n, <2>0, <2>1
    <2>2. CASE ~Fail(r)
      <3> DEFINE t == [q EXCEPT !.wrote = TRUE,
                                !.pc = IF q.target = Root THEN "commit" ELSE "key"]
                 b == NewRow(q.target)
      <3>1. WriteRow(r, q.id, b) /\ Become(r, t)
          BY <1>4, <2>2 DEF InsertRow
      <3>3. t.op = q.op /\ t.id = q.id /\ t.target = q.target
          BY <1>b DEF Active
      <3> HIDE DEF t
      <3>6. txn'[r] = t /\ Written(txn'[r], q.id, row'[q.id], b)
          BY <1>f, <2>0, <3>1, <3>3 DEF Written, Updates, Discards
      <3> HIDE DEF b
      <3>4. Aside(r)
          BY <1>a, <1>c, <1>f, <2>0, <3>1, WriteAside
      <3>5. \A o \in Objects : xlock'[o] = r => o = q.id /\ dirty'[o] = b
          BY <1>a, <1>c, <1>g, <2>0, <3>1, WriteFacts
      <3>7. MoveOk(r)' /\ OwnOk(r)'
        <4>2. ASSUME NEW o \in Objects, xlock'[o] = r
              PROVE  Written(txn[r], o, row[o], dirty[o])'
            BY <3>5, <3>6, <4>2
        <4> QED BY <2>0, <3>3, <3>6, <4>2 DEF MoveOk, OwnOk, Trashes
      <3> QED BY <1>a, <3>4, <3>7, OwnFrame
    <2> QED BY <2>1, <2>2
  <1>5. CASE ReferToParent(r)
    <2> DEFINE t == [q EXCEPT !.pc = "commit"]
    <2>1. q.pc = "key" /\ Become(r, t) /\ UNCHANGED <<row, dirty, xlock>>
        BY <1>5 DEF ReferToParent
    <2>2. t.op = q.op /\ t.id = q.id /\ t.target = q.target
        BY <1>b DEF Active
    <2> HIDE DEF t
    <2>3. q.op \notin Trashes
        BY <1>e, <2>1 DEF OwnOk, OrderOk, Unfinished
    <2> QED BY <1>o, <2>1, <2>2, <2>3 DEF Unfinished
  <1>6. CASE ReadForDelete(r)
    <2>0. q.pc = "read" /\ q.op \in Discards /\ row' = row /\ q.op \in Trashes
        BY <1>6 DEF ReadForDelete, Discards, Trashes
    <2>a. /\ OrderOk(r) /\ q.op # "undelete"
          /\ \A o \in Objects : xlock[o] = r => Written(q, o, row[o], dirty[o])
        BY <1>e, <2>0 DEF OwnOk, Unfinished, Discards
    <2>1. CASE Fail(r)
        BY <1>n, <2>0, <2>1
    <2>2. CASE Continue(r, q.todo, "read") /\ UNCHANGED locks
      <3>1. /\ \A p \in Reqs \ {r} : txn'[p] = txn[p]
            /\ txn'[r].op = q.op /\ txn'[r].id = q.id /\ txn'[r].wrote = TRUE
            /\ \/ q.todo = {} /\ txn'[r].pc = "commit" /\ txn'[r].todo = {}
               \/ /\ txn'[r].pc = "read"
                  /\ <<txn'[r].at, txn'[r].want>> \in q.todo
          BY <1>a, <1>b, <1>c, <2>2, ContinueFacts
      <3>2. UNCHANGED <<row, dirty, xlock>>
          BY <2>0, <2>2 DEF locks
      <3>3. OrderOk(r)'
          BY <2>0, <2>a, <3>1, <3>2 DEF OrderOk
      <3>4. ASSUME NEW o \in Objects, xlock'[o] = r PROVE Written(txn[r], o, row[o], dirty[o])'
        <4>1. Written(q, o, row[o], dirty[o])
            BY <2>a, <3>2, <3>4
        <4> QED BY <2>0, <2>a, <3>1, <3>2, <4>1 DEF Written, Updates, Trashes
      <3>5. Aside(r)
          BY <3>1, <3>2 DEF Aside
      <3>6. MoveOk(r)' /\ OwnOk(r)'
          BY <1>e, <3>1, <3>3, <3>4 DEF MoveOk, OwnOk
      <3> QED BY <1>a, <3>5, <3>6, OwnFrame
    <2>3. CASE ~Fail(r) /\ ~(Continue(r, q.todo, "read") /\ UNCHANGED locks)
      <3> DEFINE t == [q EXCEPT !.pc = "write"]
      <3>1. /\ Become(r, t) /\ UNCHANGED <<row, dirty, xlock>>
            /\ ~(IF q.op = "delete" THEN Visible(r, q.at).deleted ELSE Visible(r, q.at).expunged)
          BY <1>6, <2>3 DEF ReadForDelete, locks
      <3>2. /\ t.op = q.op /\ t.id = q.id /\ t.target = q.target /\ t.pc = "write"
            /\ t.wrote = q.wrote /\ t.at = q.at /\ t.todo = q.todo
          BY <1>b DEF Active
      <3> HIDE DEF t
      <3>3. xlock[q.at] # r
        <4> SUFFICES ASSUME xlock[q.at] = r PROVE FALSE
            OBVIOUS
        <4>1. Visible(r, q.at) = dirty[q.at] /\ Written(q, q.at, row[q.at], dirty[q.at])
            BY <1>c, <2>a DEF Visible
        <4>2. dirty[q.at].deleted /\ (q.op = "expunge" => dirty[q.at].expunged)
            BY <1>d, <2>0, <4>1 DEF Written, Row
        <4> QED BY <2>0, <3>1, <4>1, <4>2 DEF Discards
      <3>4. txn'[r] = t
          BY <1>f, <3>1
      <3>5. OrderOk(r)'
          BY <2>0, <2>a, <3>1, <3>2, <3>3, <3>4 DEF OrderOk
      <3> QED BY <1>o, <2>0, <3>1, <3>2, <3>5 DEF Unfinished
    <2> QED BY <2>1, <2>2, <2>3
  <1>7. CASE MarkDeleted(r)
    <2> DEFINE o   == q.at
               old == Visible(r, o)
               new == [old EXCEPT !.deleted = TRUE, !.ancestor = (o # q.id),
                                  !.expunged = @ \/ q.op = "expunge"]
               b   == Bump(old, new)
    <2>0. /\ q.pc = "write" /\ q.op \in Discards /\ row' = row /\ CanWrite(r, o)
          /\ q.op \in Trashes
        BY <1>7 DEF MarkDeleted, Trashes, Discards
    <2>a. /\ OrderOk(r) /\ q.op # "undelete" /\ xlock[o] # r /\ old = row[o]
          /\ \A d \in Objects : xlock[d] = r => Written(q, d, row[d], dirty[d])
      <3>1. OrderOk(r) /\ \A d \in Objects : xlock[d] = r => Written(q, d, row[d], dirty[d])
          BY <1>e, <2>0 DEF OwnOk, Unfinished
      <3>2. xlock[o] # r
          BY <2>0, <3>1 DEF OrderOk
      <3> QED BY <2>0, <3>1, <3>2 DEF Visible, Discards
    <2>1. CASE Fail(r)
        BY <1>n, <2>0, <2>1
    <2>2. CASE ~Fail(r)
      <3>1. /\ WriteRow(r, o, b)
            /\ \/ Continue(r, q.todo \cup Children(r, o), "read")
               \/ Continue(r, q.todo, "read")
          BY <1>7, <2>2 DEF MarkDeleted
      <3>2. Children(r, o) \in SUBSET (Objects \X Nat)
          BY <1>a, <1>c, ChildrenType
      <3>3. b = [row[o] EXCEPT !.deleted = TRUE, !.ancestor = (o # q.id),
                               !.expunged = @ \/ q.op = "expunge", !.count = @ + 1]
          BY <1>d, <2>a DEF Bump, Row
      <3> HIDE DEF b, new, old
      <3>4. PICK todo \in SUBSET (Objects \X Nat) : Continue(r, todo, "read")
          BY <1>c, <3>1, <3>2
      <3>5. /\ \A p \in Reqs \ {r} : txn'[p] = txn[p]
            /\ txn'[r].op = q.op /\ txn'[r].id = q.id /\ txn'[r].wrote = TRUE
            /\ \/ txn'[r].pc = "commit" /\ txn'[r].todo = {}
               \/ txn'[r].pc = "read"
          BY <1>a, <1>b, <3>4, ContinueFacts
      <3>6. /\ \A d \in Objects \ {o} : xlock'[d] = xlock[d] /\ dirty'[d] = dirty[d]
            /\ xlock'[o] = r /\ dirty'[o] = b
          BY <1>a, <1>c, <2>0, <3>1, WriteFacts
      <3>7. xlock'[q.id] = r
          BY <1>c, <2>0, <2>a, <3>6 DEF OrderOk
      <3>8. OrderOk(r)'
          BY <2>0, <2>a, <3>5, <3>7 DEF OrderOk
      <3>9. ASSUME NEW d \in Objects, xlock'[d] = r PROVE Written(txn[r], d, row[d], dirty[d])'
        <4>1. CASE d = o
            BY <2>0, <2>a, <3>3, <3>5, <3>6, <4>1 DEF Written, Updates, Discards
        <4>2. CASE d # o
          <5>1. Written(q, d, row[d], dirty[d]) /\ dirty'[d] = dirty[d] /\ row'[d] = row[d]
              BY <2>0, <2>a, <3>6, <3>9, <4>2
          <5> QED BY <2>0, <3>5, <5>1 DEF Written, Updates, Discards
        <4> QED BY <4>1, <4>2
      <3>10. Aside(r)
          BY <1>a, <1>c, <2>0, <3>1, <3>5, WriteAside
      <3>11. MoveOk(r)' /\ OwnOk(r)'
          BY <1>e, <3>5, <3>8, <3>9 DEF MoveOk, OwnOk
      <3> QED BY <1>a, <3>10, <3>11, OwnFrame
    <2> QED BY <2>1, <2>2
  <1>8. CASE MarkUndeleted(r)
    <2> DEFINE o    == q.at
               old  == Visible(r, o)
               skip == q.wrote /\ old.expunged
               new  == [old EXCEPT !.deleted = FALSE, !.ancestor = @ /\ ~q.wrote]
               b    == Bump(old, new)
               todo == q.todo \cup AncestorChildren(r, o)
    <2>0. /\ q.pc = "write" /\ q.op = "undelete" /\ row' = row /\ CanWrite(r, o)
          /\ q.op \in Trashes /\ q.op \notin Discards /\ q.op \notin Updates /\ q.op # "create"
        BY <1>8 DEF MarkUndeleted, Trashes, Discards, Updates
    <2>a. /\ OrderOk(r) /\ q.wrote \in BOOLEAN
          /\ \A d \in Objects : xlock[d] = r => Written(q, d, row[d], dirty[d])
        BY <1>b, <1>e, <2>0 DEF OwnOk, Unfinished, Active
    <2>b. o \in Pending(q) /\ \A x \in q.todo : x[1] \in Pending(q)
        BY <2>0 DEF Pending
    <2>1. CASE Fail(r)
        BY <1>n, <2>0, <2>1
    <2>2. CASE ~Fail(r)
      <3>1. /\ IF skip THEN UNCHANGED <<dirty, xlock>> ELSE WriteRow(r, o, b)
            /\ Continue(r, todo, "write")
          BY <1>8, <2>2 DEF MarkUndeleted
      <3>2. todo \in SUBSET (Objects \X Nat)
          BY <1>a, <1>c, ChildrenType
      <3>3. /\ \A p \in Reqs \ {r} : txn'[p] = txn[p]
            /\ txn'[r].op = q.op /\ txn'[r].id = q.id /\ txn'[r].wrote = TRUE
            /\ \/ txn'[r].pc = "commit" /\ txn'[r].todo = {}
               \/ /\ txn'[r].pc = "write"
                  /\ <<txn'[r].at, txn'[r].want>> \in todo
                  /\ txn'[r].todo = todo \ {<<txn'[r].at, txn'[r].want>>}
            /\ Pending(txn'[r]) = {x[1] : x \in todo}
        <4> HIDE DEF todo
        <4> QED BY <1>a, <1>b, <3>1, <3>2, ContinueFacts
      (* What is found below is not locked, or is the object named. *)
      <3>4. ASSUME NEW x \in AncestorChildren(r, o)
            PROVE  /\ x[2] = 0 /\ x[1] # o /\ x[1] \in Objects
                   /\ xlock[x[1]] = r => x[1] = q.id /\ dirty[x[1]].ancestor
        <4>1. PICK d \in Objects : d # o /\ Visible(r, d).ancestor /\ x = <<d, 0>>
            BY DEF AncestorChildren
        <4>2. ASSUME xlock[d] = r PROVE d = q.id /\ dirty[d].ancestor
          <5>1. Written(q, d, row[d], dirty[d]) /\ dirty[d].ancestor
              BY <2>a, <4>1, <4>2 DEF Visible
          <5>2. row[d] \in Row
              BY <1>a DEF TypeOK
          <5> QED BY <2>0, <5>1, <5>2 DEF Written, Row
        <4> QED BY <4>1, <4>2
      <3>5. ASSUME NEW x \in todo
            PROVE  /\ x[2] = 0 /\ x[1] # o /\ x[1] \in Objects
                   /\ xlock[x[1]] = r => x[1] = q.id /\ dirty[x[1]].ancestor
        <4>1. CASE x \in q.todo
            BY <1>c, <2>0, <2>a, <2>b, <4>1 DEF OrderOk
        <4> QED BY <3>4, <4>1
      (* The row is marked once more, or not at all. *)
      <3>6. /\ \A d \in Objects \ {o} : xlock'[d] = xlock[d] /\ dirty'[d] = dirty[d]
            /\ xlock'[o] = r => Written(txn'[r], o, row'[o], dirty'[o])
            /\ ~q.wrote => xlock'[o] = r
            /\ xlock[o] = r => xlock'[o] = r
            /\ Aside(r)
        <4>1. CASE skip
          <5>1. dirty' = dirty /\ xlock' = xlock
              BY <3>1, <4>1
          <5>2. Aside(r)
              BY <2>0, <3>3, <5>1 DEF Aside
          <5>3. xlock[o] = r => Written(q, o, row[o], dirty[o])
              BY <1>c, <2>a
          <5>4. xlock'[o] = r => Written(txn'[r], o, row'[o], dirty'[o])
              BY <2>0, <3>3, <5>1, <5>3 DEF Written
          <5> QED BY <4>1, <5>1, <5>2, <5>4
        <4>2. CASE ~skip
          <5>1. WriteRow(r, o, b)
              BY <3>1, <4>2
          <5>2. /\ \A d \in Objects \ {o} : xlock'[d] = xlock[d] /\ dirty'[d] = dirty[d]
                /\ xlock'[o] = r /\ dirty'[o] = b
            <6> HIDE DEF b
            <6> QED BY <1>a, <1>c, <2>0, <5>1, WriteFacts
          <5>3. Aside(r)
            <6> HIDE DEF b
            <6> QED BY <1>a, <1>c, <2>0, <3>3, <5>1, WriteAside
          <5>4. CASE xlock[o] # r
            <6>1. old = row[o]
                BY <5>4 DEF Visible
            <6>2. q.wrote = (o # q.id)
                BY <2>0, <2>a, <5>4 DEF OrderOk
            <6>3. b = [row[o] EXCEPT !.deleted = FALSE, !.ancestor = @ /\ o = q.id /\ ~FALSE,
                                     !.count = @ + (IF FALSE THEN 2 ELSE 1)]
                BY <1>d, <6>1, <6>2 DEF Bump, Row
            <6>4. o # q.id => ~row[o].expunged
                BY <4>2, <6>1, <6>2
            <6> HIDE DEF b
            <6>5. Written(txn'[r], o, row'[o], b)
                BY <2>0, <3>3, <6>3, <6>4 DEF Written
            <6> QED BY <5>2, <5>3, <6>5
          <5>5. CASE xlock[o] = r
            <6>1. old = dirty[o] /\ q.wrote /\ o = q.id /\ dirty[o].ancestor
                BY <1>c, <2>a, <2>b, <2>0, <5>5 DEF Visible, OrderOk
            <6>2. Written(q, o, row[o], dirty[o])
                BY <1>c, <2>a, <5>5
            <6>3. PICK again \in BOOLEAN :
                    dirty[o] = [row[o] EXCEPT !.deleted = FALSE,
                                  !.ancestor = @ /\ o = q.id /\ ~again,
                                  !.count = @ + (IF again THEN 2 ELSE 1)]
                BY <2>0, <6>2 DEF Written
            <6>4. again = FALSE
                BY <1>d, <6>1, <6>3 DEF Row
            <6>5. b = [row[o] EXCEPT !.deleted = FALSE, !.ancestor = @ /\ o = q.id /\ ~TRUE,
                                     !.count = @ + (IF TRUE THEN 2 ELSE 1)]
              <7>1. dirty[o] = [row[o] EXCEPT !.deleted = FALSE, !.count = @ + 1]
                  BY <1>d, <6>1, <6>3, <6>4 DEF Row
              <7>2. b = [dirty[o] EXCEPT !.ancestor = FALSE, !.count = dirty[o].count + 1]
                  BY <1>d, <6>1, <7>1 DEF Bump, Row
              <7>3. dirty[o].count + 1 = row[o].count + 2
                  BY <1>d, <7>1 DEF Row
              <7> HIDE DEF b
              <7>4. b = [row[o] EXCEPT !.deleted = FALSE, !.ancestor = FALSE,
                                       !.count = row[o].count + 2]
                  BY <1>d, <7>1, <7>2, <7>3 DEF Row
              <7> QED BY <1>d, <7>4 DEF Row
            <6> HIDE DEF b
            <6>6. Written(txn'[r], o, row'[o], b)
                BY <2>0, <3>3, <6>1, <6>5 DEF Written
            <6> QED BY <5>2, <5>3, <6>6
          <5> QED BY <5>4, <5>5
        <4> QED BY <4>1, <4>2
      <3> HIDE DEF todo, b, new, old, skip
      <3>7. xlock'[q.id] = r
          BY <1>c, <2>0, <2>a, <3>6 DEF OrderOk
      <3>8. OrderOk(r)'
        <4>1. \A d \in Pending(txn'[r]) : xlock'[d] = r => d = q.id /\ dirty'[d].ancestor
            BY <3>3, <3>5, <3>6
        <4>2. \A x \in txn'[r].todo : x[2] = 0 /\ (txn'[r].pc = "write" => x[1] # txn'[r].at)
          <5> SUFFICES ASSUME NEW x \in txn'[r].todo
                       PROVE  x[2] = 0 /\ (txn'[r].pc = "write" => x[1] # txn'[r].at)
              OBVIOUS
          <5>1. x \in todo /\ x[2] = 0 /\ txn'[r].pc # "commit"
              BY <3>3, <3>5
          <5>2. <<txn'[r].at, txn'[r].want>> \in todo /\ x # <<txn'[r].at, txn'[r].want>>
              BY <3>3, <5>1
          <5>3. txn'[r].want = 0
              BY <3>5, <5>2
          <5>4. x = <<x[1], x[2]>>
              BY <3>2, <5>1
          <5> QED BY <5>1, <5>2, <5>3, <5>4
        <4>3. txn'[r].op \notin Discards
            BY <2>0, <3>3
        <4> QED BY <3>3, <3>7, <4>1, <4>2, <4>3 DEF OrderOk
      <3>9. ASSUME NEW d \in Objects, xlock'[d] = r PROVE Written(txn[r], d, row[d], dirty[d])'
        <4>1. CASE d = o
            BY <3>6, <3>9, <4>1
        <4>2. CASE d # o
          <5>1. Written(q, d, row[d], dirty[d]) /\ dirty'[d] = dirty[d] /\ row'[d] = row[d]
              BY <2>0, <2>a, <3>6, <3>9, <4>2
          <5> QED BY <2>0, <3>3, <5>1 DEF Written
        <4> QED BY <4>1, <4>2
      <3>10. MoveOk(r)' /\ OwnOk(r)'
          BY <1>e, <3>3, <3>8, <3>9 DEF MoveOk, OwnOk
      <3> QED BY <1>a, <3>6, <3>10, OwnFrame
    <2> QED BY <2>1, <2>2
  <1>9. CASE Commit(r)
    <2> DEFINE t == [q EXCEPT !.pc = "ok"]
    <2>1. Become(r, t) /\ t.pc = "ok" /\ t.op = q.op
        BY <1>9, <1>b DEF Commit, Active
    <2> HIDE DEF t
    <2>2. Aside(r)
        BY <1>9, <1>f, <2>1, StoreAssumption DEF Commit, Release, Aside
    <2>3. MoveOk(r)' /\ OwnOk(r)'
        BY <1>e, <1>f, <2>1 DEF MoveOk, OwnOk, Unfinished
    <2> QED BY <1>a, <2>2, <2>3, OwnFrame
  <1>10. CASE CommitFails(r)
    <2> DEFINE t == [q EXCEPT !.pc = "ok", !.wrote = FALSE]
    <2>1. t.pc = "ok" /\ t.op = q.op
        BY <1>b DEF Active
    <2>2. CASE q.op = "create"
        BY <1>10, <1>n, <2>2 DEF CommitFails, Fail
    <2>3. CASE q.op # "create"
      <3>1. Release(r) /\ Become(r, t) /\ row' = row
          BY <1>10, <2>3 DEF CommitFails
      <3> HIDE DEF t
      <3> QED BY <1>m, <2>1, <3>1 DEF Unfinished
    <2> QED BY <2>2, <2>3
  <1>11. CASE LockFails(r)
    <2>0. Release(r) /\ row' = row
        BY <1>11 DEF LockFails
    <2>1. CASE Become(r, Idle)
        BY <1>n, <2>0, <2>1 DEF Fail
    <2>2. CASE ~Become(r, Idle)
      <3> DEFINE t == [q EXCEPT !.tries = @ - 1, !.wrote = FALSE,
                                !.pc = IF q.op = "create" THEN "write" ELSE "read"]
      <3>1. Become(r, t) /\ q.op \notin Trashes
          BY <1>11, <2>2 DEF LockFails, Trashes
      <3>2. t.op = q.op
          BY <1>b DEF Active
      <3> HIDE DEF t
      <3> QED BY <1>m, <2>0, <3>1, <3>2
    <2> QED BY <2>1, <2>2
  <1>12. CASE Answer(r)
    <2>1. Become(r, Idle) /\ UNCHANGED <<row, dirty, xlock>>
        BY <1>12 DEF Answer, locks
    <2>2. Idle.pc \notin Unfinished /\ Idle.op = "none"
        BY DEF Idle, Unfinished
    <2>3. Aside(r) /\ MoveOk(r)' /\ OwnOk(r)'
        BY <1>f, <2>1, <2>2 DEF Aside, MoveOk, OwnOk
    <2> QED BY <1>a, <2>3, OwnFrame
  <1> QED BY <1>1, <1>2, <1>3, <1>4, <1>5, <1>6, <1>7, <1>8, <1>9, <1>10, <1>11, <1>12
          DEF Step

LEMMA WorkNext == Safe /\ WorkOk /\ [Next]_vars => WorkOk'
  <1> SUFFICES ASSUME Safe, WorkOk, [Next]_vars PROVE WorkOk'
      OBVIOUS
  <1>1. ASSUME NEW r \in Reqs, Begin(r) \/ Step(r) PROVE WorkOk'
      BY <1>1, WorkBegin, WorkStep DEF Safe, TypeInv
  <1>2. CASE UNCHANGED vars
    <2>1. row' = row /\ dirty' = dirty /\ xlock' = xlock /\ txn' = txn
        BY <1>2 DEF vars, locks
    <2>2. ASSUME NEW r \in Reqs PROVE MoveOk(r)' /\ OwnOk(r)'
      <3>1. MoveOk(r) /\ OwnOk(r)
          BY DEF WorkOk
      <3>2. OrderOk(r) <=> OrderOk(r)'
          BY <2>1 DEF OrderOk, Pending
      <3>3. ASSUME NEW o \in Objects
            PROVE  Written(txn[r], o, row[o], dirty[o]) <=> Written(txn[r], o, row[o], dirty[o])'
          BY <2>1 DEF Written
      <3> QED BY <2>1, <3>1, <3>2, <3>3 DEF MoveOk, OwnOk
    <2> QED BY <2>2 DEF WorkOk
  <1> QED BY <1>1, <1>2 DEF Next
--------------------------------------------------------------------------------
(* The store implements Revisions *)

(* Only a commit changes the rows. *)
LEMMA RowsChange ==
  ASSUME NEW r \in Reqs, Begin(r) \/ Step(r), ~Commit(r)
  PROVE  row' = row
  BY DEF Begin, BeginCreate, BeginMove, BeginUpdate, BeginDelete, BeginExpunge,
     BeginUndelete, Start, Step, Walk, ReadForUpdate, UpdateRow, InsertRow,
     ReferToParent, ReadForDelete, MarkDeleted, MarkUndeleted, CommitFails, LockFails, Answer

LEMMA CommitFacts ==
  ASSUME Safe, WorkOk, NEW r \in Reqs, Commit(r)
  PROVE  /\ TypeOK /\ txn[r] \in Active /\ txn[r].pc = "commit"
         /\ \A o \in Objects :
              /\ xlock[o] = r => /\ row'[o] = dirty[o] /\ Written(txn[r], o, row[o], dirty[o])
                                 /\ row'[o] # row[o] /\ LockOk(o)
              /\ xlock[o] # r => row'[o] = row[o]
         /\ txn[r].op \in Trashes => OrderOk(r)
         /\ row' \in [Objects -> Row]
  <1>1. TypeOK /\ StoreInv /\ txn[r].pc = "commit"
      BY DEF Safe, TypeInv, Commit
  <1>2. txn[r] \in Active
      BY <1>1 DEF TypeOK, Idle
  <1>3. OwnOk(r) /\ txn[r].pc \in Unfinished
      BY <1>1 DEF WorkOk, Unfinished
  <1>4. \A o \in Objects : row'[o] = IF xlock[o] = r THEN dirty[o] ELSE row[o]
      BY DEF Commit
  <1>5. row' \in [Objects -> Row]
      BY <1>1 DEF Commit, TypeOK
  <1>6. ASSUME NEW o \in Objects, xlock[o] = r PROVE dirty[o] # row[o] /\ LockOk(o)
    <2>1. LockOk(o) /\ xlock[o] # NoReq
        BY <1>1, <1>6, StoreAssumption DEF StoreInv
    <2>2. row[o].count \in Nat /\ dirty[o].count \in Nat
        BY <1>1 DEF TypeOK, Row
    <2> QED BY <2>1, <2>2 DEF LockOk
  <1> QED BY <1>1, <1>2, <1>3, <1>4, <1>5, <1>6 DEF OwnOk

LEMMA CommitRefines ==
  ASSUME Safe, WorkOk, NEW r \in Reqs, Commit(r)
  PROVE  Promise!Next \/ row' = row
  <1> DEFINE q == txn[r]
  <1>0. TypeOK /\ q \in Active /\ q.pc = "commit" /\ row' \in [Objects -> Row]
      BY CommitFacts
  <1>1. \A o \in Objects :
          /\ xlock[o] = r => /\ row'[o] = dirty[o] /\ Written(q, o, row[o], dirty[o])
                             /\ row'[o] # row[o] /\ LockOk(o)
          /\ xlock[o] # r => row'[o] = row[o]
      BY CommitFacts
  <1>2. row \in [Objects -> Row] /\ q.id \in Objects /\ q.target \in Objects \cup {Root}
      BY <1>0 DEF TypeOK, Active
  <1>3. r # NoReq
      BY StoreAssumption
  <1>4. CASE \A o \in Objects : xlock[o] # r
      BY <1>0, <1>1, <1>2, <1>4
  <1>5. CASE q.op \in Updates /\ \E o \in Objects : xlock[o] = r
    <2>1. /\ \A o \in Objects : xlock[o] = r => o = q.id
          /\ xlock[q.id] = r /\ q.wrote
        BY <1>1, <1>3, <1>5 DEF LockOk
    <2>2. row[q.id].exists /\ ~row[q.id].deleted
        BY <1>0, <1>5, <2>1 DEF Safe, StoreInv, TokenOk, Unfinished
    <2>3. row'[q.id] = [row[q.id] EXCEPT !.parent = q.target, !.count = @ + 1]
      <3>1. Written(q, q.id, row[q.id], row'[q.id])
          BY <1>1, <1>2, <2>1
      <3> QED BY <1>5, <3>1 DEF Written
    <2>4. row' = [row EXCEPT ![q.id] = [row[q.id] EXCEPT !.parent = q.target, !.count = @ + 1]]
      <3> DEFINE b == [row[q.id] EXCEPT !.parent = q.target, !.count = @ + 1]
      <3>1. row'[q.id] = b
          BY <2>3
      <3> HIDE DEF b
      <3>2. row' = [row EXCEPT ![q.id] = b]
          BY <1>0, <1>1, <1>2, <2>1, <3>1
      <3> QED BY <3>2 DEF b
    <2>5. Promise!Revise
        BY <1>2, <2>2, <2>4 DEF Promise!Revise
    <2> QED BY <2>5 DEF Promise!Next
  <1>6. CASE q.op = "create" /\ \E o \in Objects : xlock[o] = r
    <2>1. /\ \A o \in Objects : xlock[o] = r => o = q.id
          /\ xlock[q.id] = r
        BY <1>1, <1>3, <1>6 DEF LockOk
    <2>2. ~row[q.id].exists
        BY <1>0, <1>6 DEF Safe, StoreInv, CreateOk, Unfinished
    <2>3. row'[q.id] = NewRow(q.target)
        BY <1>1, <1>2, <1>6, <2>1 DEF Written
    <2>4. row' = [row EXCEPT ![q.id] = NewRow(q.target)]
        BY <1>0, <1>1, <1>2, <2>1, <2>3
    <2>5. Promise!Create
        BY <1>2, <2>2, <2>4 DEF Promise!Create, Promise!NoObject, NewRow, NoRow
    <2> QED BY <2>5 DEF Promise!Next
  <1>7. CASE q.op \in Trashes /\ \E o \in Objects : xlock[o] = r
    <2>1. Promise!Changed = {o \in Objects : xlock[o] = r}
        BY <1>1 DEF Promise!Changed
    <2>2. q.id \in Promise!Changed
        BY <1>2, <1>7, <2>1, CommitFacts DEF OrderOk
    <2>3. \A o \in Promise!Changed : row[o].exists
        BY <1>1, <1>3, <1>7, <2>1 DEF LockOk, Trashes
    <2>4. CASE q.op \in Discards
      <3> DEFINE forever == q.op = "expunge"
                 new(o) == [row[o] EXCEPT !.deleted = TRUE, !.ancestor = (o # q.id),
                                          !.expunged = @ \/ forever, !.count = @ + 1]
      <3>1. \A o \in Promise!Changed : row'[o] = new(o)
        <4> SUFFICES ASSUME NEW o \in Promise!Changed PROVE row'[o] = new(o)
            OBVIOUS
        <4>1. Written(q, o, row[o], row'[o])
            BY <1>1, <2>1
        <4> QED BY <2>4, <4>1 DEF Written
      <3>2. \A o \in Objects : row'[o] = IF o \notin Promise!Changed THEN row[o] ELSE new(o)
          BY <1>1, <2>1, <3>1
      <3>3. row' = [o \in Objects |-> IF o \notin Promise!Changed THEN row[o] ELSE new(o)]
        <4> HIDE DEF new
        <4> QED BY <1>0, <3>2
      <3>4. Promise!Discard
          BY <1>2, <2>2, <2>3, <3>3 DEF Promise!Discard
      <3> QED BY <3>4 DEF Promise!Next
    <2>5. CASE q.op = "undelete"
      <3>1. PICK again \in BOOLEAN :
              row'[q.id] = [row[q.id] EXCEPT !.deleted = FALSE,
                              !.ancestor = @ /\ q.id = q.id /\ ~again,
                              !.count = @ + (IF again THEN 2 ELSE 1)]
          BY <1>1, <1>2, <2>1, <2>2, <2>5 DEF Written
      <3> DEFINE new(o) == [row[o] EXCEPT !.deleted = FALSE,
                              !.ancestor = @ /\ o = q.id /\ ~again,
                              !.count = @ + (IF o = q.id /\ again THEN 2 ELSE 1)]
      <3>2. ASSUME NEW o \in Promise!Changed PROVE row'[o] = new(o)
        <4>1. CASE o = q.id
            BY <1>2, <3>1, <4>1
        <4>2. CASE o # q.id
            BY <1>1, <2>1, <2>5, <3>2, <4>2 DEF Written
        <4> QED BY <4>1, <4>2
      <3>3. row' = [o \in Objects |-> IF o \notin Promise!Changed THEN row[o] ELSE new(o)]
        <4>1. \A o \in Objects : row'[o] = IF o \notin Promise!Changed THEN row[o] ELSE new(o)
            BY <1>1, <2>1, <3>2
        <4> HIDE DEF new
        <4> QED BY <1>0, <4>1
      <3>4. \A o \in Promise!Changed \ {q.id} : ~row[o].expunged
          BY <1>1, <2>1, <2>5 DEF Written
      <3>5. Promise!Restore
          BY <1>2, <2>2, <2>3, <3>3, <3>4 DEF Promise!Restore
      <3> QED BY <3>5 DEF Promise!Next
    <2> QED BY <1>7, <2>4, <2>5 DEF Trashes, Discards
  <1>8. q.op \in Updates \/ q.op = "create" \/ q.op \in Trashes
      BY <1>0 DEF Active, AllOps, Updates, Trashes
  <1> QED BY <1>4, <1>5, <1>6, <1>7, <1>8

(***************************************************************************)
(* The requests of package dao, with their separate reads, row locks,      *)
(* waits, retries, rollbacks and lost commits, change the rows only as     *)
(* Revisions lets one request do in one step, however many run at a time.  *)
(***************************************************************************)
THEOREM StoreImplementsRevisions == Spec => RevisionsAtomic
  <1>1. Init => Safe /\ WorkOk
      BY TypeInit, StoreInit, WorkInit DEF Safe
  <1>2. Safe /\ WorkOk /\ [Next]_vars => Safe' /\ WorkOk'
      BY SafeNext, WorkNext
  <1>3. Init => Promise!Init
    <2> SUFFICES ASSUME Init, NEW o \in Objects PROVE row[o].count = 0 /\ ~row[o].deleted
        BY DEF Promise!Init
    <2>1. PICK parent \in [Existing -> Existing \cup {Root}] :
            row = [d \in Objects |-> IF d \in Existing THEN NewRow(parent[d]) ELSE NoRow]
        BY DEF Init
    <2>2. CASE o \in Existing
      <3>1. row[o] = NewRow(parent[o])
          BY <2>1, <2>2
      <3> QED BY <3>1 DEF NewRow, NoRow
    <2>3. CASE o \notin Existing
      <3>1. row[o] = NoRow
          BY <2>1, <2>3
      <3> QED BY <3>1 DEF NoRow
    <2> QED BY <2>2, <2>3
  <1>4. Safe /\ WorkOk /\ [Next]_vars => [Promise!Next]_row
    <2> SUFFICES ASSUME Safe, WorkOk, [Next]_vars PROVE Promise!Next \/ row' = row
        OBVIOUS
    <2>1. CASE UNCHANGED vars
        BY <2>1 DEF vars
    <2>2. CASE Next
        BY <2>2, RowsChange, CommitRefines DEF Next
    <2> QED BY <2>1, <2>2
  <1> QED BY <1>1, <1>2, <1>3, <1>4, PTL DEF Spec, RevisionsAtomic, Promise!Spec
--------------------------------------------------------------------------------
(* One mover at a time makes no cycle *)

LEMMA TreeInit == Init => TreeOk
  <1> SUFFICES ASSUME Init PROVE TreeOk
      OBVIOUS
  <1>1. PICK parent \in [Existing -> Existing \cup {Root}] :
          /\ Forest(Existing, parent)
          /\ row = [d \in Objects |-> IF d \in Existing THEN NewRow(parent[d]) ELSE NoRow]
      BY DEF Init
  <1>2. \A o \in Objects : /\ o \in Existing => row[o] = NewRow(parent[o])
                           /\ o \notin Existing => row[o] = NoRow
      BY <1>1
  <1>3. \A p : NewRow(p).exists = TRUE /\ NewRow(p).parent = p
      BY DEF NewRow, NoRow
  <1>4. NoRow.exists = FALSE /\ NoRow.parent = Root
      BY DEF NoRow
  <1>5. Existing \subseteq Objects
      BY StoreAssumption
  <1>6. {o \in Objects : row[o].exists} = Existing
      BY <1>2, <1>3, <1>4, <1>5
  <1>7. ASSUME NEW o \in Objects PROVE ParentOk(o)
    <2>1. CASE o \in Existing
      <3>1. row[o].exists /\ row[o].parent \in Existing \cup {Root}
          BY <1>2, <1>3, <2>1
      <3> QED BY <1>6, <3>1 DEF ParentOk
    <2>2. CASE o \notin Existing
        BY <1>2, <1>4, <2>2 DEF ParentOk
    <2> QED BY <2>1, <2>2
  <1>8. Acyclic
    <2> SUFFICES ASSUME NEW S \in (SUBSET Existing) \ {{}}
                 PROVE  \E o \in S : [d \in Objects |-> row[d].parent][o] \notin S
        BY <1>6 DEF Acyclic, Forest
    <2>1. PICK o \in S : parent[o] \notin S
        BY <1>1 DEF Forest
    <2>2. o \in Objects /\ row[o].parent = parent[o]
        BY <1>2, <1>3, <1>5
    <2> QED BY <2>1, <2>2
  <1>9. \A r \in Reqs : TargetOk(r) /\ WalkOk(r)
      BY DEF Init, TargetOk, WalkOk, Idle, Unfinished
  <1> QED BY <1>7, <1>8, <1>9 DEF TreeOk

(* A step of r that commits nothing. *)
LEMMA TreeFrame ==
  ASSUME TreeOk, NEW r \in Reqs, row' = row, \A q \in Reqs \ {r} : txn'[q] = txn[q],
         TargetOk(r)', WalkOk(r)'
  PROVE  TreeOk'
  <1>1. ASSUME NEW q \in Reqs \ {r} PROVE TargetOk(q)' /\ WalkOk(q)'
    <2>1. TargetOk(q) /\ WalkOk(q) /\ txn'[q] = txn[q]
        BY DEF TreeOk
    <2>2. TargetOk(q)'
        BY <2>1 DEF TargetOk
    <2>3. \A W : Met(txn[q], W) => Met(txn[q], W)'
        BY <2>1 DEF Met
    <2>4. WalkOk(q)'
        BY <2>1, <2>3 DEF WalkOk
    <2> QED BY <2>2, <2>4
  <1>2. \A o \in Objects : ParentOk(o) => ParentOk(o)'
      BY DEF ParentOk
  <1>3. Acyclic => Acyclic'
      BY DEF Acyclic, Forest
  <1> QED BY <1>1, <1>2, <1>3 DEF TreeOk

LEMMA TreeSame ==
  ASSUME TypeOK, TreeOk, NEW r \in Reqs, row' = row, \A q \in Reqs \ {r} : txn'[q] = txn[q],
         \/ txn'[r].pc \notin Unfinished
         \/ txn'[r].op \in Trashes
         \/ /\ txn'[r].op = txn[r].op /\ txn'[r].id = txn[r].id
            /\ txn'[r].target = txn[r].target /\ txn'[r].token = txn[r].token
            /\ txn[r].pc \in Unfinished \ {"walk"} /\ txn'[r].pc # "walk"
  PROVE  TreeOk'
  <1>1. TargetOk(r) /\ WalkOk(r)
      BY DEF TreeOk
  <1>2. CASE txn'[r].pc \notin Unfinished \/ txn'[r].op \in Trashes
    <2>1. TargetOk(r)' /\ WalkOk(r)'
        BY <1>2 DEF TargetOk, WalkOk, Trashes, Updates
    <2> QED BY <2>1, TreeFrame
  <1>3. CASE /\ txn'[r].op = txn[r].op /\ txn'[r].id = txn[r].id
             /\ txn'[r].target = txn[r].target /\ txn'[r].token = txn[r].token
             /\ txn[r].pc \in Unfinished \ {"walk"} /\ txn'[r].pc # "walk"
    <2>1. TargetOk(r)'
        BY <1>1, <1>3 DEF TargetOk
    <2>2. \A W : Met(txn[r], W) => Met(txn[r], W)'
        BY <1>3 DEF Met
    <2>3. WalkOk(r)'
        BY <1>1, <1>3, <2>2 DEF WalkOk
    <2> QED BY <2>1, <2>3, TreeFrame
  <1> QED BY <1>2, <1>3

LEMMA TreeStart ==
  ASSUME TypeOK, TreeOk, NEW r \in Reqs, NEW op \in AllOps, NEW o \in Objects,
         NEW p \in Objects \cup {Root}, NEW pc \in {"walk", "read", "write"},
         Start(r, op, o, p, pc),
         p = Root \/ row[p].exists,
         op = "update" => p = row[o].parent,
         op = "move" /\ p # Root => pc = "walk" /\ p # o
  PROVE  TreeOk'
  <1>1. /\ txn'[r].op = op /\ txn'[r].id = o /\ txn'[r].pc = pc /\ txn'[r].target = p
        /\ pc = "walk" => txn'[r].at = p
        /\ \A q \in Reqs \ {r} : txn'[q] = txn[q]
        /\ row' = row
      BY DEF Start, Become, TypeOK
  <1>2. TargetOk(r)'
      BY <1>1 DEF TargetOk
  <1>4. WalkOk(r)'
    <2> SUFFICES ASSUME op = "move", p # Root PROVE WalkOk(r)'
        BY <1>1 DEF WalkOk
    <2>1. Met(txn[r], {})'
        BY <1>1, StoreAssumption DEF Met
    <2> QED BY <2>1 DEF WalkOk
  <1> QED BY <1>1, <1>2, <1>4, TreeFrame

LEMMA TreeBegin ==
  ASSUME TypeOK, TreeOk, NEW r \in Reqs, Begin(r)
  PROVE  TreeOk'
  <1> USE DEF AllOps
  <1>1. PICK o \in Objects :
          \/ \E p \in Objects \cup {Root} : BeginCreate(r, o, p) \/ BeginMove(r, o, p)
          \/ BeginUpdate(r, o) \/ BeginDelete(r, o) \/ BeginExpunge(r, o)
          \/ BeginUndelete(r, o)
      BY DEF Begin
  <1>2. ASSUME NEW p \in Objects \cup {Root}, BeginCreate(r, o, p) PROVE TreeOk'
      BY <1>2, TreeStart DEF BeginCreate
  <1>3. ASSUME NEW p \in Objects \cup {Root}, BeginMove(r, o, p) PROVE TreeOk'
    <2>1. CASE p = Root
        BY <1>3, <2>1, TreeStart DEF BeginMove
    <2>2. CASE p # Root
        BY <1>3, <2>2, TreeStart DEF BeginMove
    <2> QED BY <2>1, <2>2
  <1>4. CASE BeginUpdate(r, o)
    <2>1. row[o].parent \in Objects \cup {Root} /\ ParentOk(o)
        BY DEF TypeOK, Row, TreeOk
    <2> QED BY <1>4, <2>1, TreeStart DEF BeginUpdate, ParentOk
  <1>5. CASE BeginDelete(r, o)
      BY <1>5, TreeStart DEF BeginDelete
  <1>6. CASE BeginExpunge(r, o)
      BY <1>6, TreeStart DEF BeginExpunge
  <1>7. CASE BeginUndelete(r, o)
      BY <1>7, TreeStart DEF BeginUndelete
  <1> QED BY <1>1, <1>2, <1>3, <1>4, <1>5, <1>6, <1>7

(***************************************************************************)
(* What a commit does to the tree: it may give one object another parent,  *)
(* if it is a move, or add one, if it is a create.                         *)
(***************************************************************************)
LEMMA CommitTree ==
  ASSUME Safe, WorkOk, TreeOk, NEW r \in Reqs, Commit(r), NEW o \in Objects
  PROVE  /\ row[o].exists =>
              /\ row'[o].exists /\ row'[o].count >= row[o].count
              /\ row'[o].count = row[o].count => row'[o] = row[o]
              /\ \/ row'[o].parent = row[o].parent
                 \/ /\ txn[r].op = "move" /\ o = txn[r].id
                    /\ row'[o].parent = txn[r].target
         /\ ~row[o].exists =>
              \/ row'[o] = row[o]
              \/ txn[r].op = "create" /\ o = txn[r].id /\ row'[o] = NewRow(txn[r].target)
  <1> DEFINE q == txn[r]
  <1>0. TypeOK /\ q \in Active /\ q.pc = "commit"
      BY CommitFacts
  <1>1. CASE xlock[o] # r
    <2>1. row'[o] = row[o] /\ row[o].count \in Nat
        BY <1>0, <1>1, CommitFacts DEF TypeOK, Row
    <2> QED BY <2>1
  <1>2. CASE xlock[o] = r
    <2>1. row'[o] = dirty[o] /\ Written(q, o, row[o], dirty[o]) /\ LockOk(o) /\ r # NoReq
        BY <1>2, CommitFacts, StoreAssumption
    <2>2. row[o] \in Row /\ dirty[o] \in Row
        BY <1>0 DEF TypeOK
    <2>3. row[o].count \in Nat /\ dirty[o].count \in Nat
        BY <2>2 DEF Row
    <2>4. ASSUME row[o].exists
          PROVE  row'[o].exists /\ row'[o].count > row[o].count
        BY <1>2, <2>1, <2>4 DEF LockOk
    <2>5. ASSUME ~row[o].exists
          PROVE  q.op = "create" /\ o = q.id /\ row'[o] = NewRow(q.target)
        BY <1>2, <2>1, <2>5 DEF LockOk, Written
    <2>6. ASSUME row[o].exists
          PROVE  \/ row'[o].parent = row[o].parent
                 \/ q.op = "move" /\ o = q.id /\ row'[o].parent = q.target
      <3>1. CASE q.op \in Updates
        <4>1. o = q.id /\ q.wrote
            BY <1>2, <2>1, <3>1 DEF LockOk
        <4>2. row[o].count = q.token
            BY <1>0, <3>1, <4>1 DEF Safe, StoreInv, TokenOk, Unfinished
        <4>3. row'[o].parent = q.target
            BY <2>1, <2>2, <3>1 DEF Written, Row
        <4>4. q.op = "update" => row[o].parent = q.target
            BY <1>0, <4>1, <4>2 DEF TreeOk, TargetOk, Unfinished
        <4> QED BY <3>1, <4>1, <4>3, <4>4 DEF Updates
      <3>2. CASE q.op = "create"
          BY <1>0, <1>2, <2>1, <2>6, <3>2 DEF Safe, StoreInv, CreateOk, LockOk, Unfinished
      <3>3. CASE q.op \in Discards
        <4>1. dirty[o] = [row[o] EXCEPT !.deleted = TRUE, !.ancestor = (o # q.id),
                            !.expunged = @ \/ q.op = "expunge", !.count = @ + 1]
            BY <2>1, <3>3 DEF Written
        <4> QED BY <2>1, <2>2, <4>1 DEF Row
      <3>4. CASE q.op = "undelete"
        <4>1. PICK again \in BOOLEAN :
                dirty[o] = [row[o] EXCEPT !.deleted = FALSE,
                              !.ancestor = @ /\ o = q.id /\ ~again,
                              !.count = @ + (IF again THEN 2 ELSE 1)]
            BY <2>1, <3>4 DEF Written
        <4> QED BY <2>1, <2>2, <4>1 DEF Row
      <3> QED BY <1>0, <3>1, <3>2, <3>3, <3>4 DEF Active, AllOps, Updates, Discards
    <2> QED BY <2>3, <2>4, <2>5, <2>6, <2>1
  <1> QED BY <1>1, <1>2

(***************************************************************************)
(* A move to a place that is not below the moved object makes no cycle:    *)
(* the part of one that lies above that place would have been one before.  *)
(***************************************************************************)
LEMMA CommitAcyclic ==
  ASSUME Safe, WorkOk, TreeOk, NEW r \in Reqs, Commit(r)
  PROVE  Acyclic'
  <1> DEFINE q == txn[r]
             E == {o \in Objects : row[o].exists}
  <1>0. TypeOK /\ q \in Active /\ q.pc = "commit" /\ q.pc \in Unfinished
      BY CommitFacts DEF Unfinished
  <1>a. q.id \in Objects /\ q.target \in Objects \cup {Root} /\ Root \notin Objects
      BY <1>0, StoreAssumption DEF Active
  <1>1. \A S \in (SUBSET E) \ {{}} : \E o \in S : row[o].parent \notin S
    <2> SUFFICES ASSUME NEW S \in (SUBSET E) \ {{}} PROVE \E o \in S : row[o].parent \notin S
        OBVIOUS
    <2>1. PICK o \in S : [d \in Objects |-> row[d].parent][o] \notin S
        BY DEF TreeOk, Acyclic, Forest
    <2> QED BY <2>1
  <1>2. \A o \in E : /\ row'[o].exists
                     /\ \/ row'[o].parent = row[o].parent
                        \/ q.op = "move" /\ o = q.id /\ row'[o].parent = q.target
      BY CommitTree
  <1>3. \A o \in Objects \ E : \/ row'[o] = row[o]
                               \/ q.op = "create" /\ o = q.id /\ row'[o] = NewRow(q.target)
      BY CommitTree
  <1>4. \A o \in E : row[o].parent \in E \cup {Root}
    <2> SUFFICES ASSUME NEW o \in E PROVE row[o].parent \in E \cup {Root}
        OBVIOUS
    <2>1. ParentOk(o) /\ row[o].parent \in Objects \cup {Root}
        BY <1>0 DEF TreeOk, TypeOK, Row
    <2> QED BY <2>1 DEF ParentOk
  <1>5. q.op \in Updates \cup {"create"} => q.target \in E \cup {Root}
      BY <1>0, <1>a DEF TreeOk, TargetOk
  <1>6. \A p : NewRow(p).parent = p
      BY DEF NewRow, NoRow
  <1> SUFFICES ASSUME NEW S \in (SUBSET {o \in Objects : row'[o].exists}) \ {{}},
                      \A o \in S : row'[o].parent \in S
               PROVE  FALSE
    <2>1. ASSUME NEW S \in (SUBSET {o \in Objects : row'[o].exists}) \ {{}},
                 \A o \in S : [d \in Objects |-> row'[d].parent][o] \in S
          PROVE  FALSE
        BY <2>1
    <2> QED BY <2>1 DEF Acyclic, Forest
  <1>7. CASE S \subseteq E /\ q.id \notin S
      BY <1>1, <1>2, <1>7
  <1>8. CASE S \subseteq E /\ q.id \in S
    <2>1. CASE q.op = "move" /\ q.target # Root
      <3>1. PICK W \in SUBSET Objects : Met(q, W)
          BY <1>0, <2>1 DEF TreeOk, WalkOk
      <3>2. /\ q.target \in W /\ q.id \notin W
            /\ \A w \in W : row[w].parent \in W \cup {Root}
          BY <1>0, <1>a, <2>1, <3>1 DEF Met
      <3>3. CASE row'[q.id].parent = q.target
        <4>1. q.target \in S \cap W
            BY <1>8, <3>2, <3>3
        <4>2. ASSUME NEW w \in S \cap W PROVE row[w].parent \in S \cap W
          <5>1. row'[w].parent = row[w].parent
              BY <1>2, <1>8, <3>2, <4>2
          <5>2. row[w].parent \in S /\ Root \notin S
              BY <1>a, <4>2, <5>1
          <5> QED BY <3>2, <4>2, <5>2
        <4>3. S \cap W \in (SUBSET E) \ {{}}
            BY <1>8, <4>1
        <4> QED BY <1>1, <4>2, <4>3
      <3>4. CASE row'[q.id].parent # q.target
          BY <1>1, <1>2, <1>8, <3>4
      <3> QED BY <3>3, <3>4
    <2>2. CASE q.op = "move" /\ q.target = Root
      <3>1. \A o \in S : row'[o].parent = row[o].parent
          BY <1>2, <1>8, <1>a, <2>2
      <3> QED BY <1>1, <1>8, <3>1
    <2>3. CASE q.op # "move"
      <3>1. \A o \in S : row'[o].parent = row[o].parent
          BY <1>2, <1>8, <2>3
      <3> QED BY <1>1, <1>8, <3>1
    <2> QED BY <2>1, <2>2, <2>3
  <1>9. CASE ~(S \subseteq E)
    <2>1. PICK n \in S : n \notin E
        BY <1>9
    <2>2. ~row[n].exists /\ row'[n].exists
        BY <2>1
    <2>3. q.op = "create" /\ n = q.id /\ row'[n].parent = q.target
        BY <1>3, <1>6, <2>1, <2>2
    <2>4. \A o \in S \ {n} : o \in E
        BY <1>3, <2>3
    <2>5. \A o \in S \ {n} : row[o].parent \in S \ {n}
      <3> SUFFICES ASSUME NEW o \in S \ {n} PROVE row[o].parent \in S \ {n}
          OBVIOUS
      <3>1. row'[o].parent = row[o].parent
          BY <1>2, <2>3, <2>4
      <3>2. row[o].parent \in E \cup {Root}
          BY <1>4, <2>4
      <3> QED BY <1>a, <2>1, <3>1, <3>2
    <2>6. S \ {n} # {}
        BY <1>5, <1>a, <2>1, <2>3
    <2>7. S \ {n} \in (SUBSET E) \ {{}}
        BY <2>4, <2>6
    <2> QED BY <1>1, <2>5, <2>7
  <1> QED BY <1>7, <1>8, <1>9

LEMMA CommitTreeOk ==
  ASSUME Safe, WorkOk, TreeOk, OneMover, NEW r \in Reqs, Commit(r)
  PROVE  TreeOk'
  <1> DEFINE q == txn[r]
  <1>0. TypeOK /\ q \in Active /\ q.pc = "commit" /\ q.pc \in Unfinished
      BY CommitFacts DEF Unfinished
  <1>a. /\ txn'[r].pc = "ok" /\ \A p \in Reqs \ {r} : txn'[p] = txn[p]
      BY <1>0 DEF Commit, Become, TypeOK, Active
  <1>b. \A o \in Objects : row[o].exists => row'[o].exists
      BY CommitTree
  <1>c. \A p : NewRow(p).parent = p /\ NewRow(p).exists
      BY DEF NewRow, NoRow
  <1>1. ASSUME NEW o \in Objects PROVE ParentOk(o)'
    <2>1. ParentOk(o) /\ row[o].parent \in Objects \cup {Root} /\ q.target \in Objects \cup {Root}
        BY <1>0 DEF TreeOk, TypeOK, Row, Active
    <2>2. CASE row'[o].parent = row[o].parent
      <3>1. row'[o].parent = Root \/ row'[row'[o].parent].exists
          BY <1>b, <2>1, <2>2 DEF ParentOk
      <3>2. row'[o].exists \/ row'[o] = NoRow
        <4>1. CASE row[o].exists
            BY <1>b, <4>1
        <4>2. CASE ~row[o].exists
            BY <1>c, <2>1, <4>2, CommitTree DEF ParentOk
        <4> QED BY <4>1, <4>2
      <3> QED BY <3>1, <3>2 DEF ParentOk
    <2>3. CASE row'[o].parent # row[o].parent
      <3>1. q.op \in Updates \cup {"create"} /\ row'[o].exists /\ row'[o].parent = q.target
        <4>1. CASE row[o].exists
            BY <2>3, <4>1, CommitTree DEF Updates
        <4>2. CASE ~row[o].exists
            BY <1>c, <2>3, <4>2, CommitTree
        <4> QED BY <4>1, <4>2
      <3>2. q.target = Root \/ row[q.target].exists
          BY <1>0, <3>1 DEF TreeOk, TargetOk
      <3> QED BY <1>b, <2>1, <3>1, <3>2 DEF ParentOk
    <2> QED BY <2>2, <2>3
  <1>2. ASSUME NEW p \in Reqs PROVE TargetOk(p)' /\ WalkOk(p)'
    <2>1. CASE p = r \/ txn[p].pc \notin Unfinished
        BY <1>a, <2>1 DEF TargetOk, WalkOk, Unfinished
    <2>2. CASE p # r /\ txn[p].pc \in Unfinished
      <3>1. txn'[p] = txn[p] /\ txn[p] \in Active
          BY <1>0, <1>a, <2>2 DEF TypeOK, Idle, Unfinished
      <3>2. /\ txn[p].id \in Objects /\ txn[p].target \in Objects \cup {Root}
            /\ txn[p].token \in Nat /\ txn[p].at \in Objects
          BY <3>1 DEF Active
      <3>3. TargetOk(p) /\ WalkOk(p) /\ TokenOk(p)
          BY DEF TreeOk, Safe, StoreInv
      <3>4. TargetOk(p)'
        <4>1. ASSUME txn[p].op \in Updates \cup {"create"}
              PROVE  txn[p].target = Root \/ row'[txn[p].target].exists
            BY <1>b, <2>2, <3>2, <3>3, <4>1 DEF TargetOk
        <4>2. ASSUME txn[p].op = "update", row'[txn[p].id].count = txn[p].token
              PROVE  row'[txn[p].id].parent = txn[p].target
          <5>1. row[txn[p].id].exists /\ txn[p].token <= row[txn[p].id].count
              BY <2>2, <3>3, <4>2 DEF TokenOk, Updates
          <5>2. row'[txn[p].id].count >= row[txn[p].id].count /\ row[txn[p].id].count \in Nat
              BY <1>0, <3>2, <5>1, CommitTree DEF TypeOK, Row
          <5>3. row'[txn[p].id].count = row[txn[p].id].count
              BY <3>2, <4>2, <5>1, <5>2
          <5>4. row'[txn[p].id] = row[txn[p].id]
              BY <3>2, <5>1, <5>3, CommitTree
          <5> QED BY <2>2, <3>3, <4>2, <5>4 DEF TargetOk
        <4> QED BY <3>1, <4>1, <4>2 DEF TargetOk
      <3>5. WalkOk(p)'
        <4> SUFFICES ASSUME txn[p].op = "move", txn[p].target # Root PROVE WalkOk(p)'
            BY <3>1 DEF WalkOk
        <4>1. PICK W \in SUBSET Objects : Met(txn[p], W)
            BY <2>2, <3>3 DEF WalkOk
        <4>2. q.op # "move"
            BY <2>2 DEF OneMover
        <4>3. \A o \in Objects : row[o].exists => row'[o].exists /\ row'[o].parent = row[o].parent
            BY <4>2, CommitTree
        <4>4. Met(txn[p], W)'
          <5> DEFINE next == IF txn[p].pc = "walk" THEN txn[p].at ELSE Root
          <5>1. next # Root => next \in Objects
              BY <3>2
          <5>2. \A w \in W : row'[w].exists /\ row'[w].parent \in W \cup {next}
              BY <4>1, <4>3 DEF Met
          <5>3. next # Root => row'[next].exists
              BY <4>1, <4>3, <5>1 DEF Met
          <5> QED BY <3>1, <4>1, <5>2, <5>3 DEF Met
        <4> QED BY <4>4 DEF WalkOk
      <3> QED BY <3>4, <3>5
    <2> QED BY <2>1, <2>2
  <1> QED BY <1>1, <1>2, CommitAcyclic DEF TreeOk

LEMMA TreeStep ==
  ASSUME Safe, WorkOk, TreeOk, OneMover, NEW r \in Reqs, Step(r)
  PROVE  TreeOk'
  <1> DEFINE q == txn[r]
  <1>a. TypeOK
      BY DEF Safe, TypeInv
  <1>b. q \in Active
      BY <1>a DEF TypeOK, Idle, Step, Walk, ReadForUpdate, UpdateRow, InsertRow,
         ReferToParent, ReadForDelete, MarkDeleted, MarkUndeleted, Commit, CommitFails,
         LockFails, Answer
  <1>c. /\ q.at \in Objects /\ q.id \in Objects /\ q.target \in Objects \cup {Root}
        /\ q.todo \in SUBSET (Objects \X Nat)
      BY <1>b DEF Active
  <1>f. \A t : Become(r, t) => txn'[r] = t /\ \A p \in Reqs \ {r} : txn'[p] = txn[p]
      BY <1>a DEF Become, TypeOK
  <1>g. Idle.pc \notin Unfinished
      BY DEF Idle, Unfinished
  <1>m. ASSUME Become(r, Idle), row' = row PROVE TreeOk'
      BY <1>a, <1>f, <1>g, <1>m, TreeSame
  <1>n. ASSUME NEW t, Become(r, t), row' = row, t.op = q.op, t.id = q.id, t.target = q.target,
               t.token = q.token, q.pc \in Unfinished \ {"walk"}, t.pc # "walk"
        PROVE  TreeOk'
      BY <1>a, <1>f, <1>n, TreeSame
  <1>1. CASE Walk(r)
    <2> DEFINE p == row[q.at].parent
    <2>0. q.pc = "walk" /\ row' = row
        BY <1>1 DEF Walk
    <2>1. CASE p = q.id
        BY <1>1, <1>m, <2>0, <2>1 DEF Walk
    <2>2. CASE p # q.id
      <3>1. PICK t : /\ Become(r, t)
                     /\ \/ p = Root /\ t = [q EXCEPT !.pc = "read", !.at = q.id]
                        \/ p # Root /\ t = [q EXCEPT !.at = p]
          BY <1>1, <2>2 DEF Walk
      <3>2. /\ t.op = q.op /\ t.id = q.id /\ t.target = q.target /\ t.token = q.token
            /\ \/ p = Root /\ t.pc = "read"
               \/ p # Root /\ t.pc = "walk" /\ t.at = p
          BY <1>b, <2>0, <3>1 DEF Active
      <3>3. txn'[r] = t /\ \A s \in Reqs \ {r} : txn'[s] = txn[s]
          BY <1>f, <3>1
      <3>4. TargetOk(r)'
          BY <2>0, <3>2, <3>3 DEF TreeOk, TargetOk, Unfinished
      <3>5. WalkOk(r)'
        <4> SUFFICES ASSUME q.op = "move", q.target # Root PROVE WalkOk(r)'
            BY <3>2, <3>3 DEF WalkOk
        <4>1. PICK W \in SUBSET Objects : Met(q, W)
            BY <2>0 DEF TreeOk, WalkOk, Unfinished
        <4>2. /\ q.target \in W \cup {q.at} /\ q.id \notin W \cup {q.at} /\ row[q.at].exists
              /\ \A w \in W : row[w].exists /\ row[w].parent \in W \cup {q.at}
            BY <1>c, <2>0, <4>1, StoreAssumption DEF Met
        <4>3. p = Root \/ row[p].exists
            BY <1>c DEF TreeOk, ParentOk
        <4>4. PICK X \in SUBSET Objects : X = W \cup {q.at}
            BY <1>c
        <4>5. Met(t, X)
            BY <1>c, <2>2, <3>2, <4>2, <4>3, <4>4, StoreAssumption DEF Met
        <4>6. Met(txn[r], X)'
            BY <2>0, <3>3, <4>5 DEF Met
        <4> QED BY <4>6 DEF WalkOk
      <3> QED BY <2>0, <3>3, <3>4, <3>5, TreeFrame
    <2> QED BY <2>1, <2>2
  <1>2. CASE ReadForUpdate(r)
    <2> DEFINE t == [q EXCEPT !.pc = "write"]
    <2>1. /\ t.op = q.op /\ t.id = q.id /\ t.target = q.target /\ t.token = q.token
          /\ t.pc = "write"
        BY <1>b DEF Active
    <2>2. q.pc = "read" /\ row' = row /\ (Become(r, Idle) \/ Become(r, t))
        BY <1>2 DEF ReadForUpdate, Fail
    <2> HIDE DEF t
    <2> QED BY <1>m, <1>n, <2>1, <2>2 DEF Unfinished
  <1>3. CASE UpdateRow(r)
    <2>0. q.pc = "write" /\ row' = row
        BY <1>3 DEF UpdateRow
    <2>1. CASE Become(r, Idle)
        BY <1>m, <2>0, <2>1
    <2>2. CASE ~Become(r, Idle)
      <3>1. \E pc \in {"key", "commit"}, w \in BOOLEAN :
              \/ Become(r, [q EXCEPT !.pc = pc])
              \/ Become(r, [q EXCEPT !.wrote = w, !.pc = pc])
          BY <1>3, <2>2 DEF UpdateRow, WriteUpdate, Fail
      <3>2. PICK pc \in {"key", "commit"}, w \in BOOLEAN :
              \/ Become(r, [q EXCEPT !.pc = pc])
              \/ Become(r, [q EXCEPT !.wrote = w, !.pc = pc])
          BY <3>1
      <3>3. PICK t : Become(r, t) /\ t \in {[q EXCEPT !.pc = pc], [q EXCEPT !.wrote = w, !.pc = pc]}
          BY <3>2
      <3>4. /\ t.op = q.op /\ t.id = q.id /\ t.target = q.target /\ t.token = q.token
            /\ t.pc # "walk"
          BY <1>b, <3>3 DEF Active
      <3> QED BY <1>n, <2>0, <3>3, <3>4 DEF Unfinished
    <2> QED BY <2>1, <2>2
  <1>4. CASE InsertRow(r)
    <2>0. q.pc = "write" /\ row' = row
        BY <1>4 DEF InsertRow
    <2>1. CASE Become(r, Idle)
        BY <1>m, <2>0, <2>1
    <2>2. CASE ~Become(r, Idle)
      <3> DEFINE t == [q EXCEPT !.wrote = TRUE,
                                !.pc = IF q.target = Root THEN "commit" ELSE "key"]
      <3>1. Become(r, t)
          BY <1>4, <2>2 DEF InsertRow, Fail
      <3>2. /\ t.op = q.op /\ t.id = q.id /\ t.target = q.target /\ t.token = q.token
            /\ t.pc # "walk"
          BY <1>b DEF Active
      <3> HIDE DEF t
      <3> QED BY <1>n, <2>0, <3>1, <3>2 DEF Unfinished
    <2> QED BY <2>1, <2>2
  <1>5. CASE ReferToParent(r)
    <2> DEFINE t == [q EXCEPT !.pc = "commit"]
    <2>1. q.pc = "key" /\ Become(r, t) /\ row' = row
        BY <1>5 DEF ReferToParent
    <2>2. /\ t.op = q.op /\ t.id = q.id /\ t.target = q.target /\ t.token = q.token
          /\ t.pc # "walk"
        BY <1>b DEF Active
    <2> HIDE DEF t
    <2> QED BY <1>n, <2>1, <2>2 DEF Unfinished
  <1>6. CASE ReadForDelete(r) \/ MarkDeleted(r) \/ MarkUndeleted(r)
    <2>0. row' = row /\ q.op \in Trashes
        BY <1>6 DEF ReadForDelete, MarkDeleted, MarkUndeleted, Trashes
    <2>1. CASE Become(r, Idle)
        BY <1>m, <2>0, <2>1
    <2>2. ASSUME NEW todo \in SUBSET (Objects \X Nat),
                 Continue(r, todo, "read") \/ Continue(r, todo, "write")
          PROVE  TreeOk'
      <3>1. txn'[r].op = txn[r].op /\ \A p \in Reqs \ {r} : txn'[p] = txn[p]
        <4>1. CASE Continue(r, todo, "read")
            BY <1>a, <1>b, <4>1, ContinueFacts
        <4>2. CASE Continue(r, todo, "write")
            BY <1>a, <1>b, <4>2, ContinueFacts
        <4> QED BY <2>2, <4>1, <4>2
      <3>2. txn'[r].op \in Trashes
          BY <2>0, <3>1
      <3> QED BY <1>a, <2>0, <3>1, <3>2, TreeSame
    <2>3. CASE Become(r, [q EXCEPT !.pc = "write"])
      <3>1. txn'[r].op \in Trashes /\ \A p \in Reqs \ {r} : txn'[p] = txn[p]
          BY <1>b, <1>f, <2>0, <2>3 DEF Active
      <3> QED BY <1>a, <2>0, <3>1, TreeSame
    <2>4. /\ Children(r, q.at) \in SUBSET (Objects \X Nat)
          /\ AncestorChildren(r, q.at) \in SUBSET (Objects \X Nat)
        BY <1>a, <1>c, ChildrenType
    <2>5. CASE ReadForDelete(r)
        BY <1>c, <2>1, <2>2, <2>3, <2>5 DEF ReadForDelete, Fail
    <2>6. CASE MarkDeleted(r)
      <3>1. \/ Fail(r) \/ Continue(r, q.todo \cup Children(r, q.at), "read")
            \/ Continue(r, q.todo, "read")
          BY <2>6 DEF MarkDeleted
      <3>2. q.todo \cup Children(r, q.at) \in SUBSET (Objects \X Nat)
          BY <1>c, <2>4
      <3> QED BY <1>c, <2>1, <2>2, <3>1, <3>2 DEF Fail
    <2>7. CASE MarkUndeleted(r)
      <3>1. Fail(r) \/ Continue(r, q.todo \cup AncestorChildren(r, q.at), "write")
          BY <2>7 DEF MarkUndeleted
      <3>2. q.todo \cup AncestorChildren(r, q.at) \in SUBSET (Objects \X Nat)
          BY <1>c, <2>4
      <3> QED BY <2>1, <2>2, <3>1, <3>2 DEF Fail
    <2> QED BY <1>6, <2>5, <2>6, <2>7
  <1>7. CASE Commit(r)
      BY <1>7, CommitTreeOk
  <1>8. CASE CommitFails(r)
    <2> DEFINE t == [q EXCEPT !.pc = "ok", !.wrote = FALSE]
    <2>1. t.pc \notin Unfinished
        BY <1>b DEF Active, Unfinished
    <2>2. row' = row /\ (Become(r, Idle) \/ Become(r, t))
        BY <1>8 DEF CommitFails
    <2> HIDE DEF t
    <2>3. CASE Become(r, Idle)
        BY <1>m, <2>2, <2>3
    <2>4. CASE Become(r, t)
        BY <1>a, <1>f, <2>1, <2>2, <2>4, TreeSame
    <2> QED BY <2>2, <2>3, <2>4
  <1>9. CASE LockFails(r)
    <2> DEFINE t == [q EXCEPT !.tries = @ - 1, !.wrote = FALSE,
                              !.pc = IF q.op = "create" THEN "write" ELSE "read"]
    <2>1. /\ t.op = q.op /\ t.id = q.id /\ t.target = q.target /\ t.token = q.token
          /\ t.pc # "walk"
        BY <1>b DEF Active
    <2>2. row' = row /\ q.pc \in {"write", "key"} /\ (Become(r, Idle) \/ Become(r, t))
        BY <1>9 DEF LockFails
    <2> HIDE DEF t
    <2> QED BY <1>m, <1>n, <2>1, <2>2 DEF Unfinished
  <1>10. CASE Answer(r)
      BY <1>10, <1>m DEF Answer
  <1> QED BY <1>1, <1>2, <1>3, <1>4, <1>5, <1>6, <1>7, <1>8, <1>9, <1>10 DEF Step

LEMMA TreeNext == Safe /\ WorkOk /\ TreeOk /\ OneMover /\ [Next]_vars => TreeOk'
  <1> SUFFICES ASSUME Safe, WorkOk, TreeOk, OneMover, [Next]_vars PROVE TreeOk'
      OBVIOUS
  <1>1. ASSUME NEW r \in Reqs, Begin(r) \/ Step(r) PROVE TreeOk'
      BY <1>1, TreeBegin, TreeStep DEF Safe, TypeInv
  <1>2. CASE UNCHANGED vars
    <2>1. row' = row /\ txn' = txn
        BY <1>2 DEF vars
    <2>2. \A r \in Reqs : TargetOk(r) <=> TargetOk(r)'
        BY <2>1 DEF TargetOk
    <2>3. \A r \in Reqs : WalkOk(r) <=> WalkOk(r)'
        BY <2>1 DEF WalkOk, Met
    <2>4. \A o \in Objects : ParentOk(o) <=> ParentOk(o)'
        BY <2>1 DEF ParentOk
    <2>5. Acyclic <=> Acyclic'
        BY <2>1 DEF Acyclic, Forest
    <2> QED BY <2>2, <2>3, <2>4, <2>5 DEF TreeOk
  <1> QED BY <1>1, <1>2 DEF Next

(***************************************************************************)
(* As long as no two requests move objects at a time, no move makes the    *)
(* tree circular, whatever else is created, updated, deleted and restored  *)
(* between its walk to the root and its commit (IsParentIDADescendent).    *)
(* Two movers do make it circular, as moveObjectRaw locks nothing it has   *)
(* looked at.                                                              *)
(***************************************************************************)
THEOREM OneMoverKeepsForest ==
  ASSUME \A a, b \in Movers : a = b
  PROVE  Spec => []Acyclic
  <1>1. Init => Safe /\ WorkOk /\ TreeOk
      BY TypeInit, StoreInit, WorkInit, TreeInit DEF Safe
  <1>2. WorkOk => OneMover
      BY DEF WorkOk, MoveOk, OneMover
  <1>3. Safe /\ WorkOk /\ TreeOk /\ [Next]_vars => Safe' /\ WorkOk' /\ TreeOk'
      BY <1>2, SafeNext, WorkNext, TreeNext
  <1>4. TreeOk => Acyclic
      BY DEF TreeOk
  <1> QED BY <1>1, <1>3, <1>4, PTL DEF Spec
--------------------------------------------------------------------------------
(* Without moves, what went with its parent can come back with it *)

NoMove == \A r \in Reqs : txn[r].op # "move"

LEMMA AsideBegin ==
  ASSUME TypeOK, NEW r \in Reqs, Begin(r)
  PROVE  Aside(r) /\ UNCHANGED <<row, dirty, xlock>>
  <1>1. UNCHANGED <<row, dirty, xlock>> /\ \E t : Become(r, t)
      BY DEF Begin, BeginCreate, BeginMove, BeginUpdate, BeginDelete, BeginExpunge,
         BeginUndelete, Start, locks
  <1>2. \A q \in Reqs \ {r} : txn'[q] = txn[q]
      BY <1>1 DEF Become, TypeOK
  <1> QED BY <1>1, <1>2 DEF Aside

LEMMA AsideStep ==
  ASSUME TypeOK, NEW r \in Reqs, Step(r)
  PROVE  Aside(r)
  <1>1. \E t : Become(r, t)
      BY DEF Step, Walk, ReadForUpdate, UpdateRow, WriteUpdate, InsertRow, ReferToParent,
         ReadForDelete, MarkDeleted, MarkUndeleted, Commit, CommitFails, LockFails, Answer,
         Fail, Continue
  <1>2. \A q \in Reqs \ {r} : txn'[q] = txn[q]
      BY <1>1 DEF Become, TypeOK
  <1>3. ASSUME Release(r), \A o \in Objects : xlock[o] # r => row'[o] = row[o]
        PROVE  Aside(r)
      BY <1>2, <1>3, StoreAssumption DEF Release, Aside
  <1>4. ASSUME UNCHANGED <<row, dirty, xlock>> PROVE Aside(r)
      BY <1>2, <1>4 DEF Aside
  <1>5. ASSUME NEW o \in Objects, NEW b, CanWrite(r, o), WriteRow(r, o, b), row' = row
        PROVE  Aside(r)
      BY <1>2, <1>5, WriteAside
  <1>6. txn[r].pc # "idle" => txn[r].at \in Objects /\ txn[r].id \in Objects
    <2>1. txn[r].pc # "idle" => txn[r] \in Active
        BY DEF TypeOK, Idle
    <2> QED BY <2>1 DEF Active
  <1>7. CASE Walk(r) \/ ReferToParent(r) \/ Answer(r)
      BY <1>4, <1>7 DEF Walk, ReferToParent, Answer, locks
  <1>8. CASE ReadForUpdate(r)
      BY <1>3, <1>4, <1>8 DEF ReadForUpdate, Fail, locks
  <1>9. CASE ReadForDelete(r)
      BY <1>3, <1>4, <1>9 DEF ReadForDelete, Fail, locks
  <1>10. CASE UpdateRow(r)
      BY <1>3, <1>4, <1>5, <1>6, <1>10 DEF UpdateRow, WriteUpdate, Fail, locks
  <1>11. CASE InsertRow(r)
      BY <1>3, <1>5, <1>6, <1>11 DEF InsertRow, Fail
  <1>12. CASE MarkDeleted(r)
      BY <1>3, <1>5, <1>6, <1>12 DEF MarkDeleted, Fail
  <1>13. CASE MarkUndeleted(r)
      BY <1>3, <1>4, <1>5, <1>6, <1>13 DEF MarkUndeleted, Fail
  <1>14. CASE Commit(r)
      BY <1>3, <1>14 DEF Commit
  <1>15. CASE CommitFails(r) \/ LockFails(r)
      BY <1>3, <1>15 DEF CommitFails, LockFails
  <1> QED BY <1>7, <1>8, <1>9, <1>10, <1>11, <1>12, <1>13, <1>14, <1>15 DEF Step

(* A step of r that commits nothing. *)
LEMMA TrashFrame ==
  ASSUME TypeOK, TrashInv, NEW r \in Reqs, Aside(r), row' = row,
         GoneOk(r)', BackOk(r)'
  PROVE  TrashInv'
  <1>1. ASSUME NEW q \in Reqs \ {r} PROVE GoneOk(q)' /\ BackOk(q)'
    <2>1. GoneOk(q) /\ BackOk(q)
        BY DEF TrashInv
    <2>2. txn'[q] = txn[q] /\ Pending(txn[q])' = Pending(txn[q])
        BY DEF Aside, Pending
    <2>3. \A o \in Objects : /\ xlock'[o] = q <=> xlock[o] = q
                             /\ xlock[o] = q => dirty'[o] = dirty[o]
        BY DEF Aside
    <2>4. \A o \in Objects : row[o].parent \in Objects \cup {Root}
        BY DEF TypeOK, Row
    <2>5. GoneOk(q)'
        BY <2>1, <2>2, <2>3, <2>4 DEF GoneOk
    <2>6. BackOk(q)'
        BY <2>1, <2>2, <2>3 DEF BackOk
    <2> QED BY <2>5, <2>6
  <1> QED BY <1>1 DEF TrashInv

LEMMA TrashNone ==
  ASSUME NEW r \in Reqs, txn'[r].pc \notin Unfinished \/ txn'[r].op \notin Trashes
  PROVE  GoneOk(r)' /\ BackOk(r)'
  BY DEF GoneOk, BackOk, Trashes, Discards

LEMMA TrashStart ==
  ASSUME TypeOK, StoreInv, TrashInv, NEW r \in Reqs, NEW op \in AllOps, NEW o \in Objects,
         NEW p \in Objects \cup {Root}, NEW pc \in {"walk", "read", "write"},
         Start(r, op, o, p, pc), Aside(r), UNCHANGED <<row, dirty, xlock>>,
         op \in Trashes => pc # "walk" /\ row[o].exists
  PROVE  TrashInv'
  <1>1. /\ txn'[r].op = op /\ txn'[r].id = o /\ txn'[r].pc = pc
        /\ txn'[r].todo = {}
        /\ pc # "walk" => txn'[r].at = o
        /\ txn[r].pc = "idle"
      BY DEF Start, Become, TypeOK
  <1>2. \A d \in Objects : xlock'[d] # r
      BY <1>1, NoLockYet DEF Unfinished
  <1>3. CASE op \notin Trashes
      BY <1>1, <1>3, TrashNone, TrashFrame
  <1>4. CASE op \in Trashes
    <2>1. Pending(txn[r])' = {o}
        BY <1>1, <1>4 DEF Pending
    <2>2. GoneOk(r)' /\ BackOk(r)'
        BY <1>1, <1>2, <2>1 DEF GoneOk, BackOk
    <2> QED BY <2>2, TrashFrame
  <1> QED BY <1>3, <1>4

LEMMA TrashBegin ==
  ASSUME TypeOK, StoreInv, TrashInv, NEW r \in Reqs, Begin(r)
  PROVE  TrashInv'
  <1> USE DEF AllOps, Trashes
  <1>0. Aside(r) /\ UNCHANGED <<row, dirty, xlock>>
      BY AsideBegin
  <1>1. PICK o \in Objects :
          \/ \E p \in Objects \cup {Root} : BeginCreate(r, o, p) \/ BeginMove(r, o, p)
          \/ BeginUpdate(r, o) \/ BeginDelete(r, o) \/ BeginExpunge(r, o)
          \/ BeginUndelete(r, o)
      BY DEF Begin
  <1>2. ASSUME NEW p \in Objects \cup {Root}, BeginCreate(r, o, p) PROVE TrashInv'
      BY <1>0, <1>2, TrashStart DEF BeginCreate
  <1>3. ASSUME NEW p \in Objects \cup {Root}, BeginMove(r, o, p) PROVE TrashInv'
    <2>1. CASE p = Root
        BY <1>0, <1>3, <2>1, TrashStart DEF BeginMove
    <2>2. CASE p # Root
        BY <1>0, <1>3, <2>2, TrashStart DEF BeginMove
    <2> QED BY <2>1, <2>2
  <1>4. CASE BeginUpdate(r, o)
    <2>1. row[o].parent \in Objects \cup {Root}
        BY DEF TypeOK, Row
    <2> QED BY <1>0, <1>4, <2>1, TrashStart DEF BeginUpdate
  <1>5. CASE BeginDelete(r, o)
      BY <1>0, <1>5, TrashStart DEF BeginDelete
  <1>6. CASE BeginExpunge(r, o)
      BY <1>0, <1>6, TrashStart DEF BeginExpunge
  <1>7. CASE BeginUndelete(r, o)
      BY <1>0, <1>7, TrashStart DEF BeginUndelete
  <1> QED BY <1>1, <1>2, <1>3, <1>4, <1>5, <1>6, <1>7

(* No transaction but a move gives an object another parent. *)
LEMMA KeepsParent ==
  ASSUME Safe, WorkOk, NEW r \in Reqs, txn[r].pc \in Unfinished, txn[r].op \in Trashes,
         NEW o \in Objects
  PROVE  /\ Visible(r, o).parent = row[o].parent
         /\ txn[r].op = "undelete" => Visible(r, o).expunged = row[o].expunged
  <1>1. row[o] \in Row
      BY DEF Safe, TypeInv, TypeOK
  <1>2. CASE xlock[o] # r
      BY <1>2 DEF Visible
  <1>3. CASE xlock[o] = r
    <2>1. Written(txn[r], o, row[o], dirty[o]) /\ Visible(r, o) = dirty[o]
        BY <1>3 DEF WorkOk, OwnOk, Visible
    <2>2. CASE txn[r].op \in Discards
      <3>1. dirty[o] = [row[o] EXCEPT !.deleted = TRUE, !.ancestor = (o # txn[r].id),
                          !.expunged = @ \/ txn[r].op = "expunge", !.count = @ + 1]
          BY <2>1, <2>2 DEF Written
      <3> QED BY <1>1, <2>1, <2>2, <3>1 DEF Row, Discards
    <2>3. CASE txn[r].op = "undelete"
      <3>1. PICK again \in BOOLEAN :
              dirty[o] = [row[o] EXCEPT !.deleted = FALSE,
                            !.ancestor = @ /\ o = txn[r].id /\ ~again,
                            !.count = @ + (IF again THEN 2 ELSE 1)]
          BY <2>1, <2>3 DEF Written
      <3> QED BY <1>1, <2>1, <3>1 DEF Row
    <2> QED BY <2>2, <2>3 DEF Trashes, Discards
  <1> QED BY <1>2, <1>3

LEMMA TrashMarkDeleted ==
  ASSUME Safe, WorkOk, TrashInv, NEW r \in Reqs, MarkDeleted(r), ~Fail(r)
  PROVE  TrashInv'
  <1> DEFINE q == txn[r]
             o == q.at
  <1>0. /\ TypeOK /\ q.pc = "write" /\ q.op \in Discards /\ row' = row /\ CanWrite(r, o)
        /\ q.op \in Trashes /\ q.pc \in Unfinished
      BY DEF Safe, TypeInv, MarkDeleted, Discards, Trashes, Unfinished
  <1>1. q \in Active
      BY <1>0 DEF TypeOK, Idle
  <1>2. o \in Objects /\ q.id \in Objects /\ q.todo \in SUBSET (Objects \X Nat)
      BY <1>1 DEF Active
  <1>3. Aside(r)
      BY <1>0, AsideStep DEF Step
  <1>4. PICK b : WriteRow(r, o, b)
      BY DEF MarkDeleted
  <1>5. xlock'[o] = r /\ \A d \in Objects \ {o} : xlock'[d] = xlock[d]
      BY <1>0, <1>2, <1>4, WriteFacts
  <1>6. \/ Continue(r, q.todo \cup Children(r, o), "read")
        \/ Continue(r, q.todo, "read")
      BY DEF MarkDeleted
  <1>7. Children(r, o) \in SUBSET (Objects \X Nat)
      BY <1>0, <1>2, ChildrenType
  <1>8. PICK todo \in SUBSET (Objects \X Nat) :
          Continue(r, todo, "read") /\ todo \subseteq q.todo \cup Children(r, o)
      BY <1>2, <1>6, <1>7
  <1>9. /\ txn'[r].op = q.op /\ txn'[r].id = q.id
        /\ Pending(txn'[r]) = {x[1] : x \in todo}
      BY <1>0, <1>1, <1>8, ContinueFacts
  <1>10. ASSUME NEW d \in Objects, xlock'[d] = r \/ d \in Pending(txn'[r]), d # q.id
         PROVE  row[d].parent # Root /\ xlock'[row[d].parent] = r
    <2>1. row[d].parent \in Objects \cup {Root}
        BY <1>0 DEF TypeOK, Row
    <2>2. CASE xlock[d] = r \/ d \in Pending(q)
      <3>1. row[d].parent # Root /\ xlock[row[d].parent] = r
          BY <1>0, <1>10, <2>2 DEF TrashInv, GoneOk
      <3> QED BY <1>5, <2>1, <3>1
    <2>3. CASE ~(xlock[d] = r \/ d \in Pending(q))
      <3>1. o \in Pending(q) /\ \A x \in q.todo : x[1] \in Pending(q)
          BY <1>0 DEF Pending
      <3>2. d # o
          BY <2>3, <3>1
      <3>3. \E x \in Children(r, o) : x[1] = d
          BY <1>5, <1>8, <1>9, <1>10, <2>3, <3>1, <3>2
      <3>4. Visible(r, d).parent = o
          BY <3>3 DEF Children
      <3>5. row[d].parent = o
          BY <1>0, <3>4, KeepsParent
      <3> QED BY <1>2, <1>5, <3>5, StoreAssumption
    <2> QED BY <2>2, <2>3
  <1>11. GoneOk(r)'
      BY <1>0, <1>9, <1>10 DEF GoneOk
  <1>12. BackOk(r)'
      BY <1>0, <1>9 DEF BackOk, Discards
  <1> QED BY <1>0, <1>3, <1>11, <1>12, TrashFrame

LEMMA TrashMarkUndeleted ==
  ASSUME Safe, WorkOk, TreeOk, TrashInv, NEW r \in Reqs, MarkUndeleted(r), ~Fail(r)
  PROVE  TrashInv'
  <1> DEFINE q    == txn[r]
             o    == q.at
             old  == Visible(r, o)
             skip == q.wrote /\ old.expunged
             new  == [old EXCEPT !.deleted = FALSE, !.ancestor = @ /\ ~q.wrote]
             b    == Bump(old, new)
             todo == q.todo \cup AncestorChildren(r, o)
  <1>0. /\ TypeOK /\ q.pc = "write" /\ q.op = "undelete" /\ row' = row /\ CanWrite(r, o)
        /\ q.op \in Trashes /\ q.pc \in Unfinished /\ q.op \notin Discards
      BY DEF Safe, TypeInv, MarkUndeleted, Discards, Trashes, Unfinished
  <1>1. q \in Active
      BY <1>0 DEF TypeOK, Idle
  <1>2. /\ o \in Objects /\ q.id \in Objects /\ q.todo \in SUBSET (Objects \X Nat)
        /\ q.wrote \in BOOLEAN
      BY <1>1 DEF Active
  <1>3. Aside(r)
      BY <1>0, AsideStep DEF Step
  <1>4. /\ IF skip THEN UNCHANGED <<dirty, xlock>> ELSE WriteRow(r, o, b)
        /\ Continue(r, todo, "write")
      BY DEF MarkUndeleted
  <1>5. todo \in SUBSET (Objects \X Nat)
      BY <1>0, <1>2, ChildrenType
  <1>6. txn'[r].op = q.op /\ txn'[r].id = q.id /\ Pending(txn'[r]) = {x[1] : x \in todo}
    <2> HIDE DEF todo
    <2> QED BY <1>0, <1>1, <1>4, <1>5, ContinueFacts
  <1>7. OrderOk(r) /\ \A d \in Objects : xlock[d] = r => Written(q, d, row[d], dirty[d])
      BY <1>0 DEF WorkOk, OwnOk
  <1>8. /\ \A d \in Objects \ {o} : xlock'[d] = xlock[d] /\ dirty'[d] = dirty[d]
        /\ skip => xlock' = xlock /\ dirty' = dirty
        /\ ~skip => xlock'[o] = r /\ dirty'[o] = b
      BY <1>0, <1>2, <1>4, WriteFacts
  <1>9. ~skip /\ q.wrote => b.ancestor = FALSE
    <2>1. old \in Row
        BY <1>0, <1>2, VisibleType
    <2> QED BY <2>1 DEF Bump, Row
  <1>10. o \in Pending(q) /\ Pending(q) = {o} \cup {x[1] : x \in q.todo}
      BY <1>0 DEF Pending
  <1>11. \A d \in Objects : Visible(r, d).parent = row[d].parent
                            /\ Visible(r, d).expunged = row[d].expunged
      BY <1>0, KeepsParent
  <1>12. \A d \in Objects :
           (\E x \in AncestorChildren(r, o) : x[1] = d) <=>
             /\ d # o /\ Visible(r, d).exists /\ row[d].parent = o
             /\ Visible(r, d).ancestor /\ ~row[d].expunged
    <2> SUFFICES ASSUME NEW d \in Objects
                 PROVE  (\E x \in AncestorChildren(r, o) : x[1] = d) <=>
                          /\ d # o /\ Visible(r, d).exists /\ row[d].parent = o
                          /\ Visible(r, d).ancestor /\ ~row[d].expunged
        OBVIOUS
    <2> DEFINE P(e) == /\ Visible(r, e).exists /\ Visible(r, e).parent = o
                       /\ Visible(r, e).ancestor /\ ~Visible(r, e).expunged
    <2>1. AncestorChildren(r, o) = {<<c, 0>> : c \in {e \in Objects \ {o} : P(e)}}
        BY DEF AncestorChildren
    <2>2. (\E x \in AncestorChildren(r, o) : x[1] = d) <=> d # o /\ P(d)
      <3> DEFINE D == {e \in Objects \ {o} : P(e)}
      <3>1. ASSUME NEW x \in AncestorChildren(r, o), x[1] = d PROVE d \in D
        <4>1. PICK c \in D : x = <<c, 0>>
            BY <2>1
        <4> QED BY <3>1, <4>1
      <3>2. ASSUME d \in D PROVE \E x \in AncestorChildren(r, o) : x[1] = d
        <4>1. <<d, 0>> \in AncestorChildren(r, o)
            BY <2>1, <3>2
        <4> QED BY <4>1
      <3>3. d \in D <=> d # o /\ P(d)
          OBVIOUS
      <3> HIDE DEF D
      <3> QED BY <3>1, <3>2, <3>3
    <2> QED BY <1>11, <2>2
  <1>13. \A d \in Objects : d \in Pending(txn'[r]) <=>
           \/ d \in Pending(q) /\ \E x \in q.todo : x[1] = d
           \/ \E x \in AncestorChildren(r, o) : x[1] = d
      BY <1>6, <1>10
  <1>14. \A x \in q.todo : x[1] # o
      BY <1>0, <1>7 DEF OrderOk
  <1>15. \A d \in Objects : Visible(r, d).exists <=> row[d].exists
      BY <1>0, SeenExists DEF Safe
  <1> HIDE DEF todo, b, new, old
  <1>16. BackOk(r)'
    <2> SUFFICES ASSUME NEW e \in Objects, NEW c \in Objects, xlock'[e] = r,
                        row[c].ancestor, ~row[c].expunged, row[c].parent = e
                 PROVE  c \in Pending(txn'[r]) \/ (xlock'[c] = r /\ ~dirty'[c].ancestor)
        BY <1>0, <1>6 DEF BackOk
    <2>0. row[c].exists
      <3>1. row[c].exists \/ row[c] = NoRow
          BY DEF TreeOk, ParentOk
      <3> QED BY <3>1 DEF NoRow
    (* A parent that is restored with this step: its children are found. *)
    <2>1. CASE xlock[e] # r
      <3>1. e = o
          BY <1>8, <2>1
      <3>2. c # o
        <4> SUFFICES ASSUME c = o PROVE FALSE
            OBVIOUS
        <4>1. PICK x \in {c} : [d \in Objects |-> row[d].parent][x] \notin {c}
            BY <2>0 DEF TreeOk, Acyclic, Forest
        <4> QED BY <3>1, <4>1
      <3>3. CASE Visible(r, c).ancestor
          BY <1>12, <1>13, <1>15, <2>0, <3>1, <3>2, <3>3
      <3>4. CASE ~Visible(r, c).ancestor
        <4>1. xlock[c] = r /\ ~dirty[c].ancestor
            BY <3>4 DEF Visible
        <4> QED BY <1>8, <3>2, <4>1
      <3> QED BY <3>3, <3>4
    <2>2. CASE xlock[e] = r
      <3>1. c \in Pending(q) \/ (xlock[c] = r /\ ~dirty[c].ancestor)
          BY <1>0, <2>2 DEF TrashInv, BackOk
      <3>2. q.wrote
          BY <1>7, <2>2 DEF OrderOk
      <3>3. CASE c = o
        <4>1. ~skip
            BY <1>11, <3>3 DEF old
        <4> QED BY <1>8, <1>9, <3>2, <3>3, <4>1
      <3>4. CASE c # o
        <4>1. CASE c \in Pending(q)
          <5>1. \E x \in q.todo : x[1] = c
              BY <1>10, <3>4, <4>1
          <5> QED BY <1>13, <4>1, <5>1
        <4>2. CASE xlock[c] = r /\ ~dirty[c].ancestor
            BY <1>8, <3>4, <4>2
        <4> QED BY <3>1, <4>1, <4>2
      <3> QED BY <3>3, <3>4
    <2> QED BY <2>1, <2>2
  <1>17. GoneOk(r)'
      BY <1>0, <1>6 DEF GoneOk
  <1> QED BY <1>0, <1>3, <1>16, <1>17, TrashFrame

(***************************************************************************)
(* Every step but a commit keeps what the requests on the trash rely on.   *)
(***************************************************************************)
LEMMA TrashStep ==
  ASSUME Safe, WorkOk, TreeOk, TrashInv, NEW r \in Reqs, Step(r), ~Commit(r)
  PROVE  TrashInv'
  <1> DEFINE q == txn[r]
  <1>a. TypeOK
      BY DEF Safe, TypeInv
  <1>b. q \in Active
      BY <1>a DEF TypeOK, Idle, Step, Walk, ReadForUpdate, UpdateRow, InsertRow,
         ReferToParent, ReadForDelete, MarkDeleted, MarkUndeleted, Commit, CommitFails,
         LockFails, Answer
  <1>c. Aside(r)
      BY <1>a, AsideStep
  <1>d. \A t : Become(r, t) => txn'[r] = t
      BY <1>a DEF Become, TypeOK
  <1>e. row' = row
      BY DEF Step, Walk, ReadForUpdate, UpdateRow, InsertRow, ReferToParent, ReadForDelete,
         MarkDeleted, MarkUndeleted, CommitFails, LockFails, Answer
  <1>f. ASSUME NEW t, Become(r, t), t.pc \notin Unfinished \/ t.op \notin Trashes
        PROVE  TrashInv'
      BY <1>a, <1>c, <1>d, <1>e, <1>f, TrashNone, TrashFrame
  <1>g. ASSUME Become(r, Idle) PROVE TrashInv'
      BY <1>f, <1>g DEF Idle, Unfinished
  <1>1. CASE q.op \notin Trashes
    <2>1. txn'[r] = Idle \/ txn'[r].op = q.op
      <3> USE <1>b, <1>d DEF Active
      <3>1. CASE Walk(r)
        <4>1. \/ txn'[r] = Idle
              \/ txn'[r] = [q EXCEPT !.pc = "read", !.at = q.id]
              \/ txn'[r] = [q EXCEPT !.at = row[q.at].parent]
            BY <3>1 DEF Walk
        <4> QED BY <4>1
      <3>2. CASE ReadForUpdate(r)
        <4>1. txn'[r] = Idle \/ txn'[r] = [q EXCEPT !.pc = "write"]
            BY <3>2 DEF ReadForUpdate, Fail
        <4> QED BY <4>1
      <3>3. CASE UpdateRow(r)
        <4>1. \/ txn'[r] = Idle
              \/ txn'[r] = [q EXCEPT !.pc = "commit"]
              \/ txn'[r] = [q EXCEPT !.wrote = TRUE, !.pc = "commit"]
              \/ txn'[r] = [q EXCEPT !.wrote = TRUE, !.pc = "key"]
            BY <3>3 DEF UpdateRow, WriteUpdate, Fail
        <4> QED BY <4>1
      <3>4. CASE InsertRow(r)
        <4>1. \/ txn'[r] = Idle
              \/ txn'[r] = [q EXCEPT !.wrote = TRUE, !.pc = "commit"]
              \/ txn'[r] = [q EXCEPT !.wrote = TRUE, !.pc = "key"]
            BY <3>4 DEF InsertRow, Fail
        <4> QED BY <4>1
      <3>5. CASE ReferToParent(r)
        <4>1. txn'[r] = [q EXCEPT !.pc = "commit"]
            BY <3>5 DEF ReferToParent
        <4> QED BY <4>1
      <3>6. CASE CommitFails(r)
        <4>1. txn'[r] = Idle \/ txn'[r] = [q EXCEPT !.pc = "ok", !.wrote = FALSE]
            BY <3>6 DEF CommitFails
        <4> QED BY <4>1
      <3>7. CASE LockFails(r)
        <4>1. \/ txn'[r] = Idle
              \/ txn'[r] = [q EXCEPT !.tries = @ - 1, !.wrote = FALSE, !.pc = "write"]
              \/ txn'[r] = [q EXCEPT !.tries = @ - 1, !.wrote = FALSE, !.pc = "read"]
            BY <3>7 DEF LockFails
        <4> QED BY <4>1
      <3>8. CASE Answer(r)
          BY <3>8 DEF Answer
      <3> QED BY <1>1, <3>1, <3>2, <3>3, <3>4, <3>5, <3>6, <3>7, <3>8
              DEF Step, ReadForDelete, MarkDeleted, MarkUndeleted, Trashes
    <2>2. txn'[r].pc \notin Unfinished \/ txn'[r].op \notin Trashes
        BY <1>1, <2>1 DEF Idle, Unfinished
    <2> QED BY <1>a, <1>c, <1>e, <2>2, TrashNone, TrashFrame
  <1>2. CASE q.op \in Trashes
    <2>1. CASE ReadForDelete(r)
      <3>0. q.pc = "read" /\ q.op \in Discards /\ q.pc \in Unfinished
          BY <2>1 DEF ReadForDelete, Discards, Unfinished
      <3>1. CASE Fail(r)
          BY <1>g, <3>1 DEF Fail
      <3>2. CASE ~Fail(r)
        <4>1. /\ UNCHANGED <<dirty, xlock>>
              /\ \/ Continue(r, q.todo, "read")
                 \/ Become(r, [q EXCEPT !.pc = "write"])
            BY <2>1, <3>2 DEF ReadForDelete, locks
        <4>2. q.todo \in SUBSET (Objects \X Nat)
            BY <1>b DEF Active
        <4>3. Pending(q) = {q.at} \cup {x[1] : x \in q.todo}
            BY <3>0 DEF Pending
        <4>4. CASE Continue(r, q.todo, "read")
          <5>1. /\ txn'[r].op = q.op /\ txn'[r].id = q.id
                /\ Pending(txn'[r]) = {x[1] : x \in q.todo}
              BY <1>a, <1>b, <4>2, <4>4, ContinueFacts
          <5>2. GoneOk(r)'
              BY <1>e, <3>0, <4>1, <4>3, <5>1 DEF TrashInv, GoneOk
          <5>3. BackOk(r)'
              BY <3>0, <5>1 DEF BackOk, Discards
          <5> QED BY <1>a, <1>c, <1>e, <5>2, <5>3, TrashFrame
        <4>5. CASE Become(r, [q EXCEPT !.pc = "write"])
          <5>1. PICK t : t = [q EXCEPT !.pc = "write"]
              OBVIOUS
          <5>2. /\ t.pc = "write" /\ t.op = q.op /\ t.id = q.id /\ t.at = q.at
                /\ t.todo = q.todo
              BY <1>b, <5>1 DEF Active
          <5>3. txn'[r] = t
              BY <1>d, <4>5, <5>1
          <5>4. Pending(t) = Pending(q)
              BY <3>0, <5>2 DEF Pending
          <5>5. GoneOk(r)'
              BY <1>e, <3>0, <4>1, <5>2, <5>3, <5>4 DEF TrashInv, GoneOk
          <5>6. BackOk(r)'
              BY <3>0, <5>2, <5>3 DEF BackOk, Discards
          <5> QED BY <1>a, <1>c, <1>e, <5>5, <5>6, TrashFrame
        <4> QED BY <4>1, <4>4, <4>5
      <3> QED BY <3>1, <3>2
    <2>2. CASE MarkDeleted(r)
        BY <1>g, <2>2, TrashMarkDeleted DEF Fail
    <2>3. CASE MarkUndeleted(r)
        BY <1>g, <2>3, TrashMarkUndeleted DEF Fail
    <2>4. CASE CommitFails(r)
      <3>1. PICK t : t = [q EXCEPT !.pc = "ok", !.wrote = FALSE]
          OBVIOUS
      <3>2. t.pc \notin Unfinished
          BY <1>b, <3>1 DEF Active, Unfinished
      <3> QED BY <1>f, <1>g, <2>4, <3>1, <3>2 DEF CommitFails
    <2>5. CASE LockFails(r)
        BY <1>2, <1>g, <2>5 DEF LockFails, Trashes
    <2>6. CASE Answer(r)
        BY <1>g, <2>6 DEF Answer
    <2>7. q.pc \notin {"walk", "key"}
        BY <1>2 DEF WorkOk, OwnOk, OrderOk, Unfinished
    <2> QED BY <1>2, <2>1, <2>2, <2>3, <2>4, <2>5, <2>6, <2>7
            DEF Step, Walk, ReadForUpdate, UpdateRow, InsertRow, ReferToParent, Trashes
  <1> QED BY <1>1, <1>2

(***************************************************************************)
(* A commit marks an object as gone with its parent only if it takes the   *)
(* parent to the trash too.                                                *)
(***************************************************************************)
LEMMA CommitMarks ==
  ASSUME Safe, WorkOk, TreeOk, TrashInv, NoMove, NEW r \in Reqs, Commit(r),
         NEW c \in Objects, row'[c].ancestor, ~row'[c].expunged
  PROVE  /\ row[c].exists /\ row'[c].parent = row[c].parent
         /\ \/ row[c].ancestor /\ ~row[c].expunged
            \/ /\ txn[r].op \in Discards /\ row[c].parent # Root
               /\ xlock[row[c].parent] = r
  <1> DEFINE q == txn[r]
  <1>0. TypeOK /\ q \in Active /\ q.pc = "commit" /\ q.pc \in Unfinished
      BY CommitFacts DEF Unfinished
  <1>1. row[c].exists
    <2> SUFFICES ASSUME ~row[c].exists PROVE FALSE
        OBVIOUS
    <2>1. row[c] = NoRow
        BY DEF TreeOk, ParentOk
    <2>2. row'[c] = NoRow \/ row'[c] = NewRow(q.target)
        BY <2>1, CommitTree
    <2>3. NoRow.ancestor = FALSE /\ NewRow(q.target).ancestor = FALSE
        BY DEF NoRow, NewRow
    <2> QED BY <2>2, <2>3
  <1>2. row'[c].parent = row[c].parent
      BY <1>1, CommitTree DEF NoMove
  <1>3. CASE xlock[c] # r
      BY <1>1, <1>2, <1>3, CommitFacts
  <1>4. CASE xlock[c] = r
    <2>1. row'[c] = dirty[c] /\ Written(q, c, row[c], dirty[c]) /\ LockOk(c) /\ r # NoReq
        BY <1>4, CommitFacts, StoreAssumption
    <2>2. row[c] \in Row
        BY <1>0 DEF TypeOK
    <2>3. CASE q.op \in Updates
      <3>1. dirty[c] = [row[c] EXCEPT !.parent = q.target, !.count = @ + 1]
          BY <2>1, <2>3 DEF Written
      <3> QED BY <1>1, <1>2, <2>1, <2>2, <3>1 DEF Row
    <2>4. CASE q.op = "create"
        BY <2>1, <2>4 DEF Written, NewRow, NoRow
    <2>5. CASE q.op \in Discards
      <3>1. dirty[c] = [row[c] EXCEPT !.deleted = TRUE, !.ancestor = (c # q.id),
                          !.expunged = @ \/ q.op = "expunge", !.count = @ + 1]
          BY <2>1, <2>5 DEF Written
      <3>2. c # q.id
          BY <2>1, <2>2, <3>1 DEF Row
      <3>3. row[c].parent # Root /\ xlock[row[c].parent] = r
          BY <1>0, <1>4, <2>5, <3>2 DEF TrashInv, GoneOk
      <3> QED BY <1>1, <1>2, <2>5, <3>3
    <2>6. CASE q.op = "undelete"
      <3>1. PICK again \in BOOLEAN :
              dirty[c] = [row[c] EXCEPT !.deleted = FALSE,
                            !.ancestor = @ /\ c = q.id /\ ~again,
                            !.count = @ + (IF again THEN 2 ELSE 1)]
          BY <2>1, <2>6 DEF Written
      <3> QED BY <1>1, <1>2, <2>1, <2>2, <3>1 DEF Row
    <2> QED BY <1>0, <2>3, <2>4, <2>5, <2>6 DEF Active, AllOps, Updates, Discards
  <1> QED BY <1>3, <1>4

LEMMA TrashCommit ==
  ASSUME Safe, WorkOk, TreeOk, TrashInv, NoMove, NEW r \in Reqs, Commit(r)
  PROVE  TrashInv'
  <1>0. TypeOK /\ txn[r] \in Active /\ txn[r].pc = "commit"
      BY CommitFacts
  <1>1. Aside(r)
      BY <1>0, AsideStep DEF Step
  <1>2. GoneOk(r)' /\ BackOk(r)'
    <2>1. txn'[r] = [txn[r] EXCEPT !.pc = "ok"]
        BY <1>0 DEF Commit, Become, TypeOK
    <2>2. txn'[r].pc \notin Unfinished
        BY <1>0, <2>1 DEF Active, Unfinished
    <2> QED BY <2>2, TrashNone
  <1>3. \A o \in Objects : row[o].exists => row'[o].parent = row[o].parent
      BY CommitTree DEF NoMove
  <1>4. ASSUME NEW q \in Reqs \ {r} PROVE GoneOk(q)' /\ BackOk(q)'
    <2>1. GoneOk(q) /\ BackOk(q)
        BY DEF TrashInv
    <2>2. txn'[q] = txn[q] /\ Pending(txn[q])' = Pending(txn[q])
        BY <1>1 DEF Aside, Pending
    <2>3. \A o \in Objects : /\ xlock'[o] = q <=> xlock[o] = q
                             /\ xlock[o] = q => dirty'[o] = dirty[o]
        BY <1>1 DEF Aside
    <2>4. \A o \in Objects : row[o].parent \in Objects \cup {Root}
        BY <1>0 DEF TypeOK, Row
    <2>5. \A o \in Objects : row[o].exists \/ row[o].parent = Root
        BY DEF TreeOk, ParentOk, NoRow
    <2>6. GoneOk(q)'
        BY <1>3, <2>1, <2>2, <2>3, <2>4, <2>5 DEF GoneOk
    <2>7. BackOk(q)'
      <3> SUFFICES ASSUME txn[q].pc \in Unfinished, txn[q].op = "undelete",
                          NEW o \in Objects, NEW c \in Objects, xlock[o] = q,
                          row'[c].ancestor, ~row'[c].expunged, row'[c].parent = o
                   PROVE  c \in Pending(txn[q]) \/ (xlock'[c] = q /\ ~dirty'[c].ancestor)
          BY <2>2, <2>3 DEF BackOk
      <3>1. row[c].parent = o /\ row[c].ancestor /\ ~row[c].expunged
          BY CommitMarks
      <3>2. c \in Pending(txn[q]) \/ (xlock[c] = q /\ ~dirty[c].ancestor)
          BY <2>1, <3>1 DEF BackOk
      <3> QED BY <2>3, <3>2
    <2> QED BY <2>6, <2>7
  <1> QED BY <1>2, <1>4 DEF TrashInv

LEMMA CommitRestores ==
  ASSUME Safe, WorkOk, TreeOk, TrashInv, NoMove, RestoredWithParent,
         NEW r \in Reqs, Commit(r)
  PROVE  RestoredWithParent'
  <1> DEFINE q == txn[r]
  <1>0. TypeOK /\ q \in Active /\ q.pc = "commit" /\ q.pc \in Unfinished
      BY CommitFacts DEF Unfinished
  <1> SUFFICES ASSUME NEW c \in Objects, row'[c].ancestor, ~row'[c].expunged
               PROVE  row'[c].parent # Root /\ row'[row'[c].parent].deleted
      BY DEF RestoredWithParent
  <1>1. PICK p \in Objects \cup {Root} : p = row[c].parent /\ p = row'[c].parent
    <2>1. row[c].parent \in Objects \cup {Root}
        BY <1>0 DEF TypeOK, Row
    <2> QED BY <2>1, CommitMarks
  <1>2. \/ row[c].ancestor /\ ~row[c].expunged
        \/ q.op \in Discards /\ p # Root /\ xlock[p] = r
      BY <1>1, CommitMarks
  <1>3. ASSUME p # Root, xlock[p] = r, q.op \in Discards PROVE row'[p].deleted
    <2>1. row[p] \in Row /\ p \in Objects
        BY <1>0, <1>1, <1>3 DEF TypeOK
    <2>2. row'[p] = dirty[p] /\ Written(q, p, row[p], dirty[p])
        BY <1>3, <2>1, CommitFacts
    <2>3. row'[p] = [row[p] EXCEPT !.deleted = TRUE, !.ancestor = (p # q.id),
                       !.expunged = @ \/ q.op = "expunge", !.count = @ + 1]
        BY <1>3, <2>2 DEF Written
    <2> QED BY <2>1, <2>3 DEF Row
  <1>4. CASE row[c].ancestor /\ ~row[c].expunged
    <2>1. p \in Objects /\ p # Root /\ row[p].deleted
        BY <1>1, <1>4 DEF RestoredWithParent
    <2>2. CASE xlock[p] # r
        BY <1>1, <2>1, <2>2, CommitFacts
    <2>3. CASE xlock[p] = r
      <3>1. row'[p] = dirty[p] /\ Written(q, p, row[p], dirty[p]) /\ LockOk(p) /\ r # NoReq
          BY <2>1, <2>3, CommitFacts, StoreAssumption
      <3>2. row[p] \in Row
          BY <1>0, <2>1 DEF TypeOK
      <3>3. CASE q.op \in Updates
        <4>1. dirty[p] = [row[p] EXCEPT !.parent = q.target, !.count = @ + 1]
            BY <3>1, <3>3 DEF Written
        <4>2. row'[p].deleted
            BY <2>1, <3>1, <3>2, <4>1 DEF Row
        <4> QED BY <1>1, <2>1, <4>2
      <3>4. CASE q.op = "create"
        <4>1. row[p].exists
            BY <2>1 DEF TreeOk, ParentOk, NoRow
        <4>2. p = q.id
            BY <2>3, <3>1, <3>4 DEF LockOk
        <4> QED BY <1>0, <3>4, <4>1, <4>2 DEF Safe, StoreInv, CreateOk
      <3>5. CASE q.op \in Discards
          BY <1>1, <1>3, <2>1, <2>3, <3>5
      <3>6. CASE q.op = "undelete"
        <4>1. Pending(q) = {}
          <5>1. q.todo = {}
              BY <1>0, <3>6, CommitFacts DEF OrderOk, Trashes
          <5> QED BY <1>0, <5>1 DEF Pending
        <4>2. xlock[c] = r /\ ~dirty[c].ancestor
            BY <1>0, <1>1, <1>4, <2>1, <2>3, <3>6, <4>1 DEF TrashInv, BackOk
        <4> QED BY <4>2, CommitFacts
      <3> QED BY <1>0, <3>3, <3>4, <3>5, <3>6 DEF Active, AllOps, Updates, Discards
    <2> QED BY <2>2, <2>3
  <1> QED BY <1>1, <1>2, <1>3, <1>4

LEMMA TrashNext ==
  Safe /\ WorkOk /\ TreeOk /\ TrashInv /\ NoMove /\ RestoredWithParent /\ [Next]_vars
    => TrashInv' /\ RestoredWithParent'
  <1> SUFFICES ASSUME Safe, WorkOk, TreeOk, TrashInv, NoMove, RestoredWithParent, [Next]_vars
               PROVE  TrashInv' /\ RestoredWithParent'
      OBVIOUS
  <1>0. TypeOK /\ StoreInv
      BY DEF Safe, TypeInv
  <1>1. ASSUME row' = row PROVE RestoredWithParent'
      BY <1>1 DEF RestoredWithParent
  <1>2. ASSUME NEW r \in Reqs, Commit(r) PROVE TrashInv' /\ RestoredWithParent'
      BY <1>2, TrashCommit, CommitRestores
  <1>3. ASSUME NEW r \in Reqs, Begin(r) \/ Step(r), ~Commit(r)
        PROVE  TrashInv' /\ RestoredWithParent'
    <2>1. RestoredWithParent'
        BY <1>1, <1>3, RowsChange
    <2>2. TrashInv'
        BY <1>0, <1>3, TrashBegin, TrashStep
    <2> QED BY <2>1, <2>2
  <1>4. CASE UNCHANGED vars
    <2>1. row' = row /\ txn' = txn /\ xlock' = xlock /\ dirty' = dirty
        BY <1>4 DEF vars, locks
    <2>2. \A r \in Reqs : GoneOk(r) <=> GoneOk(r)'
        BY <2>1 DEF GoneOk, Pending
    <2>3. \A r \in Reqs : BackOk(r) <=> BackOk(r)'
        BY <2>1 DEF BackOk, Pending
    <2> QED BY <1>1, <2>1, <2>2, <2>3 DEF TrashInv
  <1> QED BY <1>2, <1>3, <1>4 DEF Next

LEMMA TrashInit == Init => TrashInv /\ RestoredWithParent
  <1> SUFFICES ASSUME Init PROVE TrashInv /\ RestoredWithParent
      OBVIOUS
  <1>1. \A r \in Reqs : txn[r].pc \notin Unfinished
      BY DEF Init, Idle, Unfinished
  <1>2. TrashInv
      BY <1>1 DEF TrashInv, GoneOk, BackOk
  <1>3. ASSUME NEW o \in Objects PROVE row[o].ancestor = FALSE
    <2>1. row[o] = NoRow \/ \E p : row[o] = NewRow(p)
        BY DEF Init
    <2>2. \A p : NewRow(p).ancestor = FALSE
        BY DEF NewRow, NoRow
    <2> QED BY <2>1, <2>2 DEF NoRow
  <1> QED BY <1>2, <1>3 DEF RestoredWithParent

(***************************************************************************)
(* Where nobody moves objects, what is marked as gone with its parent has  *)
(* a parent in the trash, so that an undelete of that brings it back:      *)
(* deletes and restores of overlapping subtrees, failed listings, failed   *)
(* commits and lost locks leave nothing behind that nobody can restore     *)
(* (DeleteObject, undeleteAncestorChildren).                               *)
(***************************************************************************)
THEOREM TrashStaysRestorable ==
  ASSUME "move" \notin Ops
  PROVE  Spec => []RestoredWithParent
  <1>1. Init => Safe /\ WorkOk /\ TreeOk /\ TrashInv /\ RestoredWithParent
      BY TypeInit, StoreInit, WorkInit, TreeInit, TrashInit DEF Safe
  <1>2. WorkOk => NoMove /\ OneMover
      BY DEF WorkOk, MoveOk, NoMove, OneMover
  <1>3. /\ Safe /\ WorkOk /\ TreeOk /\ TrashInv /\ RestoredWithParent /\ [Next]_vars
        => Safe' /\ WorkOk' /\ TreeOk' /\ TrashInv' /\ RestoredWithParent'
      BY <1>2, SafeNext, WorkNext, TreeNext, TrashNext
  <1> QED BY <1>1, <1>3, PTL DEF Spec
================================================================================
