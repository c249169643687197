------------------------------ MODULE Revisions ------------------------------
(***************************************************************************)
(* What the object store promises its callers, locks, reads and retries    *)
(* left out: the rows of the objects change one request at a time, and all *)
(* at once.  A request creates one object, or makes the next revision of   *)
(* one object that is not in the trash, or puts objects in the trash or    *)
(* removes them for good, the one it names and others with it, or takes    *)
(* such objects out again.  Whatever else a request is, it changes         *)
(* nothing.                                                                *)
(***************************************************************************)
EXTENDS Naturals

CONSTANTS Objects, Root

VARIABLE row

NoObject == [exists |-> FALSE, parent |-> Root, deleted |-> FALSE,
             ancestor |-> FALSE, expunged |-> FALSE, count |-> 0]

Init == \A o \in Objects : row[o].exists => row[o].count = 0 /\ ~row[o].deleted

Create ==
  \E o \in Objects, p \in Objects \cup {Root} :
    /\ ~row[o].exists
    /\ row' = [row EXCEPT ![o] = [NoObject EXCEPT !.exists = TRUE, !.parent = p]]

(***************************************************************************)
(* An update, in place or to another parent, is the next revision.         *)
(***************************************************************************)
Revise ==
  \E o \in Objects, p \in Objects \cup {Root} :
    /\ row[o].exists /\ ~row[o].deleted
    /\ row' = [row EXCEPT ![o] = [row[o] EXCEPT !.parent = p, !.count = @ + 1]]

Changed == {o \in Objects : row'[o] # row[o]}

(***************************************************************************)
(* The object top goes, and the others because of it.                      *)
(***************************************************************************)
Discard ==
  \E top \in Objects, forever \in BOOLEAN :
    /\ top \in Changed /\ \A o \in Changed : row[o].exists
    /\ row' = [o \in Objects |->
         IF o \notin Changed THEN row[o]
         ELSE [row[o] EXCEPT !.deleted = TRUE, !.ancestor = (o # top),
                             !.expunged = @ \/ forever, !.count = @ + 1]]

(***************************************************************************)
(* The object top comes back, and others with it that are not expunged.    *)
(* They had gone because of another when they were looked up; one that was *)
(* deleted for itself meanwhile comes back all the same.  When top itself  *)
(* is found below what comes back with it, it is revised again.            *)
(***************************************************************************)
Restore ==
  \E top \in Objects, again \in BOOLEAN :
    /\ top \in Changed /\ \A o \in Changed : row[o].exists
    /\ \A o \in Changed \ {top} : ~row[o].expunged
    /\ row' = [o \in Objects |->
         IF o \notin Changed THEN row[o]
         ELSE [row[o] EXCEPT !.deleted = FALSE, !.ancestor = @ /\ o = top /\ ~again,
                             !.count = @ + (IF o = top /\ again THEN 2 ELSE 1)]]

Next == Create \/ Revise \/ Discard \/ Restore

Spec == Init /\ [][Next]_row
================================================================================
