----------------------------- MODULE GatewayProofs -----------------------------
(***************************************************************************)
(* Proofs about Gateway for every request: whoever it names in its headers *)
(* and whatever its URI, an accepted request acts for the subject it may   *)
(* act for, and a read-only database is not changed.                       *)
(***************************************************************************)
EXTENDS Gateway, TLAPS, SequenceTheorems, WellFoundedInduction

(* The least of some numbers, and induction over the numbers, for sets. *)
LEMMA Least ==
  ASSUME NEW X \in SUBSET Nat, X # {}
  PROVE  \E k \in X : \A j \in X : k <= j
  <1>1. PICK k \in X : \A j \in X : <<j, k>> \notin OpToRel(<, Nat)
    <2>1. IsWellFoundedOn(OpToRel(<, Nat), Nat)
      BY NatLessThanWellFounded
    <2> QED BY <2>1, WFMin
  <1>2. \A j \in X : ~(j < k)
    BY <1>1 DEF OpToRel
  <1> QED BY <1>2

LEMMA Induction ==
  ASSUME NEW X \in SUBSET Nat, 0 \in X, \A n \in X : n + 1 \in X
  PROVE  X = Nat
  <1> SUFFICES ASSUME Nat \ X # {} PROVE FALSE
    OBVIOUS
  <1>1. PICK k \in Nat \ X : \A j \in Nat \ X : k <= j
    BY Least
  <1>2. k - 1 \in X
    BY <1>1
  <1> QED BY <1>1, <1>2

(* Of the cases that are found the first is taken. *)
LEMMA FirstIsACase ==
  ASSUME NEW cases, NEW uri, Len(cases) \in Nat
  PROVE  \/ FirstCase(cases, uri) = NotFound
         \/ \E i \in 1 .. Len(cases) : /\ FirstCase(cases, uri) = cases[i]
                                       /\ Matches(Rx[cases[i].route], uri)
  <1> DEFINE found == {i \in 1 .. Len(cases) : Matches(Rx[cases[i].route], uri)}
  <1>1. FirstCase(cases, uri) = IF found = {} THEN NotFound
                                ELSE cases[CHOOSE i \in found : \A j \in found : i <= j]
    BY DEF FirstCase
  <1>2. found \in SUBSET Nat
    OBVIOUS
  <1>3. \A i \in found : i \in 1 .. Len(cases) /\ Matches(Rx[cases[i].route], uri)
    OBVIOUS
  <1> HIDE DEF found
  <1>4. CASE found # {}
    <2>1. \E i \in found : \A j \in found : i <= j
      BY <1>2, <1>4, Least
    <2>2. PICK k \in found : k = CHOOSE i \in found : \A j \in found : i <= j
      BY <2>1
    <2> QED BY <1>1, <1>3, <1>4, <2>2
  <1> QED BY <1>1, <1>4

(* What answers without the database, and what a GET is routed to. *)
Reading ==
  {"do404", "getObject", "getObjectStream", "getCiphertext", "listObjects", "getObjectByPath",
   "listGroupObjects", "listObjectsTrashed", "listUserObjectShares", "listUserObjectsShared",
   "listUserObjectsSharedToEveryone", "listObjectRevisions", "getObjectStreamForRevision", "query",
   "listMyGroupsWithObjects", "ping", "favicon", "getStats", "serveStatic", "database", "docs"}
ReadCase(c) == c.handler \in Reading /\ (c.handler = "getObjectByPath" => c.route = "Files")

LEMMA CasesRead ==
  /\ Len(GetCases) = 17 /\ \A i \in 1 .. 17 : ReadCase(GetCases[i])
  /\ Len(WithoutDatabaseCases) = 5 /\ \A i \in 1 .. 5 : ReadCase(WithoutDatabaseCases[i])
  <1>1. \A r, h : Case(r, h).route = r /\ Case(r, h).handler = h
    BY DEF Case
  <1>2. Len(GetCases) = 17 /\ Len(WithoutDatabaseCases) = 5
    BY DEF GetCases, WithoutDatabaseCases
  <1>3. ASSUME NEW i \in 1 .. 5 PROVE ReadCase(WithoutDatabaseCases[i])
    BY <1>1 DEF WithoutDatabaseCases, ReadCase, Reading
  <1>4. ASSUME NEW i \in 1 .. 17 PROVE ReadCase(GetCases[i])
    BY <1>1 DEF GetCases, ReadCase, Reading
  <1> QED BY <1>2, <1>3, <1>4
(* What a request is routed to while the database is read only. *)
LEMMA ServeReads ==
  ASSUME NEW request, NEW readOnly, readOnly
  PROVE  /\ Serve(request, readOnly).handler \in Reading \cup {"cors", "unavailable"}
         /\ Serve(request, readOnly).handler = "getObjectByPath" => Matches(Rx.Files, request.uri)
  <1> DEFINE uri == request.uri
             first == WithoutDatabase(request)
             case == FirstCase(Cases(request.method), uri)
  <1>1. NotFound.handler = "do404" /\ "do404" \in Reading
    BY DEF NotFound, Case, Reading
  <1>2. first.handler \in Reading \cup {"cors"}
    <2>1. FirstCase(WithoutDatabaseCases, uri).handler \in Reading
      <3>1. Len(WithoutDatabaseCases) \in Nat
        BY CasesRead
      <3>2. \/ FirstCase(WithoutDatabaseCases, uri) = NotFound
            \/ \E i \in 1 .. 5 : FirstCase(WithoutDatabaseCases, uri) = WithoutDatabaseCases[i]
        BY <3>1, FirstIsACase, CasesRead
      <3>3. \A i \in 1 .. 5 : ReadCase(WithoutDatabaseCases[i])
        BY CasesRead
      <3> QED BY <1>1, <3>2, <3>3 DEF ReadCase
    <2>2. Case("none", "cors").handler = "cors"
      BY DEF Case
    <2> QED BY <1>1, <2>1, <2>2 DEF WithoutDatabase
  <1>3. first.handler # "getObjectByPath"
    <2>1. FirstCase(WithoutDatabaseCases, uri).handler # "getObjectByPath"
      <3>1. Len(WithoutDatabaseCases) \in Nat /\ Len(WithoutDatabaseCases) = 5
        BY CasesRead
      <3>2. \A i \in 1 .. 5 : WithoutDatabaseCases[i].handler # "getObjectByPath"
        BY DEF WithoutDatabaseCases, Case
      <3> QED BY <1>1, <3>1, <3>2, FirstIsACase
    <2>2. Case("none", "cors").handler = "cors"
      BY DEF Case
    <2> QED BY <1>1, <2>1, <2>2 DEF WithoutDatabase
  <1>4. ASSUME request.method \notin {"POST", "DELETE"}
        PROVE  case.handler \in Reading /\ (case.handler = "getObjectByPath" => Matches(Rx.Files, uri))
    <2>1. CASE request.method = "GET"
      <3>1. Cases(request.method) = GetCases /\ Len(GetCases) \in Nat /\ Len(GetCases) = 17
        BY <2>1, CasesRead DEF Cases
      <3>2. \/ case = NotFound
            \/ \E i \in 1 .. 17 : case = GetCases[i] /\ Matches(Rx[GetCases[i].route], uri)
        BY <3>1, FirstIsACase
      <3>3. \A i \in 1 .. 17 : ReadCase(GetCases[i])
        BY CasesRead
      <3>4. Rx["Files"] = Rx.Files
        OBVIOUS
      <3> HIDE DEF case
      <3> QED BY <1>1, <3>2, <3>3, <3>4 DEF ReadCase
    <2>2. CASE request.method # "GET"
      <3>1. Cases(request.method) = <<>> /\ Len(<<>>) = 0 /\ Len(<<>>) \in Nat
        BY <1>4, <2>2 DEF Cases
      <3>2. case = NotFound
        BY <3>1, FirstIsACase
      <3> QED BY <1>1, <3>2
    <2> QED BY <2>1, <2>2
  <1>5. Serve(request, readOnly).handler =
          IF first.handler \notin {"do404", "database"} THEN first.handler
          ELSE IF request.method \in {"POST", "DELETE"} THEN "unavailable" ELSE case.handler
    BY DEF Serve
  <1> HIDE DEF first, case, uri
  <1>6. CASE first.handler \notin {"do404", "database"}
    BY <1>2, <1>3, <1>5, <1>6
  <1>7. CASE first.handler \in {"do404", "database"} /\ request.method \in {"POST", "DELETE"}
    BY <1>5, <1>7
  <1>8. CASE first.handler \in {"do404", "database"} /\ request.method \notin {"POST", "DELETE"}
    BY <1>4, <1>5, <1>8 DEF uri
  <1> QED BY <1>6, <1>7, <1>8
--------------------------------------------------------------------------------
(* Paths: the walk ends in a listing, in a stream, or nowhere. *)
Listing == {"", "notfound", "listObjects", "listMyGroupsWithObjects", "listGroupObjects"}

LEMMA PartLists ==
  ASSUME NEW tree, NEW path, NEW walk, NEW i, walk.handler \in Listing
  PROVE  PathPart(tree, path, walk, i).handler \in Listing
  <1>1. \A t, g, n : Walking(t, g, n).handler \in Listing
    BY DEF Walking, Listing
  <1>2. \A h \in Listing : \A o : Ended(h, o).handler \in Listing
    BY DEF Ended
  <1>3. \A found : GoTo(found).handler \in Listing
    BY <1>1, <1>2 DEF GoTo, PathNotFound, Listing
  <1>4. \A found, part : GoToRoot(found, part).handler \in Listing
    BY <1>1, <1>3 DEF GoToRoot
  <1>5. \A o : /\ Ended("listObjects", o).handler \in Listing
               /\ Ended("listMyGroupsWithObjects", o).handler \in Listing
               /\ Ended("listGroupObjects", o).handler \in Listing
    BY <1>2 DEF Listing
  <1> QED BY <1>1, <1>3, <1>4, <1>5 DEF PathPart

Start == Walking("", FALSE, "")

LEMMA StartLists == Start.handler \in Listing
  BY DEF Start, Walking, Listing

IsWalk(f, tree, path, n) ==
  f = [i \in 0 .. n |-> IF i = 0 THEN Start ELSE PathPart(tree, path, f[i - 1], i)]

LEMMA WalkAt ==
  ASSUME NEW f, NEW tree, NEW path, NEW n \in Nat, IsWalk(f, tree, path, n), NEW i \in 0 .. n
  PROVE  f[i] = IF i = 0 THEN Start ELSE PathPart(tree, path, f[i - 1], i)
  <1>1. ASSUME NEW g, NEW h,
               g = [j \in 0 .. n |-> IF j = 0 THEN Start ELSE PathPart(tree, path, h[j - 1], j)]
        PROVE  g[i] = IF i = 0 THEN Start ELSE PathPart(tree, path, h[i - 1], i)
    BY <1>1
  <1> QED BY <1>1, Zenon DEF IsWalk

LEMMA WalkExists ==
  ASSUME NEW tree, NEW path
  PROVE  \A n \in Nat : \E f : IsWalk(f, tree, path, n)
  <1> DEFINE N == {n \in Nat : \E f : IsWalk(f, tree, path, n)}
  <1>1. 0 \in N
    <2> DEFINE f == [i \in 0 .. 0 |-> Start]
    <2>1. IsWalk(f, tree, path, 0)
      BY DEF IsWalk
    <2> QED BY <2>1
  <1>2. ASSUME NEW n \in N PROVE n + 1 \in N
    <2>1. PICK f : IsWalk(f, tree, path, n)
      OBVIOUS
    <2> DEFINE g == [i \in 0 .. n + 1 |-> IF i = 0 THEN Start
                                          ELSE PathPart(tree, path, f[i - 1], i)]
    <2>2. \A i \in 0 .. n : g[i] = f[i]
      <3> SUFFICES ASSUME NEW i \in 0 .. n PROVE g[i] = f[i]
        OBVIOUS
      <3>0. i \in 0 .. n + 1
        OBVIOUS
      <3>1. g[i] = IF i = 0 THEN Start ELSE PathPart(tree, path, f[i - 1], i)
        BY <3>0
      <3> HIDE DEF g
      <3> QED BY <2>1, <3>1, WalkAt
    <2>3. \A i \in 0 .. n + 1 : i # 0 => i - 1 \in 0 .. n
      OBVIOUS
    <2>4. IsWalk(g, tree, path, n + 1)
      BY <2>2, <2>3 DEF IsWalk
    <2>5. n + 1 \in Nat
      OBVIOUS
    <2> HIDE DEF g
    <2> QED BY <2>4, <2>5
  <1>3. N = Nat
    <2> HIDE DEF N
    <2>1. N \in SUBSET Nat
      BY DEF N
    <2> QED BY <1>1, <1>2, <2>1, Induction
  <1> QED BY <1>3

LEMMA PathLists ==
  ASSUME NEW tree, NEW path, Len(path) \in Nat
  PROVE  ByPath(tree, path).handler \in Listing \cup {"getObjectStream"}
  <1> DEFINE c == CHOOSE f : IsWalk(f, tree, path, Len(path))
  <1>1. IsWalk(c, tree, path, Len(path))
    BY WalkExists
  <1>2. \/ ByPath(tree, path).handler = "listObjects"
        \/ ByPath(tree, path).handler = c[Len(path)].handler
        \/ ByPath(tree, path).handler = "getObjectStream"
    BY Zenon DEF ByPath, IsWalk, Start
  <1> HIDE DEF c
  <1> DEFINE N == {i \in Nat : i <= Len(path) => c[i].handler \in Listing}
  <1>3. 0 \in N
    <2>0. 0 \in 0 .. Len(path)
      OBVIOUS
    <2>1. c[0] = Start
      BY <1>1, <2>0, WalkAt
    <2>2. c[0].handler \in Listing
      BY <2>1, StartLists
    <2> QED BY <2>2
  <1>4. ASSUME NEW i \in N PROVE i + 1 \in N
    <2> SUFFICES ASSUME i + 1 <= Len(path) PROVE c[i + 1].handler \in Listing
      OBVIOUS
    <2>1. i + 1 \in 0 .. Len(path) /\ i + 1 # 0 /\ (i + 1) - 1 = i /\ c[i].handler \in Listing
      OBVIOUS
    <2>2. c[i + 1] = PathPart(tree, path, c[i], i + 1)
      <3> HIDE DEF N
      <3> QED BY <1>1, <2>1, WalkAt
    <2> QED BY <2>1, <2>2, PartLists
  <1>5. N = Nat
    <2> HIDE DEF N
    <2>1. N \in SUBSET Nat
      BY DEF N
    <2> QED BY <1>3, <1>4, <2>1, Induction
  <1>6. c[Len(path)].handler \in Listing
    BY <1>5
  <1>7. "listObjects" \in Listing
    BY Zenon DEF Listing
  <1> QED BY <1>2, <1>6, <1>7
--------------------------------------------------------------------------------
(* Names: what trim and the reversal leave of one.  e stands for the empty part. *)
IsTrim(f, dn, e, n) ==
  f = [i \in 0 .. n |-> IF i = 0 THEN <<>>
                        ELSE IF dn[i] = e THEN f[i - 1] ELSE Append(f[i - 1], dn[i])]

LEMMA TrimAt ==
  ASSUME NEW f, NEW dn, NEW e, NEW n \in Nat, IsTrim(f, dn, e, n), NEW i \in 0 .. n
  PROVE  f[i] = IF i = 0 THEN <<>> ELSE IF dn[i] = e THEN f[i - 1] ELSE Append(f[i - 1], dn[i])
  <1>1. ASSUME NEW g, NEW h,
               g = [j \in 0 .. n |-> IF j = 0 THEN <<>>
                                     ELSE IF dn[j] = e THEN h[j - 1] ELSE Append(h[j - 1], dn[j])]
        PROVE  g[i] = IF i = 0 THEN <<>> ELSE IF dn[i] = e THEN h[i - 1] ELSE Append(h[i - 1], dn[i])
    BY <1>1
  <1> QED BY <1>1, Zenon DEF IsTrim

LEMMA TrimExists ==
  ASSUME NEW dn, NEW e
  PROVE  \A n \in Nat : \E f : IsTrim(f, dn, e, n)
  <1> DEFINE N == {n \in Nat : \E f : IsTrim(f, dn, e, n)}
  <1>1. 0 \in N
    <2> DEFINE f == [i \in 0 .. 0 |-> <<>>]
    <2>1. IsTrim(f, dn, e, 0)
      BY DEF IsTrim
    <2> QED BY <2>1
  <1>2. ASSUME NEW n \in N PROVE n + 1 \in N
    <2>1. PICK f : IsTrim(f, dn, e, n)
      OBVIOUS
    <2> DEFINE g == [i \in 0 .. n + 1 |-> IF i = 0 THEN <<>>
                                          ELSE IF dn[i] = e THEN f[i - 1] ELSE Append(f[i - 1], dn[i])]
    <2>2. \A i \in 0 .. n : g[i] = f[i]
      <3> SUFFICES ASSUME NEW i \in 0 .. n PROVE g[i] = f[i]
        OBVIOUS
      <3>0. i \in 0 .. n + 1
        OBVIOUS
      <3>1. g[i] = IF i = 0 THEN <<>> ELSE IF dn[i] = e THEN f[i - 1] ELSE Append(f[i - 1], dn[i])
        BY <3>0
      <3> HIDE DEF g
      <3> QED BY <2>1, <3>1, TrimAt
    <2>3. \A i \in 0 .. n + 1 : i # 0 => i - 1 \in 0 .. n
      OBVIOUS
    <2>4. IsTrim(g, dn, e, n + 1)
      BY <2>2, <2>3 DEF IsTrim
    <2>5. n + 1 \in Nat
      OBVIOUS
    <2> HIDE DEF g
    <2> QED BY <2>4, <2>5
  <1>3. N = Nat
    <2> HIDE DEF N
    <2>1. N \in SUBSET Nat
      BY DEF N
    <2> QED BY <1>1, <1>2, <2>1, Induction
  <1> QED BY <1>3

LEMMA TrimIs ==
  ASSUME NEW dn, Len(dn) \in Nat
  PROVE  \E f : /\ IsTrim(f, dn, "", Len(dn))
               /\ Trim(dn) = IF Parts(dn) = {} THEN dn ELSE f[Len(dn)]
  <1> DEFINE c == CHOOSE f : IsTrim(f, dn, "", Len(dn))
  <1>1. IsTrim(c, dn, "", Len(dn))
    BY TrimExists, Zenon
  <1>2. Trim(dn) = IF Parts(dn) = {} THEN dn ELSE c[Len(dn)]
    BY Zenon DEF Trim, IsTrim
  <1> QED BY <1>1, <1>2, Zenon

LEMMA AppendSet ==
  ASSUME NEW D, NEW s \in Seq(D), NEW x
  PROVE  ToSet(Append(s, x)) = ToSet(s) \cup {x}
  <1>1. PICK n \in Nat : n = Len(s) /\ DOMAIN s = 1 .. n
    OBVIOUS
  <1>2. PICK t : t = Append(s, x)
    OBVIOUS
  <1>3. DOMAIN t = 1 .. n + 1 /\ t[n + 1] = x /\ \A i \in 1 .. n : t[i] = s[i]
    BY <1>1, <1>2
  <1>4. n + 1 \in 1 .. n + 1 /\ \A i \in 1 .. n + 1 : i = n + 1 \/ i \in 1 .. n
    OBVIOUS
  <1>5. \A i \in 1 .. n : i \in 1 .. n + 1
    OBVIOUS
  <1>6. ToSet(s) = {s[i] : i \in 1 .. n} /\ ToSet(t) = {t[i] : i \in 1 .. n + 1}
    BY <1>1, <1>3 DEF ToSet
  <1> QED BY <1>2, <1>3, <1>4, <1>5, <1>6

(* Every part that is not empty is kept, and no other. *)
LEMMA TrimKeeps ==
  ASSUME NEW D, NEW dn \in Seq(D), NEW e, NEW f, IsTrim(f, dn, e, Len(dn))
  PROVE  f[Len(dn)] \in Seq(D \ {e}) /\ ToSet(f[Len(dn)]) = ToSet(dn) \ {e}
  <1>0. PICK n \in Nat : n = Len(dn) /\ DOMAIN dn = 1 .. n
    OBVIOUS
  <1> DEFINE N == {i \in Nat : i <= n => f[i] \in Seq(D \ {e}) /\ ToSet(f[i]) = {dn[j] : j \in 1 .. i} \ {e}}
  <1>1. 0 \in N
    <2>1. f[0] = <<>>
      BY <1>0, TrimAt
    <2>2. <<>> \in Seq(D \ {e}) /\ ToSet(<<>>) = {}
      BY EmptySeq DEF ToSet
    <2>3. {dn[j] : j \in 1 .. 0} = {}
      OBVIOUS
    <2> QED BY <2>1, <2>2, <2>3
  <1>2. ASSUME NEW i \in N PROVE i + 1 \in N
    <2> SUFFICES ASSUME i + 1 <= n
                 PROVE  /\ f[i + 1] \in Seq(D \ {e})
                        /\ ToSet(f[i + 1]) = {dn[j] : j \in 1 .. i + 1} \ {e}
      OBVIOUS
    <2>1. /\ i + 1 \in 0 .. n /\ i + 1 # 0 /\ (i + 1) - 1 = i /\ i + 1 \in 1 .. n
          /\ f[i] \in Seq(D \ {e}) /\ ToSet(f[i]) = {dn[j] : j \in 1 .. i} \ {e}
      OBVIOUS
    <2>2. f[i + 1] = IF dn[i + 1] = e THEN f[i] ELSE Append(f[i], dn[i + 1])
      <3> HIDE DEF N
      <3> QED BY <1>0, <2>1, TrimAt
    <2>3. {dn[j] : j \in 1 .. i + 1} = {dn[j] : j \in 1 .. i} \cup {dn[i + 1]}
      <3>1. i + 1 \in 1 .. i + 1 /\ \A j \in 1 .. i + 1 : j = i + 1 \/ j \in 1 .. i
        OBVIOUS
      <3>2. \A j \in 1 .. i : j \in 1 .. i + 1
        OBVIOUS
      <3> QED BY <3>1, <3>2
    <2>4. CASE dn[i + 1] = e
      BY <2>1, <2>2, <2>3, <2>4
    <2>5. CASE dn[i + 1] # e
      <3>1. dn[i + 1] \in D \ {e}
        BY <1>0, <2>1, <2>5
      <3>2. ToSet(Append(f[i], dn[i + 1])) = ToSet(f[i]) \cup {dn[i + 1]}
        BY <2>1, AppendSet
      <3>3. Append(f[i], dn[i + 1]) \in Seq(D \ {e})
        BY <2>1, <3>1
      <3> QED BY <2>1, <2>2, <2>3, <2>5, <3>2, <3>3
    <2> QED BY <2>4, <2>5
  <1>3. N = Nat
    <2> HIDE DEF N
    <2>1. N \in SUBSET Nat
      BY DEF N
    <2> QED BY <1>1, <1>2, <2>1, Induction
  <1>4. f[n] \in Seq(D \ {e}) /\ ToSet(f[n]) = {dn[j] : j \in 1 .. n} \ {e}
    <2>1. n <= n
      OBVIOUS
    <2>2. n \in N
      <3> HIDE DEF N
      <3> QED BY <1>3
    <2> QED BY <2>1, <2>2
  <1> QED BY <1>0, <1>4 DEF ToSet

(* A name without empty parts stays as it is. *)
LEMMA TrimWhole ==
  ASSUME NEW D, NEW dn \in Seq(D), NEW e, e \notin ToSet(dn), NEW f, IsTrim(f, dn, e, Len(dn))
  PROVE  f[Len(dn)] = dn
  <1>0. PICK n \in Nat : n = Len(dn) /\ DOMAIN dn = 1 .. n
    OBVIOUS
  <1>1. \A i \in 1 .. n : dn[i] # e /\ dn[i] \in D
    BY <1>0 DEF ToSet
  <1> DEFINE N == {i \in Nat : i <= n => f[i] \in Seq(D) /\ Len(f[i]) = i /\ \A j \in 1 .. i : f[i][j] = dn[j]}
  <1>2. 0 \in N
    <2>1. f[0] = <<>>
      BY <1>0, TrimAt
    <2>2. f[0] \in Seq(D) /\ Len(f[0]) = 0
      BY <2>1, EmptySeq
    <2>3. \A j \in 1 .. 0 : f[0][j] = dn[j]
      OBVIOUS
    <2> QED BY <2>2, <2>3
  <1>3. ASSUME NEW i \in N PROVE i + 1 \in N
    <2> SUFFICES ASSUME i + 1 <= n
                 PROVE  f[i + 1] \in Seq(D) /\ Len(f[i + 1]) = i + 1 /\ \A j \in 1 .. i + 1 : f[i + 1][j] = dn[j]
      OBVIOUS
    <2>0. i \in Nat /\ (i <= n => f[i] \in Seq(D) /\ Len(f[i]) = i /\ \A j \in 1 .. i : f[i][j] = dn[j])
      BY Zenon
    <2>1. /\ i + 1 \in 0 .. n /\ i + 1 # 0 /\ (i + 1) - 1 = i /\ i + 1 \in 1 .. n
          /\ f[i] \in Seq(D) /\ Len(f[i]) = i /\ \A j \in 1 .. i : f[i][j] = dn[j]
      <3> HIDE DEF N
      <3>1. /\ i + 1 \in 0 .. n /\ i + 1 # 0 /\ (i + 1) - 1 = i /\ i + 1 \in 1 .. n /\ i <= n
        BY <2>0
      <3> QED BY <2>0, <3>1, Zenon
    <2>2. f[i + 1] = Append(f[i], dn[i + 1])
      <3> HIDE DEF N
      <3>1. f[i + 1] = IF dn[i + 1] = e THEN f[i] ELSE Append(f[i], dn[i + 1])
        BY <1>0, <2>1, TrimAt
      <3> QED BY <1>1, <2>1, <3>1
    <2>3. PICK s \in Seq(D) : s = f[i]
      BY <2>1
    <2>4. PICK x \in D : x = dn[i + 1]
      BY <1>1, <2>1
    <2>5. /\ Append(s, x) \in Seq(D) /\ Len(Append(s, x)) = i + 1 /\ Append(s, x)[i + 1] = x
          /\ \A j \in 1 .. i : Append(s, x)[j] = s[j]
      BY <2>1, <2>3
    <2>6. \A j \in 1 .. i + 1 : j = i + 1 \/ j \in 1 .. i
      OBVIOUS
    <2> QED BY <2>1, <2>2, <2>3, <2>4, <2>5, <2>6
  <1>4. N = Nat
    <2> HIDE DEF N
    <2>1. N \in SUBSET Nat
      BY DEF N
    <2> QED BY <1>2, <1>3, <2>1, Induction
  <1>5. f[n] \in Seq(D) /\ Len(f[n]) = n /\ \A j \in 1 .. n : f[n][j] = dn[j]
    BY <1>4
  <1> QED BY <1>0, <1>5, SeqEqual
LEMMA Reversed ==
  ASSUME NEW D, NEW s \in Seq(D)
  PROVE  /\ Reverse(s) \in Seq(D) /\ Len(Reverse(s)) = Len(s) /\ ToSet(Reverse(s)) = ToSet(s)
         /\ s # <<>> => /\ Reverse(s) # <<>> /\ Reverse(s)[1] = s[Len(s)] /\ Reverse(s)[Len(s)] = s[1]
  <1>1. PICK n \in Nat : n = Len(s) /\ DOMAIN s = 1 .. n
    OBVIOUS
  <1>2. \A i \in 1 .. n : n - i + 1 \in 1 .. n /\ n - (n - i + 1) + 1 = i
    OBVIOUS
  <1>3. PICK r : r = Reverse(s)
    OBVIOUS
  <1>4. r = [i \in 1 .. n |-> s[n - i + 1]]
    BY <1>1, <1>3 DEF Reverse
  <1>5. r \in Seq(D) /\ Len(r) = n /\ DOMAIN r = 1 .. n /\ \A i \in 1 .. n : r[i] = s[n - i + 1]
    BY <1>1, <1>2, <1>4
  <1>6. ToSet(r) = ToSet(s)
    <2>1. ToSet(r) = {r[i] : i \in 1 .. n} /\ ToSet(s) = {s[i] : i \in 1 .. n}
      BY <1>1, <1>5 DEF ToSet
    <2> QED BY <1>2, <1>5, <2>1
  <1>7. ASSUME s # <<>> PROVE r # <<>> /\ r[1] = s[n] /\ r[n] = s[1]
    <2>1. n # 0
      BY <1>1, <1>7, EmptySeq
    <2>2. 1 \in 1 .. n /\ n \in 1 .. n /\ n - 1 + 1 = n /\ n - n + 1 = 1
      BY <2>1
    <2> QED BY <1>5, <2>1, <2>2, EmptySeq
  <1> QED BY <1>1, <1>3, <1>5, <1>6, <1>7

(* Of a name that has parts they are kept; one that has none is left alone. *)
LEMMA TrimParts ==
  ASSUME NEW D, NEW dn \in Seq(D)
  PROVE  /\ Parts(dn) # {} => Trim(dn) \in Seq(D \ {""}) /\ ToSet(Trim(dn)) = Parts(dn)
         /\ Parts(dn) = {} => Trim(dn) = dn
  <1>1. Len(dn) \in Nat
    OBVIOUS
  <1>2. PICK f : /\ IsTrim(f, dn, "", Len(dn))
                 /\ Trim(dn) = IF Parts(dn) = {} THEN dn ELSE f[Len(dn)]
    BY <1>1, TrimIs, Zenon
  <1>3. f[Len(dn)] \in Seq(D \ {""}) /\ ToSet(f[Len(dn)]) = ToSet(dn) \ {""}
    BY <1>2, TrimKeeps, Zenon
  <1> QED BY <1>2, <1>3, Zenon DEF Parts

LEMMA TrimSame ==
  ASSUME NEW D, NEW dn \in Seq(D), "" \notin ToSet(dn)
  PROVE  Trim(dn) = dn
  <1>1. Len(dn) \in Nat
    BY LenProperties, Zenon
  <1>2. PICK f : /\ IsTrim(f, dn, "", Len(dn))
                 /\ Trim(dn) = IF Parts(dn) = {} THEN dn ELSE f[Len(dn)]
    BY <1>1, TrimIs, Zenon
  <1>3. f[Len(dn)] = dn
    BY <1>2, TrimWhole, Zenon
  <1> QED BY <1>2, <1>3, Zenon

(* The first or the last part of a name is a common name. *)
AtAnEnd(dn) == dn # <<>> /\ {dn[1], dn[Len(dn)]} \cap CommonNames # {}

(* What trimming leaves, either way round: the parts, none of them empty    *)
(* when there are any, and a common name first if there is one at an end.   *)
LEMMA NormalizedParts ==
  ASSUME NEW D, NEW dn \in Seq(D)
  PROVE  /\ Normalized(dn) \in Seq(D) /\ Parts(Normalized(dn)) = Parts(dn)
         /\ Parts(dn) # {} => "" \notin ToSet(Normalized(dn))
         /\ (Normalized(dn) = <<>> <=> dn = <<>>)
         /\ Trim(Normalized(dn)) = Normalized(dn)
         /\ AtAnEnd(Normalized(dn)) => Normalized(dn)[1] \in CommonNames
         /\ Normalized(dn) # <<>> /\ Normalized(dn)[1] \notin CommonNames =>
              Normalized(dn)[Len(Normalized(dn))] \notin CommonNames
  <1>1. PICK p : p = Trim(dn)
    OBVIOUS
  <1>2. p \in Seq(D) /\ Parts(p) = Parts(dn) /\ (Parts(dn) # {} => "" \notin ToSet(p))
    <2>1. CASE Parts(dn) = {}
      BY <1>1, <2>1, TrimParts, Zenon
    <2>2. CASE Parts(dn) # {}
      <3>1. PICK E : E = D \ {""}
        BY Zenon
      <3>2. p \in Seq(E) /\ ToSet(p) = Parts(dn)
        BY <1>1, <2>2, <3>1, TrimParts, Zenon
      <3>3. p \in Seq(D)
        BY <3>1, <3>2, SeqMonotonic
      <3>4. "" \notin Parts(dn) /\ Parts(dn) \ {""} = Parts(dn)
        BY Zenon DEF Parts
      <3>5. Parts(p) = Parts(dn)
        BY <3>2, <3>4, Zenon DEF Parts
      <3> QED BY <3>2, <3>3, <3>4, <3>5, Zenon
    <2> QED BY <2>1, <2>2
  <1>3. p = <<>> <=> dn = <<>>
    <2>1. ASSUME NEW s \in Seq(D) PROVE s = <<>> <=> ToSet(s) = {}
      BY EmptySeq DEF ToSet
    <2>2. CASE Parts(dn) = {}
      BY <1>1, <2>2, TrimParts, Zenon
    <2>3. CASE Parts(dn) # {}
      <3>1. ToSet(dn) # {} /\ ToSet(p) # {}
        BY <1>2, <2>3, Zenon DEF Parts
      <3> QED BY <1>2, <2>1, <3>1, Zenon
    <2> QED BY <2>2, <2>3
  <1>4. PICK w : w = Normalized(dn)
    OBVIOUS
  <1>5. w = IF p = <<>> \/ p[1] \in CommonNames THEN p ELSE Reverse(p)
    BY <1>1, <1>4 DEF Normalized
  <1>6. /\ w \in Seq(D) /\ ToSet(w) = ToSet(p) /\ (w = <<>> <=> p = <<>>)
        /\ AtAnEnd(w) => w[1] \in CommonNames
        /\ w # <<>> /\ w[1] \notin CommonNames => w[Len(w)] \notin CommonNames
    <2>1. CASE p = <<>> \/ p[1] \in CommonNames
      BY <1>2, <1>5, <2>1 DEF AtAnEnd
    <2>2. CASE p # <<>> /\ p[1] \notin CommonNames
      <3>1. /\ w \in Seq(D) /\ ToSet(w) = ToSet(p) /\ w # <<>> /\ w[1] = p[Len(p)] /\ w[Len(p)] = p[1]
            /\ Len(w) = Len(p)
        BY <1>2, <1>5, <2>2, Reversed
      <3> QED BY <2>2, <3>1 DEF AtAnEnd
    <2> QED BY <2>1, <2>2
  <1>7. Parts(w) = Parts(dn) /\ (Parts(dn) # {} => "" \notin ToSet(w))
    BY <1>2, <1>6, Zenon DEF Parts
  <1>8. Trim(w) = w
    <2>1. CASE Parts(dn) = {}
      BY <1>6, <1>7, <2>1, TrimParts, Zenon
    <2>2. CASE Parts(dn) # {}
      BY <1>6, <1>7, <2>2, TrimSame, Zenon
    <2> QED BY <2>1, <2>2
  <1> QED BY <1>3, <1>4, <1>6, <1>7, <1>8, Zenon

(* A name that was normalized is not changed by doing it again, provided    *)
(* that it has a common name at an end.                                     *)
LEMMA NormalizedTwice ==
  ASSUME NEW D, NEW dn \in Seq(D), AtAnEnd(Normalized(Normalized(dn)))
  PROVE  Normalized(Normalized(dn)) = Normalized(dn)
  <1>1. PICK u \in Seq(D) : /\ u = Normalized(dn) /\ Trim(u) = u
                            /\ u # <<>> /\ u[1] \notin CommonNames => u[Len(u)] \notin CommonNames
    BY NormalizedParts, Zenon
  <1>2. PICK w : w = Normalized(u) /\ AtAnEnd(w)
    BY <1>1
  <1>3. w = IF u = <<>> \/ u[1] \in CommonNames THEN u ELSE Reverse(u)
    BY <1>1, <1>2 DEF Normalized
  <1>4. CASE u = <<>> \/ u[1] \in CommonNames
    BY <1>1, <1>2, <1>3, <1>4
  <1>5. CASE u # <<>> /\ u[1] \notin CommonNames
    <2>1. w[1] = u[Len(u)] /\ w[Len(w)] = u[1]
      BY <1>3, <1>5, Reversed
    <2> QED BY <1>1, <1>2, <1>5, <2>1 DEF AtAnEnd
  <1> QED BY <1>4, <1>5
--------------------------------------------------------------------------------
(* The request: who was accepted is who CallerFromRequest made of the       *)
(* headers, and what answered a read-only request changes nothing.          *)
Inv ==
  /\ arrival \in Arrivals
  /\ stage # "received" => caller = CallerFromRequest(arrival.headers)
  /\ stage = "routing" \/ Accepted => ValidateHeaders(arrival.headers, caller)
  /\ stage = "answered" /\ arrival.readOnly => answer.handler \notin Changing

LEMMA RouteReads ==
  ASSUME arrival \in Arrivals, arrival.readOnly, Route
  PROVE  answer'.handler \notin Changing
  <1> DEFINE found == Serve(arrival.request, arrival.readOnly)
             uri == arrival.request.uri
  <1>1. answer' = IF found.handler = "getObjectByPath" THEN ByPath(arrival.tree, PathOf(uri)) ELSE found
    BY DEF Route
  <1>2. /\ found.handler \in Reading \cup {"cors", "unavailable"}
        /\ found.handler = "getObjectByPath" => Matches(Rx.Files, uri)
    BY ServeReads
  <1> HIDE DEF found, uri
  <1>3. ASSUME found.handler = "getObjectByPath"
        PROVE  Len(PathOf(uri)) \in Nat
    <2>1. PICK n \in Nat : n = Len(uri) /\ uri \in Seq(STRING)
      BY GatewayAssumption DEF uri
    <2> DEFINE X == {i \in 1 .. n : MatchesAt(Rx.Files, uri, i)}
    <2>2. X \in SUBSET Nat /\ X # {}
      BY <1>2, <1>3, <2>1 DEF Matches
    <2>3. PICK k \in X : \A j \in X : k <= j
      <3> HIDE DEF X
      <3> QED BY <2>2, Least
    <2>4. k \in 1 .. n /\ MatchesAt(Rx.Files, uri, k) /\ \A j \in 1 .. k - 1 : ~MatchesAt(Rx.Files, uri, j)
      BY <2>3
    <2> DEFINE start == CHOOSE i \in 1 .. Len(uri) :
                          MatchesAt(Rx.Files, uri, i) /\ \A j \in 1 .. i - 1 : ~MatchesAt(Rx.Files, uri, j)
    <2>5. start \in 1 .. n
      BY <2>1, <2>4
    <2>6. PathOf(uri) = SubSeq(uri, start + 1, Len(uri))
      BY DEF PathOf
    <2> HIDE DEF start
    <2> QED BY <2>1, <2>5, <2>6
  <1>4. CASE found.handler = "getObjectByPath"
    <2>1. answer'.handler \in Listing \cup {"getObjectStream"}
      BY <1>1, <1>3, <1>4, PathLists
    <2>2. \A h \in Listing \cup {"getObjectStream"} : h \notin Changing
      BY Zenon DEF Listing, Changing
    <2> QED BY <2>1, <2>2
  <1>5. CASE found.handler # "getObjectByPath"
    <2>1. \A h \in Reading \cup {"cors", "unavailable"} : h \notin Changing
      BY DEF Reading, Changing
    <2> QED BY <1>1, <1>2, <1>5, <2>1
  <1> QED BY <1>4, <1>5

LEMMA Invariant == Spec => []Inv
  <1>1. Init => Inv
    BY DEF Init, Inv, Accepted
  <1>2. ASSUME Inv, Authenticate PROVE Inv'
    <2> DEFINE c == CallerFromRequest(arrival.headers)
    <2>1. /\ stage = "received" /\ caller' = c /\ arrival' = arrival /\ arrival \in Arrivals
          /\ \/ ValidateHeaders(arrival.headers, c) /\ stage' = "routing"
             \/ stage' = "answered" /\ answer' = [NoAnswer EXCEPT !.handler = "unauthorized"]
      BY <1>2 DEF Authenticate, Inv
    <2>2. [NoAnswer EXCEPT !.handler = "unauthorized"].handler = "unauthorized"
      BY Zenon DEF NoAnswer
    <2>3. "unauthorized" \notin Changing
      BY DEF Changing
    <2> HIDE DEF c
    <2>4. CASE ValidateHeaders(arrival.headers, c) /\ stage' = "routing"
      BY <2>1, <2>4 DEF Inv, Accepted, c
    <2>5. CASE stage' = "answered" /\ answer' = [NoAnswer EXCEPT !.handler = "unauthorized"]
      <3>1. answer'.handler = "unauthorized"
        BY <2>2, <2>5
      <3> QED BY <2>1, <2>3, <2>5, <3>1 DEF Inv, Accepted, c
    <2> QED BY <2>1, <2>4, <2>5
  <1>3. ASSUME Inv, Route PROVE Inv'
    <2>1. arrival.readOnly => answer'.handler \notin Changing
      BY <1>3, RouteReads DEF Inv
    <2>2. /\ stage = "routing" /\ stage' = "answered" /\ arrival' = arrival /\ caller' = caller
          /\ arrival \in Arrivals /\ caller = CallerFromRequest(arrival.headers)
          /\ ValidateHeaders(arrival.headers, caller)
      BY <1>3 DEF Inv, Route
    <2> QED BY <2>1, <2>2 DEF Inv
  <1>4. ASSUME Inv, UNCHANGED vars PROVE Inv'
    BY <1>4 DEF Inv, vars, Accepted
  <1> QED BY <1>1, <1>2, <1>3, <1>4, PTL DEF Spec, Next

LEMMA CallerIsSubject == ASSUME Inv PROVE ActsForSubject
  <1> DEFINE h == arrival.headers
             ssl == IF h.https THEN h.cert ELSE h.ssl
             systems == {ssl, h.ext} \ {<<>>}
             named == Have(h.user)
             subject == IF named THEN h.user ELSE h.cert
             dn == caller.dn
  <1> SUFFICES ASSUME Accepted
               PROVE  /\ named => \A s \in systems : CanImpersonate(s)
                      /\ ~named => h.https /\ systems = {h.cert}
                      /\ Have(dn) /\ Parts(dn) = Parts(subject)
                      /\ Parts(subject) # {} => "" \notin ToSet(dn)
                      /\ AtAnEnd(dn) => dn[1] \in CommonNames /\ dn = Normalized(subject)
    BY Zenon DEF ActsForSubject, AtAnEnd
  <1>1. /\ arrival \in Arrivals /\ caller = CallerFromRequest(h) /\ ValidateHeaders(h, caller)
    BY Zenon DEF Inv, Accepted
  <1>2. h.user \in Seq(STRING) /\ h.cert \in Seq(STRING)
    BY <1>1, GatewayAssumption
  <1>3. /\ caller.user = Normalized(h.user) /\ caller.ssl = ssl /\ caller.ext = h.ext
        /\ caller.dn = Normalized(IF Have(caller.user) THEN caller.user ELSE ssl)
    BY <1>1 DEF CallerFromRequest
  <1>4. PICK u \in Seq(STRING) : /\ u = Normalized(h.user) /\ Parts(u) = Parts(h.user)
                                /\ (u = <<>> <=> h.user = <<>>)
    BY <1>2, NormalizedParts, Zenon
  <1>5. Have(caller.user) <=> named
    BY <1>3, <1>4, Zenon DEF Have
  <1>6. Have(caller.ssl)
    BY <1>1, Zenon DEF ValidateHeaders
  <1> HIDE DEF named
  <1>7. /\ named => \A s \in systems : CanImpersonate(s)
        /\ ~named => h.https /\ systems = {h.cert}
    <2>1. CASE h.https /\ ~Have(caller.user) /\ Have(caller.ssl) /\ ~Have(caller.ext)
      BY <1>3, <1>5, <2>1 DEF Have
    <2>2. CASE /\ Have(caller.user) /\ Have(caller.ssl) /\ CanImpersonate(caller.ssl)
               /\ Have(caller.ext) => CanImpersonate(caller.ext)
      BY <1>3, <1>5, <2>2 DEF Have
    <2> QED BY <1>1, <2>1, <2>2 DEF ValidateHeaders
  <1>8. CASE named
    <2>1. dn = Normalized(u) /\ subject = h.user /\ Have(u)
      BY <1>3, <1>4, <1>5, <1>8
    <2>2. /\ Parts(dn) = Parts(u) /\ (Parts(u) # {} => "" \notin ToSet(dn))
          /\ (dn = <<>> <=> u = <<>>)
          /\ AtAnEnd(dn) => dn[1] \in CommonNames
      BY <2>1, NormalizedParts, Zenon
    <2>3. AtAnEnd(dn) => dn = Normalized(h.user)
      BY <1>2, <1>4, <2>1, NormalizedTwice, Zenon
    <2> QED BY <1>4, <1>7, <1>8, <2>1, <2>2, <2>3, Zenon DEF Have
  <1>9. CASE ~named
    <2>1. dn = Normalized(h.cert) /\ subject = h.cert /\ Have(h.cert)
      BY <1>3, <1>5, <1>6, <1>7, <1>9
    <2>2. /\ Parts(dn) = Parts(h.cert)
          /\ (Parts(h.cert) # {} => "" \notin ToSet(dn))
          /\ (dn = <<>> <=> h.cert = <<>>)
          /\ AtAnEnd(dn) => dn[1] \in CommonNames
      <3>1. PICK c \in Seq(STRING) : c = h.cert
        BY <1>2
      <3>2. PICK w : w = Normalized(c) /\ w = dn
        BY <2>1, <3>1
      <3>3. /\ Parts(w) = Parts(c) /\ (Parts(c) # {} => "" \notin ToSet(w))
            /\ (w = <<>> <=> c = <<>>) /\ (AtAnEnd(w) => w[1] \in CommonNames)
        BY <3>2, NormalizedParts, Zenon
      <3> QED BY <3>1, <3>2, <3>3, Zenon
    <2> QED BY <1>7, <1>9, <2>1, <2>2, Zenon DEF Have
  <1> QED BY <1>8, <1>9, Zenon

(* Whatever the headers and the certificate of a request, an accepted one   *)
(* acts for the holder of the certificate, or for a user whom every system  *)
(* it names may impersonate, under that name and no other, and a subject    *)
(* whose name has its common name at an end is the same caller by header    *)
(* and by certificate.                                                      *)
THEOREM CallerCorrect == Spec => []ActsForSubject
  BY Invariant, CallerIsSubject, PTL

(* Whatever the method and the URI of a request, and through every path     *)
(* under /files, no handler that changes the database answers while it is   *)
(* read only.                                                               *)
THEOREM ReadOnlyCorrect == Spec => []ReadOnlyChangesNothing
  <1>1. Inv => ReadOnlyChangesNothing
    BY DEF Inv, ReadOnlyChangesNothing, Accepted
  <1> QED BY <1>1, Invariant, PTL
================================================================================
