------------------------ MODULE AuthorizationCacheProofs ------------------------
(***************************************************************************)
(* Proofs about AuthorizationCache for every number of nodes, requests,    *)
(* ACMs and failures: type correctness, that an association that is said   *)
(* to be built is complete, and that it never has more than is allowed.    *)
(***************************************************************************)
EXTENDS AuthorizationCache, TLAPS

(***************************************************************************)
(* Only committed ACMs are associated, and those at the start stay.        *)
(***************************************************************************)
LinkInv ==
  /\ Existing \subseteq acms
  /\ \A r \in Reqs : build[r].ids \subseteq acms /\ build[r].seen \subseteq acms
  /\ \A w \in Writers : writer[w].pc \in {"author", "users", "link"} => writer[w].acm \in acms
TypeInv == TypeOK /\ LinkInv

(***************************************************************************)
(* The steps of a request before it has placed its row, and from there to  *)
(* the end of the build it waits for.                                      *)
(***************************************************************************)
Looking == {"getuser", "createuser", "retryuser", "check", "recheck", "place"}
Placed == {"deleteparts", "insertparts", "attributes"}

(* A build is of the definition s that its request came with. *)
BuildOk(r, s) ==
  /\ req[r].pc \in Looking \cup Placed => build[r].pc = "none" /\ req[r].hash = s
  /\ req[r].pc \in Placed \/ build[r].pc # "none" => uao[r].hash = s
  /\ build[r].pc = "write" /\ build[r].mode # "root" =>
       {a \in build[r].seen : ValidForUser(s, a)} \subseteq build[r].ids

(***************************************************************************)
(* The association is complete, or a full build was lost or is to come, or *)
(* none has ended and nobody claims it.                                    *)
(***************************************************************************)
ClaimOk(s) ==
  \/ Complete(s)
  \/ lost
  \/ \E r \in Reqs : Pending(r)
  \/ /\ aoc = NoRow \/ aoc.caching \/ aoc.hash # s
     /\ \A r \in Reqs : build[r].pc # "finish"

DoneInv(s) == ClaimOk(s) /\ \A r \in Reqs : BuildOk(r, s)

--------------------------------------------------------------------------------
(* Types *)

Rows == Row \cup {NoRow}
Requests == [Reqs -> Active \cup {Idle}]
Builds == [Reqs -> Build \cup {NoBuild}]

LEMMA RowType ==
  ASSUME NEW x \in Rows
  PROVE  /\ Aged(x) \in Rows /\ Aged(x).hash = x.hash /\ Aged(x).caching = x.caching
         /\ [x EXCEPT !.caching = FALSE, !.old = FALSE] \in Rows
         /\ [x EXCEPT !.caching = FALSE, !.old = FALSE].hash = x.hash
         /\ [x EXCEPT !.caching = FALSE, !.old = FALSE].caching = FALSE
         /\ x = NoRow => Aged(x) = NoRow
  <1>1. CASE x \in Row
    <2>1. x # NoRow
      <3>1. x.hash # {}
          BY <1>1, AuthorizationAssumption DEF Row, AllSnippets
      <3> QED BY <3>1 DEF NoRow
    <2> QED BY <1>1, <2>1 DEF Rows, Row, Aged
  <1>2. CASE x = NoRow
    <2>0. PICK z : z = NoRow
        OBVIOUS
    <2>a. z \in [caching : {FALSE}, old : {FALSE}, hash : {{}}]
        BY <2>0 DEF NoRow
    <2>b. Aged(z) = z /\ [z EXCEPT !.caching = FALSE, !.old = FALSE] = z
        BY <2>a DEF Aged
    <2>1. Aged(NoRow) = NoRow
        BY <2>0, <2>b
    <2>2. [NoRow EXCEPT !.caching = FALSE, !.old = FALSE] = NoRow
        BY <2>0, <2>b
    <2>3. NoRow.caching = FALSE /\ NoRow \in Rows
        BY DEF NoRow, Rows
    <2> QED BY <1>2, <2>1, <2>2, <2>3
  <1> QED BY <1>1, <1>2 DEF Rows

LEMMA GoToType ==
  ASSUME req \in Requests, NEW r \in Reqs, req[r].pc # "idle", NEW step \in ReqSteps,
         GoTo(r, step)
  PROVE  /\ req' \in Requests /\ uao' = uao
         /\ req'[r].pc = step /\ req'[r].hash = req[r].hash
         /\ \A q \in Reqs \ {r} : req'[q] = req[q]
  <1>1. req[r] \in Active
      BY DEF Requests, Idle
  <1>2. PICK t : t = [req[r] EXCEPT !.pc = step]
      OBVIOUS
  <1>3. t \in Active /\ t.pc = step /\ t.hash = req[r].hash
      BY <1>1, <1>2 DEF Active
  <1> QED BY <1>2, <1>3 DEF GoTo, Become, Requests

LEMMA EndType ==
  ASSUME req \in Requests, uao \in [Reqs -> Rows], NEW r \in Reqs, End(r)
  PROVE  /\ req' \in Requests /\ uao' \in [Reqs -> Rows]
         /\ req'[r] = Idle /\ (build[r].pc # "none" => uao'[r] = uao[r])
         /\ \A q \in Reqs \ {r} : req'[q] = req[q] /\ uao'[q] = uao[q]
  BY DEF End, Become, Requests, Rows

LEMMA TypeStep ==
  ASSUME TypeInv, NEW r \in Reqs, Begin(r) \/ Step(r)
  PROVE  TypeInv'
  <1>0. /\ req \in Requests /\ uao \in [Reqs -> Rows] /\ build \in Builds
        /\ lru \in [Nodes -> Rows] /\ aoc \in Rows /\ NodeOf[r] \in Nodes
        /\ known \in [Nodes -> BOOLEAN] /\ parts \subseteq Part /\ user \in BOOLEAN
        /\ faults \in 0 .. MaxFaults
      BY AuthorizationAssumption DEF TypeInv, TypeOK, Requests, Rows, Builds
  <1>a. ASSUME req' \in Requests, uao' \in [Reqs -> Rows], build' \in Builds,
               \A q \in Reqs : build'[q].ids \subseteq acms /\ build'[q].seen \subseteq acms,
               lru' \in [Nodes -> Rows], aoc' \in Rows, known' \in [Nodes -> BOOLEAN],
               parts' \subseteq Part, user' \in BOOLEAN, faults' \in 0 .. MaxFaults,
               UNCHANGED <<acms, linked, covered, lost, writer>>
        PROVE  TypeInv'
      BY <1>a DEF TypeInv, TypeOK, LinkInv, Requests, Rows, Builds
  <1>b. \A q \in Reqs : build[q].ids \subseteq acms /\ build[q].seen \subseteq acms
      BY DEF TypeInv, LinkInv
  <1>c. Fault => faults' \in 0 .. MaxFaults
      BY <1>0, AuthorizationAssumption DEF Fault
  <1>d. ASSUME End(r) PROVE req' \in Requests /\ uao' \in [Reqs -> Rows]
      BY <1>0, <1>d, EndType
  <1>e. ASSUME NEW step \in ReqSteps, GoTo(r, step), req[r].pc # "idle"
        PROVE  req' \in Requests /\ uao' \in [Reqs -> Rows]
      BY <1>0, <1>e, GoToType
  <1>f. req[r].pc # "idle" => req[r] \in Active
      BY <1>0 DEF Requests, Idle
  <1>g. \A s \in AllSnippets : Placeholder(s) \in Rows /\ PartsOf(s) \subseteq Part
      BY DEF Placeholder, Rows, Row, Part
  <1>h. ASSUME HaveUser(r), req[r].pc # "idle"
        PROVE  req' \in Requests /\ uao' \in [Reqs -> Rows] /\ known' \in [Nodes -> BOOLEAN]
      BY <1>0, <1>e, <1>h DEF HaveUser, ReqSteps
  <1>1. ASSUME NEW s \in Snippets, FetchUser(r, s) PROVE TypeInv'
    <2>1. req' \in Requests /\ uao' \in [Reqs -> Rows]
        BY <1>0, <1>1 DEF FetchUser, Become, Requests, Active, ReqSteps, AllSnippets, Rows
    <2> QED BY <1>0, <1>1, <1>a, <1>b, <2>1 DEF FetchUser, database, memory
  <1>2. CASE GetUser(r)
    <2>1. req' \in Requests /\ uao' \in [Reqs -> Rows] /\ known' \in [Nodes -> BOOLEAN]
          /\ faults' \in 0 .. MaxFaults
        BY <1>0, <1>2, <1>c, <1>d, <1>e, <1>h DEF GetUser, ReqSteps
    <2> QED BY <1>0, <1>2, <1>a, <1>b, <2>1 DEF GetUser, database
  <1>3. CASE CreateUser(r)
    <2>1. /\ req' \in Requests /\ uao' \in [Reqs -> Rows] /\ known' \in [Nodes -> BOOLEAN]
          /\ faults' \in 0 .. MaxFaults /\ user' \in BOOLEAN
        BY <1>0, <1>3, <1>c, <1>d, <1>e, <1>h DEF CreateUser, ReqSteps
    <2> QED BY <1>0, <1>3, <1>a, <1>b, <2>1 DEF CreateUser
  <1>4. CASE Check(r)
    <2>0. req[r] \in Active /\ UserAOCache(r) \in Rows
        BY <1>0, <1>4, <1>f DEF Check, UserAOCache
    <2>1. req' \in Requests /\ uao' \in [Reqs -> Rows] /\ faults' \in 0 .. MaxFaults
      <3>1. CASE Fault /\ End(r)
          BY <1>c, <1>d, <3>1
      <3>2. CASE ~(Fault /\ End(r))
        <4>1. PICK w \in BOOLEAN, pc \in ReqSteps, x \in Rows :
                /\ req' = [req EXCEPT ![r] = [req[r] EXCEPT !.waits = w, !.pc = pc]]
                /\ uao' = [uao EXCEPT ![r] = x] /\ UNCHANGED faults
          <5>1. NeedsRebuild(UserAOCache(r), req[r].hash) \in BOOLEAN
              BY DEF NeedsRebuild
          <5>2. Placeholder(req[r].hash) \in Rows
              BY <1>g, <2>0 DEF Active
          <5> QED BY <1>4, <2>0, <3>2, <5>1, <5>2 DEF Check, Become, ReqSteps
        <4>2. [req[r] EXCEPT !.waits = w, !.pc = pc] \in Active
            BY <2>0 DEF Active
        <4> QED BY <1>0, <4>1, <4>2 DEF Requests
      <3> QED BY <3>1, <3>2
    <2> QED BY <1>0, <1>4, <1>a, <1>b, <2>1 DEF Check, database, memory
  <1>5. CASE Recheck(r)
    <2>1. req' \in Requests /\ uao' \in [Reqs -> Rows] /\ faults' \in 0 .. MaxFaults
        BY <1>0, <1>5, <1>c, <1>e DEF Recheck, ReqSteps
    <2> QED BY <1>0, <1>5, <1>a, <1>b, <2>1 DEF Recheck, database, memory
  <1>6. CASE SetUserAOCache(r)
    <2>0. req[r] \in Active /\ Placeholder(req[r].hash) \in Rows
      <3>1. req[r] \in Active
          BY <1>6, <1>f DEF SetUserAOCache
      <3> QED BY <1>g, <3>1 DEF Active
    <2>1. [req[r] EXCEPT !.pc = "deleteparts"] \in Active
        BY <2>0 DEF Active, ReqSteps
    <2>2. /\ req' \in Requests /\ uao' \in [Reqs -> Rows] /\ faults' \in 0 .. MaxFaults
          /\ aoc' \in Rows
        BY <1>0, <1>6, <1>c, <1>d, <2>0, <2>1 DEF SetUserAOCache, Become, Requests
    <2> QED BY <1>0, <1>6, <1>a, <1>b, <2>2 DEF SetUserAOCache, memory
  <1>7. CASE DeleteParts(r)
    <2>1. /\ req' \in Requests /\ uao' \in [Reqs -> Rows] /\ faults' \in 0 .. MaxFaults
          /\ parts' \subseteq Part
        BY <1>0, <1>7, <1>c, <1>d, <1>e DEF DeleteParts, ExecFails, ReqSteps
    <2> QED BY <1>0, <1>7, <1>a, <1>b, <2>1 DEF DeleteParts, memory
  <1>8. CASE InsertParts(r)
    <2>0. PartsOf(req[r].hash) \subseteq Part
        BY <1>8, <1>f, <1>g DEF InsertParts, Active
    <2>1. /\ req' \in Requests /\ uao' \in [Reqs -> Rows] /\ faults' \in 0 .. MaxFaults
          /\ parts' \subseteq Part
        BY <1>0, <1>8, <1>c, <1>d, <1>e, <2>0 DEF InsertParts, ExecFails, ReqSteps
    <2> QED BY <1>0, <1>8, <1>a, <1>b, <2>1 DEF InsertParts, memory
  <1>9. CASE GetAttributes(r)
    <2>1. [req[r] EXCEPT !.pc = "build", !.waits = FALSE] \in Active
        BY <1>9, <1>f DEF GetAttributes, Active, ReqSteps
    <2>2. \A m \in {"root", "sync"} :
            NewBuild(m) \in Build /\ NewBuild(m).ids = {} /\ NewBuild(m).seen = {}
        BY DEF NewBuild, Build
    <2>3. req' \in Requests /\ uao' \in [Reqs -> Rows] /\ faults' \in 0 .. MaxFaults
        BY <1>0, <1>9, <1>c, <1>d, <2>1 DEF GetAttributes, Become, Requests
    <2>4. /\ build' \in Builds
          /\ \A q \in Reqs : build'[q].ids \subseteq acms /\ build'[q].seen \subseteq acms
        BY <1>0, <1>9, <1>b, <2>2 DEF GetAttributes, Builds
    <2> QED BY <1>0, <1>9, <1>a, <2>3, <2>4 DEF GetAttributes, database, memory
  <1>10. CASE Save(r)
    <2>1. /\ req' \in Requests /\ uao' \in [Reqs -> Rows] /\ lru' \in [Nodes -> Rows]
        BY <1>0, <1>10, <1>d, <1>e DEF Save, ReqSteps
    <2> QED BY <1>0, <1>10, <1>a, <1>b, <2>1 DEF Save, database
  <1>11. CASE WaitDone(r) \/ WaitTimeout(r)
      BY <1>0, <1>11, <1>a, <1>b, <1>d DEF WaitDone, WaitTimeout, database, memory
  <1> QED BY <1>1, <1>2, <1>3, <1>4, <1>5, <1>6, <1>7, <1>8, <1>9, <1>10, <1>11
          DEF Begin, Step
--------------------------------------------------------------------------------
(* What a step of a request comes down to *)

(* A build that a request waits for is over before the request goes on. *)
WaitInv == \A r \in Reqs : build[r].mode \in {"root", "sync"} => req[r].pc = "build"

Leaves(r) ==
  /\ req'[r] = Idle /\ UNCHANGED <<aoc, build>>
  /\ build[r].pc # "none" => uao'[r] = uao[r]
Arrives(r) ==
  /\ req[r].pc = "idle" /\ build[r].pc = "none"
  /\ req'[r].pc \in Looking /\ req'[r].hash \in Snippets /\ UNCHANGED <<aoc, build>>
Looks(r) ==
  /\ req[r].pc \in Looking /\ req'[r].pc \in Looking \cup {"save"}
  /\ req'[r].hash = req[r].hash /\ UNCHANGED <<aoc, build>>
Places(r) ==
  /\ req[r].pc = "place" /\ req'[r].pc = "deleteparts" /\ req'[r].hash = req[r].hash
  /\ aoc' \in {aoc, Placeholder(req[r].hash)} /\ uao'[r] = Placeholder(req[r].hash)
  /\ UNCHANGED build
Prepares(r) ==
  /\ req[r].pc \in Placed /\ req'[r].pc \in Placed /\ req'[r].hash = req[r].hash
  /\ UNCHANGED <<aoc, uao, build>>
Starts(r) ==
  /\ req[r].pc = "attributes" /\ req'[r].pc = "build" /\ UNCHANGED <<aoc, uao>>
  /\ \E m \in {"root", "sync"} : build' = [build EXCEPT ![r] = NewBuild(m)]
Waits(r) ==
  req[r].pc = "save" /\ req'[r].pc = "wait" /\ UNCHANGED <<aoc, uao, build>>

LEMMA StepKinds ==
  ASSUME TypeInv, NEW r \in Reqs, Begin(r) \/ Step(r)
  PROVE  /\ \A q \in Reqs \ {r} : req'[q] = req[q] /\ uao'[q] = uao[q] /\ build'[q] = build[q]
         /\ req[r].pc # "build" /\ UNCHANGED <<acms, linked, covered, lost, writer>>
         /\ \/ Leaves(r) \/ Arrives(r) \/ Looks(r) \/ Places(r) \/ Prepares(r) \/ Starts(r)
            \/ Waits(r)
  <1>0. req \in Requests /\ uao \in [Reqs -> Rows] /\ build \in Builds
      BY DEF TypeInv, TypeOK, Requests, Rows, Builds
  <1>d. ASSUME End(r), UNCHANGED <<aoc, build>>
        PROVE  Leaves(r) /\ \A q \in Reqs \ {r} : req'[q] = req[q] /\ uao'[q] = uao[q]
      BY <1>0, <1>d, EndType DEF Leaves
  <1>e. ASSUME NEW step \in ReqSteps, GoTo(r, step), req[r].pc # "idle"
        PROVE  /\ req'[r].pc = step /\ req'[r].hash = req[r].hash /\ uao' = uao
               /\ \A q \in Reqs \ {r} : req'[q] = req[q] /\ uao'[q] = uao[q]
      BY <1>0, <1>e, GoToType
  <1>f. req[r].pc # "idle" => req[r] \in Active
      BY <1>0 DEF Requests, Idle
  <1>1. ASSUME NEW s \in Snippets, FetchUser(r, s)
        PROVE  /\ Arrives(r) /\ UNCHANGED <<acms, linked, covered, lost, writer>> /\ req[r].pc # "build"
               /\ \A q \in Reqs \ {r} : req'[q] = req[q] /\ uao'[q] = uao[q]
      BY <1>0, <1>1 DEF FetchUser, Become, Requests, Arrives, Looking, database
  <1>2. CASE GetUser(r)
    <2>1. CASE End(r)
        BY <1>2, <2>1, <1>d DEF GetUser, database
    <2>2. CASE HaveUser(r) \/ GoTo(r, "createuser")
        BY <1>2, <2>2, <1>e DEF GetUser, database, HaveUser, Looks, Looking, ReqSteps
    <2> QED BY <1>2, <2>1, <2>2 DEF GetUser
  <1>3. CASE CreateUser(r)
    <2>1. CASE End(r)
        BY <1>3, <2>1, <1>d DEF CreateUser
    <2>2. CASE HaveUser(r) \/ GoTo(r, "retryuser")
        BY <1>3, <2>2, <1>e DEF CreateUser, HaveUser, Looks, Looking, ReqSteps
    <2> QED BY <1>3, <2>1, <2>2 DEF CreateUser
  <1>4. CASE Check(r)
    <2>1. CASE End(r)
        BY <1>4, <2>1, <1>d DEF Check, database
    <2>2. CASE ~End(r)
      <3> DEFINE needs == NeedsRebuild(UserAOCache(r), req[r].hash)
      <3>0. PICK w, x, pc :
              /\ w = needs /\ pc = (IF needs THEN "recheck" ELSE "save")
              /\ x = (IF needs THEN Placeholder(req[r].hash) ELSE UserAOCache(r))
          OBVIOUS
      <3>1. /\ req' = [req EXCEPT ![r] = [req[r] EXCEPT !.waits = w, !.pc = pc]]
            /\ uao' = [uao EXCEPT ![r] = x] /\ pc \in {"recheck", "save"}
          BY <1>4, <2>2, <3>0 DEF Check, Become
      <3>2. /\ [req[r] EXCEPT !.waits = w, !.pc = pc].pc = pc
            /\ [req[r] EXCEPT !.waits = w, !.pc = pc].hash = req[r].hash
          BY <1>4, <1>f DEF Check, Active
      <3> QED BY <1>0, <1>4, <3>1, <3>2 DEF Check, database, Requests, Looks, Looking
    <2> QED BY <2>1, <2>2
  <1>5. CASE Recheck(r)
      BY <1>5, <1>e DEF Recheck, database, Looks, Looking, ReqSteps
  <1>6. CASE SetUserAOCache(r)
    <2>1. CASE End(r) /\ UNCHANGED aoc
        BY <1>6, <2>1, <1>d DEF SetUserAOCache
    <2>2. CASE ~(End(r) /\ UNCHANGED aoc)
      <3>2. /\ [req[r] EXCEPT !.pc = "deleteparts"].pc = "deleteparts"
            /\ [req[r] EXCEPT !.pc = "deleteparts"].hash = req[r].hash
          BY <1>6, <1>f DEF SetUserAOCache, Active
      <3> QED BY <1>0, <1>6, <2>2, <3>2 DEF SetUserAOCache, Become, Requests, Places
    <2> QED BY <2>1, <2>2
  <1>7. CASE DeleteParts(r)
    <2>1. CASE End(r)
        BY <1>7, <2>1, <1>d DEF DeleteParts
    <2>2. CASE GoTo(r, "insertparts")
        BY <1>7, <2>2, <1>e DEF DeleteParts, Prepares, Placed, ReqSteps
    <2> QED BY <1>7, <2>1, <2>2 DEF DeleteParts, ExecFails
  <1>8. CASE InsertParts(r)
    <2>1. CASE End(r)
        BY <1>8, <2>1, <1>d DEF InsertParts
    <2>2. CASE GoTo(r, "attributes")
        BY <1>8, <2>2, <1>e DEF InsertParts, Prepares, Placed, ReqSteps
    <2> QED BY <1>8, <2>1, <2>2 DEF InsertParts, ExecFails
  <1>9. CASE GetAttributes(r)
    <2>1. CASE End(r) /\ UNCHANGED build
        BY <1>9, <2>1, <1>d DEF GetAttributes, database
    <2>2. CASE ~(End(r) /\ UNCHANGED build)
      <3>1. PICK m \in {"root", "sync"} : build' = [build EXCEPT ![r] = NewBuild(m)]
          BY <1>9, <2>2 DEF GetAttributes
      <3>2. [req[r] EXCEPT !.pc = "build", !.waits = FALSE].pc = "build"
          BY <1>9, <1>f DEF GetAttributes, Active
      <3> QED BY <1>0, <1>9, <2>2, <3>1, <3>2
              DEF GetAttributes, Become, Requests, Builds, Starts, database
    <2> QED BY <2>1, <2>2
  <1>10. CASE Save(r)
    <2>1. CASE End(r)
        BY <1>10, <2>1, <1>d DEF Save, database
    <2>2. CASE GoTo(r, "wait")
        BY <1>10, <2>2, <1>e DEF Save, database, Waits, ReqSteps
    <2> QED BY <1>10, <2>1, <2>2 DEF Save
  <1>11. CASE WaitDone(r) \/ WaitTimeout(r)
      BY <1>11, <1>d DEF WaitDone, WaitTimeout, database
  <1> QED BY <1>1, <1>2, <1>3, <1>4, <1>5, <1>6, <1>7, <1>8, <1>9, <1>10, <1>11
          DEF Begin, Step, Arrives
--------------------------------------------------------------------------------
(* Builds *)

LEMMA EndBuildType ==
  ASSUME TypeInv, WaitInv, NEW r \in Reqs, build[r].pc # "none", NEW row \in Rows,
         EndBuild(r, row)
  PROVE  /\ req' \in Requests /\ build' \in Builds /\ lru' \in [Nodes -> Rows]
         /\ build'[r] = IF build[r].mode = "root" THEN NewBuild("async") ELSE NoBuild
         /\ \A q \in Reqs \ {r} : req'[q] = req[q] /\ build'[q] = build[q]
         /\ req'[r].pc = IF build[r].mode = "async" THEN req[r].pc ELSE "save"
  <1>0. /\ req \in Requests /\ build \in Builds /\ lru \in [Nodes -> Rows]
        /\ NodeOf[r] \in Nodes
      BY AuthorizationAssumption DEF TypeInv, TypeOK, Requests, Rows, Builds
  <1>1. build[r] \in Build
      BY <1>0 DEF Builds, NoBuild
  <1>2. build[r].mode # "async" => req[r] \in Active
      BY <1>0, <1>1 DEF WaitInv, Build, Requests, Idle
  <1>3. PICK t : t = [req[r] EXCEPT !.pc = "save"]
      OBVIOUS
  <1>4. build[r].mode # "async" => t \in Active /\ t.pc = "save"
      BY <1>2, <1>3 DEF Active, ReqSteps
  <1>5. NewBuild("async") \in Build
      BY DEF NewBuild, Build
  <1>6. PICK b : b = IF build[r].mode = "root" THEN NewBuild("async") ELSE NoBuild
      OBVIOUS
  <1>7. build' \in Builds /\ build'[r] = b /\ \A q \in Reqs \ {r} : build'[q] = build[q]
      BY <1>0, <1>5, <1>6 DEF EndBuild, Builds
  <1>8. /\ req' \in Requests /\ \A q \in Reqs \ {r} : req'[q] = req[q]
        /\ req'[r].pc = IF build[r].mode = "async" THEN req[r].pc ELSE "save"
      BY <1>0, <1>3, <1>4 DEF EndBuild, Become, Requests
  <1>9. lru' \in [Nodes -> Rows]
      BY <1>0 DEF EndBuild
  <1> QED BY <1>6, <1>7, <1>8, <1>9

LEMMA TypeBuild ==
  ASSUME TypeInv, WaitInv, NEW r \in Reqs, BuildStep(r) \/ BuildFails(r) \/ BuildPanics(r)
  PROVE  TypeInv' /\ WaitInv'
  <1>0. /\ req \in Requests /\ uao \in [Reqs -> Rows] /\ build \in Builds
        /\ lru \in [Nodes -> Rows] /\ aoc \in Rows /\ NodeOf[r] \in Nodes
        /\ faults \in 0 .. MaxFaults /\ acms \subseteq Acms /\ linked \subseteq acms
        /\ covered \subseteq acms /\ lost \in BOOLEAN
      BY AuthorizationAssumption DEF TypeInv, TypeOK, Requests, Rows, Builds
  <1>a. ASSUME req' \in Requests, uao' \in [Reqs -> Rows], build' \in Builds,
               \A q \in Reqs : build'[q].ids \subseteq acms /\ build'[q].seen \subseteq acms,
               lru' \in [Nodes -> Rows], aoc' \in Rows, linked' \subseteq acms,
               covered' \subseteq acms, lost' \in BOOLEAN,
               faults' \in 0 .. MaxFaults, UNCHANGED <<acms, known, parts, user, writer>>
        PROVE  TypeInv'
      BY <1>a DEF TypeInv, TypeOK, LinkInv, Requests, Rows, Builds
  <1>b. \A q \in Reqs : build[q].ids \subseteq acms /\ build[q].seen \subseteq acms
      BY DEF TypeInv, LinkInv
  <1>c. Fault => faults' \in 0 .. MaxFaults
      BY <1>0, AuthorizationAssumption DEF Fault
  <1>d. build[r].pc # "none" => build[r] \in Build
      BY <1>0 DEF Builds, NoBuild
  <1>e. NewBuild("async").ids = {} /\ NoBuild.ids = {} /\ NewBuild("async").seen = {}
        /\ NoBuild.seen = {} /\ NewBuild("async").mode = "async"
        /\ NoBuild.mode = "none"
      BY DEF NewBuild, NoBuild
  <1>1. CASE BuildRead(r)
    <2>1. PICK ids \in SUBSET acms :
            build' = [build EXCEPT ![r] = [build[r] EXCEPT !.pc = "write", !.seen = acms, !.ids = ids]]
      <3>1. PICK ids : ids = LET valid == {a \in acms : ValidForUser(uao[r].hash, a)} IN
                              IF build[r].mode = "root" THEN valid \cap RootAcms ELSE valid
          OBVIOUS
      <3>2. ids \in SUBSET acms
          BY <3>1
      <3>3. build' = [build EXCEPT ![r] = [build[r] EXCEPT !.pc = "write", !.seen = acms, !.ids = ids]]
          BY <1>0, <1>1, <3>1 DEF BuildRead, Builds
      <3> QED BY <3>2, <3>3
    <2>2. PICK b : b = [build[r] EXCEPT !.pc = "write", !.seen = acms, !.ids = ids]
        OBVIOUS
    <2>3. b \in Build /\ b.ids = ids /\ b.seen = acms /\ b.mode = build[r].mode
        BY <1>0, <1>1, <1>d, <2>1, <2>2 DEF BuildRead, Build
    <2>4. build' \in Builds /\ build'[r] = b /\ \A q \in Reqs \ {r} : build'[q] = build[q]
        BY <1>0, <2>1, <2>2, <2>3 DEF Builds
    <2>5. \A q \in Reqs : /\ build'[q].ids \subseteq acms /\ build'[q].seen \subseteq acms
                           /\ build'[q].mode = build[q].mode
        BY <1>b, <2>1, <2>3, <2>4
    <2>6. TypeInv'
        BY <1>0, <1>1, <1>a, <2>4, <2>5 DEF BuildRead, database, memory
    <2>7. WaitInv'
        BY <1>1, <2>5 DEF BuildRead, WaitInv
    <2> QED BY <2>6, <2>7
  <1>2. CASE BuildWrite(r)
    <2>2. PICK b : b = [build[r] EXCEPT !.pc = "finish", !.seen = {}, !.ids = {}]
        OBVIOUS
    <2>3. b \in Build /\ b.ids = {} /\ b.seen = {} /\ b.mode = build[r].mode
        BY <1>0, <1>2, <1>d, <2>2 DEF BuildWrite, Build
    <2>4. build' \in Builds /\ build'[r] = b /\ \A q \in Reqs \ {r} : build'[q] = build[q]
        BY <1>0, <1>2, <2>2, <2>3 DEF BuildWrite, Builds
    <2>5. \A q \in Reqs : /\ build'[q].ids \subseteq acms /\ build'[q].seen \subseteq acms
                           /\ build'[q].mode = build[q].mode
        BY <1>b, <2>3, <2>4
    <2>a. /\ linked' \subseteq acms /\ covered' \subseteq acms /\ lost' \in BOOLEAN
          /\ faults' \in 0 .. MaxFaults
        BY <1>0, <1>2, <1>b, <1>c DEF BuildWrite
    <2>6. TypeInv'
        BY <1>0, <1>2, <1>a, <2>4, <2>5, <2>a DEF BuildWrite, memory
    <2>7. WaitInv'
        BY <1>2, <2>5 DEF BuildWrite, WaitInv
    <2> QED BY <2>6, <2>7
  <1>3. CASE BuildFinish(r) \/ BuildFails(r)
    <2>1. PICK row \in Rows : /\ EndBuild(r, row) /\ build[r].pc # "none"
                              /\ uao' = uao \/ uao' = [uao EXCEPT ![r] = row]
                              /\ aoc' = aoc \/ aoc' = row
      <3>1. CASE BuildFinish(r)
          BY <1>0, <3>1, RowType DEF BuildFinish
      <3>2. CASE BuildFails(r)
          BY <1>0, <3>2 DEF BuildFails, database
      <3> QED BY <1>3, <3>1, <3>2
    <2>2. /\ faults' \in 0 .. MaxFaults /\ lost' \in BOOLEAN
          /\ UNCHANGED <<acms, known, parts, user, writer, linked, covered>>
        BY <1>0, <1>3, <1>c DEF BuildFinish, BuildFails, database
    <2>3. /\ req' \in Requests /\ build' \in Builds /\ lru' \in [Nodes -> Rows]
          /\ build'[r] = IF build[r].mode = "root" THEN NewBuild("async") ELSE NoBuild
          /\ \A q \in Reqs \ {r} : req'[q] = req[q] /\ build'[q] = build[q]
        BY <2>1, EndBuildType
    <2>4. \A q \in Reqs : build'[q].ids \subseteq acms /\ build'[q].seen \subseteq acms
        BY <1>b, <1>e, <2>3
    <2>5. TypeInv'
        BY <1>0, <1>a, <2>1, <2>2, <2>3, <2>4
    <2>6. WaitInv'
        BY <1>e, <2>3 DEF WaitInv
    <2> QED BY <2>5, <2>6
  <1>4. CASE BuildPanics(r)
    <2>1. /\ build' \in Builds /\ req' \in Requests /\ uao' \in [Reqs -> Rows]
          /\ build'[r] = NoBuild /\ \A q \in Reqs \ {r} : build'[q] = build[q] /\ req'[q] = req[q]
        BY <1>0, <1>4 DEF BuildPanics, Become, Builds, Requests, Rows
    <2>2. faults' \in 0 .. MaxFaults /\ UNCHANGED <<database, memory, writer>>
        BY <1>4, <1>c DEF BuildPanics
    <2>3. \A q \in Reqs : build'[q].ids \subseteq acms /\ build'[q].seen \subseteq acms
        BY <1>b, <1>e, <2>1
    <2>4. TypeInv'
        BY <1>0, <1>a, <2>1, <2>2, <2>3 DEF database, memory
    <2>5. WaitInv'
        BY <1>e, <2>1 DEF WaitInv
    <2> QED BY <2>4, <2>5
  <1> QED BY <1>1, <1>2, <1>3, <1>4 DEF BuildStep
--------------------------------------------------------------------------------
(* Writers, time and crashes *)

LEMMA WriterToType ==
  ASSUME writer \in [Writers -> Writer], NEW w \in Writers,
         NEW step \in {"users", "link", "end"}, WriterTo(w, step)
  PROVE  /\ writer' \in [Writers -> Writer] /\ writer'[w].pc = step
         /\ writer'[w].acm = writer[w].acm
         /\ \A v \in Writers \ {w} : writer'[v] = writer[v]
  <1>1. PICK t : t = [writer[w] EXCEPT !.pc = step]
      OBVIOUS
  <1>2. t \in Writer /\ t.pc = step /\ t.acm = writer[w].acm
      BY <1>1 DEF Writer
  <1>3. writer' = [writer EXCEPT ![w] = t]
      BY <1>1 DEF WriterTo
  <1> QED BY <1>2, <1>3

LEMMA TypeSave ==
  ASSUME TypeInv, NEW w \in Writers, SaveObject(w)
  PROVE  /\ TypeInv' /\ acms \subseteq acms' /\ linked \subseteq linked'
         /\ UNCHANGED <<aoc, req, uao, build, covered, lost>>
  <1>0. /\ writer \in [Writers -> Writer] /\ faults \in 0 .. MaxFaults
        /\ acms \subseteq Acms /\ linked \subseteq acms
      BY DEF TypeInv, TypeOK
  <1>1. Fault => faults' \in 0 .. MaxFaults
      BY <1>0, AuthorizationAssumption DEF Fault
  <1>2. ASSUME acms \subseteq acms', acms' \subseteq Acms, linked \subseteq linked',
               linked' \subseteq acms', writer' \in [Writers -> Writer],
               \A v \in Writers \ {w} : writer'[v] = writer[v],
               writer'[w].pc \in {"author", "users", "link"} => writer'[w].acm \in acms',
               faults' \in 0 .. MaxFaults,
               UNCHANGED <<aoc, req, uao, build, covered, lost, user, known, lru, parts>>
        PROVE  TypeInv'
    <2>1. LinkInv'
        BY <1>2 DEF LinkInv, TypeInv
    <2>2. TypeOK'
        BY <1>0, <1>2 DEF TypeOK, TypeInv
    <2> QED BY <2>1, <2>2 DEF TypeInv
  <1>3. writer[w].pc \in {"author", "users", "link"} => writer[w].acm \in acms
      BY DEF TypeInv, LinkInv
  <1>4. CASE SaveAcm(w)
    <2>1. UNCHANGED <<linked, aoc, req, uao, build, covered, lost, user, known, lru, parts>>
        BY <1>4 DEF SaveAcm, memory
    <2>2. CASE Fault /\ WriterTo(w, "end") /\ UNCHANGED acms
        BY <1>0, <1>1, <1>2, <2>1, <2>2, WriterToType
    <2>3. CASE ~(Fault /\ WriterTo(w, "end") /\ UNCHANGED acms)
      <3>1. PICK a \in NewAcms :
              /\ acms' = acms \cup {a} /\ UNCHANGED faults
              /\ writer' = [writer EXCEPT ![w] =
                             [pc |-> IF a \in acms THEN "end" ELSE "author", acm |-> a]]
          BY <1>4, <2>3 DEF SaveAcm
      <3>2. [pc |-> IF a \in acms THEN "end" ELSE "author", acm |-> a] \in Writer /\ a \in Acms
          BY DEF Writer, NewAcms
      <3> QED BY <1>0, <1>2, <2>1, <3>1, <3>2
    <2> QED BY <2>2, <2>3
  <1>5. CASE AssociateAuthor(w)
      BY <1>0, <1>2, <1>3, <1>5, WriterToType DEF AssociateAuthor, memory
  <1>6. CASE FindUsers(w)
    <2>1. PICK step \in {"link", "end"} : WriterTo(w, step)
        BY <1>6 DEF FindUsers
    <2> QED BY <1>0, <1>2, <1>3, <1>6, <2>1, WriterToType DEF FindUsers, memory, database
  <1>7. CASE AssociateUser(w)
      BY <1>0, <1>1, <1>2, <1>3, <1>7, WriterToType DEF AssociateUser, memory
  <1> QED BY <1>4, <1>5, <1>6, <1>7 DEF SaveObject, SaveAcm, AssociateAuthor, FindUsers,
                                        AssociateUser, memory, database

LEMMA TypeWorld ==
  ASSUME TypeInv, WaitInv, (\E n \in Nodes : Expire(n) \/ Crash(n)) \/ Tick
  PROVE  TypeInv' /\ WaitInv'
  <1>0. /\ req \in Requests /\ uao \in [Reqs -> Rows] /\ build \in Builds
        /\ lru \in [Nodes -> Rows] /\ aoc \in Rows /\ faults \in 0 .. MaxFaults
        /\ known \in [Nodes -> BOOLEAN] /\ lost \in BOOLEAN
      BY DEF TypeInv, TypeOK, Requests, Rows, Builds
  <1>1. ASSUME NEW n \in Nodes, Expire(n) PROVE TypeInv' /\ WaitInv'
    <2>1. lru' \in [Nodes -> Rows]
        BY <1>0, <1>1 DEF Expire, Rows
    <2> QED BY <1>1, <2>1 DEF Expire, TypeInv, TypeOK, LinkInv, WaitInv, Rows, database
  <1>2. ASSUME NEW n \in Nodes, Crash(n) PROVE TypeInv' /\ WaitInv'
    <2>1. lru' \in [Nodes -> Rows] /\ req' \in Requests /\ build' \in Builds
          /\ uao' \in [Reqs -> Rows] /\ lost' \in BOOLEAN
          /\ faults' \in 0 .. MaxFaults /\ known' \in [Nodes -> BOOLEAN]
        BY <1>0, <1>2, AuthorizationAssumption DEF Crash, Rows, Requests, Builds, Fault
    <2>2. NoBuild.ids = {} /\ NoBuild.seen = {} /\ NoBuild.mode = "none"
        BY DEF NoBuild
    <2>3. \A r \in Reqs : build'[r] = NoBuild \/ (build'[r] = build[r] /\ req'[r] = req[r])
      <3> TAKE r \in Reqs
      <3>1. CASE NodeOf[r] = n
          BY <1>2, <3>1 DEF Crash
      <3>2. CASE NodeOf[r] # n
          BY <1>2, <3>2 DEF Crash
      <3> QED BY <3>1, <3>2
    <2>4. \A r \in Reqs : build'[r].ids \subseteq acms /\ build'[r].seen \subseteq acms
        BY <2>2, <2>3 DEF TypeInv, LinkInv
    <2>5. WaitInv'
        BY <2>2, <2>3 DEF WaitInv
    <2>6. TypeInv'
        BY <1>2, <2>1, <2>4 DEF Crash, TypeInv, TypeOK, LinkInv, Rows, Requests, Builds
    <2> QED BY <2>5, <2>6
  <1>3. CASE Tick
    <2>1. lru' \in [Nodes -> Rows] /\ uao' \in [Reqs -> Rows] /\ aoc' \in Rows
        BY <1>0, <1>3, RowType DEF Tick
    <2> QED BY <1>3, <2>1 DEF Tick, TypeInv, TypeOK, LinkInv, WaitInv, Rows
  <1> QED BY <1>1, <1>2, <1>3

LEMMA TypeInit ==
  ASSUME Init
  PROVE  TypeInv /\ WaitInv
  <1>1. NoBuild.ids = {} /\ NoBuild.seen = {} /\ NoBuild.mode = "none"
      BY DEF NoBuild
  <1>2. [caching |-> FALSE, old |-> FALSE, hash |-> Before] \in Row
        /\ [caching |-> TRUE, old |-> TRUE, hash |-> Before] \in Row /\ PartsOf(Before) \subseteq Part
      BY DEF Row, AllSnippets, Part
  <1>3. writer \in [Writers -> Writer] /\ \A w \in Writers : writer[w].pc = "idle"
      BY DEF Init, Writer
  <1>4. 0 \in 0 .. MaxFaults /\ Existing \subseteq Acms
      BY AuthorizationAssumption
  <1>5. TypeOK
      BY <1>2, <1>3, <1>4 DEF Init, TypeOK
  <1>6. LinkInv /\ WaitInv
      BY <1>1, <1>3 DEF Init, LinkInv, WaitInv
  <1> QED BY <1>5, <1>6 DEF TypeInv

LEMMA TypeNext ==
  ASSUME TypeInv, WaitInv, [Next]_vars
  PROVE  TypeInv' /\ WaitInv'
  <1>1. ASSUME NEW r \in Reqs, Begin(r) \/ Step(r) PROVE TypeInv' /\ WaitInv'
    <2>1. TypeInv'
        BY <1>1, TypeStep
    <2>2. /\ \A q \in Reqs \ {r} : req'[q] = req[q] /\ build'[q] = build[q]
          /\ req[r].pc # "build"
          /\ \/ Leaves(r) \/ Arrives(r) \/ Looks(r) \/ Places(r) \/ Prepares(r) \/ Starts(r)
             \/ Waits(r)
        BY <1>1, StepKinds
    <2>3. build'[r] = build[r] \/ req'[r].pc = "build"
        BY <2>2 DEF Leaves, Arrives, Looks, Places, Prepares, Starts, Waits
    <2>4. WaitInv'
        BY <2>2, <2>3 DEF WaitInv
    <2> QED BY <2>1, <2>4
  <1>2. ASSUME NEW r \in Reqs, BuildStep(r) \/ BuildFails(r) \/ BuildPanics(r)
        PROVE  TypeInv' /\ WaitInv'
      BY <1>2, TypeBuild
  <1>3. ASSUME NEW w \in Writers, SaveObject(w) PROVE TypeInv' /\ WaitInv'
      BY <1>3, TypeSave DEF WaitInv
  <1>4. CASE (\E n \in Nodes : Expire(n) \/ Crash(n)) \/ Tick
      BY <1>4, TypeWorld
  <1>5. CASE UNCHANGED vars
      BY <1>5 DEF vars, database, memory, TypeInv, TypeOK, LinkInv, WaitInv
  <1> QED BY <1>1, <1>2, <1>3, <1>4, <1>5 DEF Next

(***************************************************************************)
(* Every variable keeps its type: in particular only committed ACMs are    *)
(* ever associated to the user, although a build writes the ids it has     *)
(* read earlier and a writer associates the ACM it has saved earlier.      *)
(***************************************************************************)
THEOREM AuthorizationTypes == Spec => []TypeOK
  <1>1. Init => TypeInv /\ WaitInv
      BY TypeInit
  <1>2. TypeInv /\ WaitInv /\ [Next]_vars => TypeInv' /\ WaitInv'
      BY TypeNext
  <1>3. TypeInv => TypeOK
      BY DEF TypeInv
  <1> QED BY <1>1, <1>2, <1>3, PTL DEF Spec
--------------------------------------------------------------------------------
(* An association that is said to be built is complete *)

LEMMA BuildFacts ==
  ASSUME TypeInv, NEW r \in Reqs
  PROVE  /\ build[r].pc = "none" => build[r].mode = "none"
         /\ build[r].pc \in {"none", "read", "write", "finish"}
         /\ build[r].mode \in {"none", "root", "sync", "async"}
         /\ build[r].pc # "none" => build[r] \in Build
  <1>1. build[r] \in Build \/ build[r] = NoBuild
      BY DEF TypeInv, TypeOK
  <1> QED BY <1>1 DEF Build, NoBuild

LEMMA BuildRuns ==
  ASSUME TypeInv, NEW r \in Reqs, BuildStep(r) \/ BuildFails(r) \/ BuildPanics(r)
  PROVE  build[r].pc # "none" /\ build[r] \in Build
  <1>1. build[r].pc \in {"read", "write", "finish"}
      BY DEF BuildStep, BuildRead, BuildWrite, BuildFinish, BuildFails, BuildPanics
  <1> QED BY <1>1, BuildFacts

LEMMA KeepOthers ==
  ASSUME NEW s, DoneInv(s), NEW r \in Reqs, BuildOk(r, s)',
         \A q \in Reqs \ {r} : req'[q] = req[q] /\ uao'[q] = uao[q] /\ build'[q] = build[q]
  PROVE  \A q \in Reqs : BuildOk(q, s)'
  BY DEF DoneInv, BuildOk

LEMMA DoneInit ==
  ASSUME Init, NEW s, Snippets = {s}
  PROVE  DoneInv(s)
  <1>2. NoBuild.pc = "none" /\ Idle.pc = "idle"
      BY DEF NoBuild, Idle
  <1>3. \A r \in Reqs : build[r].pc = "none" /\ req[r].pc = "idle"
      BY <1>2 DEF Init
  <1>4. \/ aoc = NoRow
        \/ aoc.caching
        \/ aoc.hash = Before /\ Complete(Before)
      BY DEF Init, Complete
  <1>5. ClaimOk(s)
      BY <1>3, <1>4 DEF ClaimOk
  <1>6. \A r \in Reqs : BuildOk(r, s)
      BY <1>3 DEF BuildOk, Looking, Placed
  <1> QED BY <1>5, <1>6 DEF DoneInv

LEMMA DoneStep ==
  ASSUME TypeInv, NEW s, Snippets = {s}, DoneInv(s), NEW r \in Reqs, Begin(r) \/ Step(r)
  PROVE  DoneInv(s)'
  <1>1. /\ \A q \in Reqs \ {r} : req'[q] = req[q] /\ uao'[q] = uao[q] /\ build'[q] = build[q]
        /\ UNCHANGED <<acms, linked, covered, lost>>
        /\ \/ Leaves(r) \/ Arrives(r) \/ Looks(r) \/ Places(r) \/ Prepares(r) \/ Starts(r)
           \/ Waits(r)
      BY StepKinds
  <1>2. ClaimOk(s) /\ BuildOk(r, s)
      BY DEF DoneInv
  <1>3. Complete(s)' = Complete(s)
      BY <1>1 DEF Complete
  <1>4. Idle.pc = "idle"
      BY DEF Idle
  <1>5. ASSUME UNCHANGED build, UNCHANGED aoc \/ aoc'.caching PROVE ClaimOk(s)'
      BY <1>1, <1>2, <1>3, <1>5 DEF ClaimOk, Pending
  <1>6. ASSUME BuildOk(r, s)', ClaimOk(s)' PROVE DoneInv(s)'
      BY <1>1, <1>6, KeepOthers DEF DoneInv
  <1>a. CASE Leaves(r)
    <2>1. BuildOk(r, s)'
        BY <1>2, <1>4, <1>a DEF BuildOk, Leaves, Looking, Placed
    <2> QED BY <1>5, <1>6, <1>a, <2>1 DEF Leaves
  <1>b. CASE Arrives(r)
    <2>1. BuildOk(r, s)'
        BY <1>b DEF BuildOk, Arrives, Looking, Placed
    <2> QED BY <1>5, <1>6, <1>b, <2>1 DEF Arrives
  <1>c. CASE Looks(r)
    <2>1. BuildOk(r, s)'
        BY <1>2, <1>c DEF BuildOk, Looks, Looking, Placed
    <2> QED BY <1>5, <1>6, <1>c, <2>1 DEF Looks
  <1>d. CASE Places(r)
    <2>0. Placeholder(s).hash = s /\ Placeholder(s).caching = TRUE /\ req[r].hash = s
        BY <1>2, <1>d DEF Placeholder, BuildOk, Places, Looking
    <2>1. BuildOk(r, s)'
        BY <1>2, <1>d, <2>0 DEF BuildOk, Places, Looking, Placed
    <2> QED BY <1>5, <1>6, <1>d, <2>0, <2>1 DEF Places
  <1>e. CASE Prepares(r)
    <2>1. BuildOk(r, s)'
        BY <1>2, <1>e DEF BuildOk, Prepares, Looking, Placed
    <2> QED BY <1>5, <1>6, <1>e, <2>1 DEF Prepares
  <1>f. CASE Starts(r)
    <2>0. build[r].pc = "none" /\ build[r].mode = "none" /\ uao[r].hash = s
        BY <1>2, <1>f, BuildFacts DEF Starts, BuildOk, Placed
    <2>1. PICK m \in {"root", "sync"} : build' = [build EXCEPT ![r] = NewBuild(m)]
        BY <1>f DEF Starts
    <2>2. build'[r].pc = "read" /\ build'[r].mode = m
        BY <2>1 DEF NewBuild, TypeInv, TypeOK
    <2>3. BuildOk(r, s)'
        BY <1>f, <2>0, <2>2 DEF BuildOk, Starts, Looking, Placed
    <2>4. ClaimOk(s)'
      <3>1. ASSUME NEW q \in Reqs, Pending(q) PROVE Pending(q)'
          BY <1>1, <2>0, <3>1 DEF Pending
      <3> QED BY <1>1, <1>2, <1>3, <1>f, <2>2, <3>1 DEF ClaimOk, Starts
    <2> QED BY <1>6, <2>3, <2>4
  <1>g. CASE Waits(r)
    <2>1. BuildOk(r, s)'
        BY <1>2, <1>g DEF BuildOk, Waits, Looking, Placed
    <2> QED BY <1>5, <1>6, <1>g, <2>1 DEF Waits
  <1> QED BY <1>1, <1>a, <1>b, <1>c, <1>d, <1>e, <1>f, <1>g

LEMMA DoneBuild ==
  ASSUME TypeInv, WaitInv, NEW s, DoneInv(s), NEW r \in Reqs,
         BuildStep(r) \/ BuildFails(r) \/ BuildPanics(r)
  PROVE  DoneInv(s)'
  <1>0. build \in Builds /\ uao \in [Reqs -> Rows] /\ req \in Requests
      BY DEF TypeInv, TypeOK, LinkInv, Rows, Builds, Requests
  <1>1. build[r].pc # "none" /\ build[r] \in Build
      BY BuildRuns
  <1>2. ClaimOk(s) /\ BuildOk(r, s)
      BY DEF DoneInv
  <1>3. uao[r].hash = s /\ req[r].pc \notin Looking \cup Placed
      BY <1>1, <1>2 DEF BuildOk
  <1>4. ASSUME BuildOk(r, s)', ClaimOk(s)',
               \A q \in Reqs \ {r} : req'[q] = req[q] /\ uao'[q] = uao[q] /\ build'[q] = build[q]
        PROVE  DoneInv(s)'
      BY <1>4, KeepOthers DEF DoneInv
  <1>5. ASSUME NEW q \in Reqs \ {r}, Pending(q), build'[q] = build[q] PROVE Pending(q)'
      BY <1>5 DEF Pending
  <1>6. CASE BuildRead(r)
    <2>1. PICK b : b = [build[r] EXCEPT !.pc = "write", !.seen = acms,
             !.ids = LET valid == {a \in acms : ValidForUser(uao[r].hash, a)} IN
                     IF build[r].mode = "root" THEN valid \cap RootAcms ELSE valid]
        OBVIOUS
    <2>2. build' = [build EXCEPT ![r] = b]
        BY <1>0, <1>6, <2>1 DEF BuildRead, Builds
    <2>3. /\ b.pc = "write" /\ b.mode = build[r].mode /\ b.seen = acms
          /\ b.mode # "root" => b.ids = {a \in acms : ValidForUser(uao[r].hash, a)}
        BY <1>1, <2>1 DEF Build
    <2>4. build'[r] = b /\ \A q \in Reqs \ {r} : build'[q] = build[q]
        BY <1>0, <2>2 DEF Builds
    <2>5. BuildOk(r, s)'
      <3>1. b.mode # "root" => {a \in b.seen : ValidForUser(s, a)} \subseteq b.ids
          BY <1>3, <2>3
      <3> QED BY <1>3, <1>6, <2>3, <2>4, <3>1 DEF BuildOk, BuildRead
    <2>6. ClaimOk(s)'
      <3>1. Pending(r) => Pending(r)'
          BY <1>6, <2>3, <2>4 DEF Pending, BuildRead
      <3>2. \A q \in Reqs : Pending(q) => Pending(q)'
          BY <1>5, <2>4, <3>1
      <3>3. (Complete(s) => Complete(s)') /\ UNCHANGED <<aoc, lost>>
          BY <1>6 DEF BuildRead, database, Complete
      <3> QED BY <1>2, <2>3, <2>4, <3>2, <3>3 DEF ClaimOk
    <2> QED BY <1>4, <1>6, <2>4, <2>5, <2>6 DEF BuildRead, database
  <1>7. CASE BuildWrite(r)
    <2>1. PICK b : b = [build[r] EXCEPT !.pc = "finish", !.seen = {}, !.ids = {}]
        OBVIOUS
    <2>2. b.pc = "finish" /\ b.mode = build[r].mode
        BY <1>1, <2>1 DEF Build
    <2>3. build'[r] = b /\ \A q \in Reqs \ {r} : build'[q] = build[q]
        BY <1>0, <1>7, <2>1 DEF BuildWrite, Builds
    <2>4. BuildOk(r, s)'
        BY <1>3, <1>7, <2>2, <2>3 DEF BuildOk, BuildWrite
    <2>5. CASE build[r].mode = "root"
      <3>1. Pending(r)'
          BY <2>2, <2>3, <2>5 DEF Pending
      <3>2. ClaimOk(s)'
          BY <3>1 DEF ClaimOk
      <3> QED BY <1>4, <1>7, <2>3, <2>4, <3>2 DEF BuildWrite
    <2>6. CASE build[r].mode # "root"
      <3>1. Complete(s)' \/ lost'
          BY <1>2, <1>7, <2>6 DEF BuildWrite, Complete, BuildOk
      <3>2. ClaimOk(s)'
          BY <3>1 DEF ClaimOk
      <3> QED BY <1>4, <1>7, <2>3, <2>4, <3>2 DEF BuildWrite
    <2> QED BY <2>5, <2>6
  <1>8. CASE BuildFinish(r) \/ BuildFails(r)
    <2>1. PICK row \in Rows :
            /\ EndBuild(r, row) /\ row.hash = s
            /\ uao' = uao \/ uao' = [uao EXCEPT ![r] = row]
            /\ aoc' = aoc \/ (aoc' = row /\ build[r].pc = "finish")
      <3>1. CASE BuildFinish(r)
          BY <1>0, <1>3, <3>1, RowType DEF BuildFinish
      <3>2. CASE BuildFails(r)
          BY <1>0, <1>3, <3>2 DEF BuildFails
      <3> QED BY <1>8, <3>1, <3>2
    <2>2. UNCHANGED <<linked, covered>> /\ (lost => lost')
      <3>1. lost \in BOOLEAN
          BY DEF TypeInv, TypeOK
      <3>2. CASE BuildFinish(r)
          BY <3>2 DEF BuildFinish
      <3>3. CASE BuildFails(r)
          BY <3>1, <3>3 DEF BuildFails
      <3> QED BY <1>8, <3>2, <3>3
    <2>3. /\ build'[r] = IF build[r].mode = "root" THEN NewBuild("async") ELSE NoBuild
          /\ \A q \in Reqs \ {r} : req'[q] = req[q] /\ build'[q] = build[q]
          /\ req'[r].pc = IF build[r].mode = "async" THEN req[r].pc ELSE "save"
        BY <1>1, <2>1, EndBuildType
    <2>4. /\ NewBuild("async").pc = "read" /\ NewBuild("async").mode = "async"
          /\ NoBuild.pc = "none" /\ NoBuild.mode = "none"
        BY DEF NewBuild, NoBuild
    <2>5. /\ \A q \in Reqs \ {r} : uao'[q] = uao[q]
          /\ uao'[r].hash = s
        BY <1>0, <1>3, <2>1
    <2>6. BuildOk(r, s)'
      <3>1. req'[r].pc \notin Looking \cup Placed
          BY <1>3, <2>3 DEF Looking, Placed
      <3>2. build'[r].pc # "write"
          BY <2>3, <2>4
      <3> QED BY <2>5, <3>1, <3>2 DEF BuildOk
    <2>7. ClaimOk(s)'
      <3>1. CASE build[r].mode = "root"
        <4>1. Pending(r)'
            BY <2>3, <2>4, <3>1 DEF Pending
        <4> QED BY <4>1 DEF ClaimOk
      <3>2. CASE Pending(r) /\ build[r].mode # "root"
        <4>1. lost'
            BY <1>8, <3>2 DEF Pending, BuildFinish, BuildFails
        <4> QED BY <4>1 DEF ClaimOk
      <3>3. CASE ~Pending(r) /\ build[r].mode # "root"
        <4>1. build'[r].pc = "none"
            BY <2>3, <2>4, <3>3
        <4>2. \A q \in Reqs : Pending(q) => Pending(q)'
            BY <1>5, <2>3, <3>3
        <4>3. Complete(s) => Complete(s)'
            BY <2>2 DEF Complete
        <4> QED BY <1>2, <2>1, <2>2, <2>3, <4>1, <4>2, <4>3 DEF ClaimOk
      <3> QED BY <3>1, <3>2, <3>3
    <2> QED BY <1>4, <2>3, <2>5, <2>6, <2>7
  <1>9. CASE BuildPanics(r)
    <2>1. /\ build'[r] = NoBuild /\ req'[r] = Idle /\ UNCHANGED <<aoc, linked, covered, lost>>
          /\ \A q \in Reqs \ {r} : req'[q] = req[q] /\ uao'[q] = uao[q] /\ build'[q] = build[q]
        BY <1>0, <1>9 DEF BuildPanics, database, Builds, Become, Requests
    <2>2. NoBuild.pc = "none" /\ Idle.pc = "idle"
        BY DEF NoBuild, Idle
    <2>3. BuildOk(r, s)'
        BY <2>1, <2>2 DEF BuildOk, Looking, Placed
    <2>4. ~Pending(r)
        BY <1>9 DEF BuildPanics, Pending
    <2>5. \A q \in Reqs : Pending(q) => Pending(q)'
        BY <1>5, <2>1, <2>4
    <2>6. Complete(s) => Complete(s)'
        BY <2>1 DEF Complete
    <2>7. ClaimOk(s)'
        BY <1>2, <2>1, <2>2, <2>5, <2>6 DEF ClaimOk
    <2> QED BY <1>4, <2>1, <2>3, <2>7
  <1> QED BY <1>6, <1>7, <1>8, <1>9 DEF BuildStep

LEMMA DoneWorld ==
  ASSUME TypeInv, NEW s, DoneInv(s),
         (\E w \in Writers : SaveObject(w)) \/ (\E n \in Nodes : Expire(n) \/ Crash(n)) \/ Tick
  PROVE  DoneInv(s)'
  <1>0. ClaimOk(s) /\ \A r \in Reqs : BuildOk(r, s)
      BY DEF DoneInv
  <1>1. ASSUME NEW w \in Writers, SaveObject(w) PROVE DoneInv(s)'
    <2>1. linked \subseteq linked' /\ UNCHANGED <<aoc, req, uao, build, covered, lost>>
        BY <1>1, TypeSave
    <2>2. Complete(s) => Complete(s)'
        BY <2>1 DEF Complete
    <2>3. ClaimOk(s)'
        BY <1>0, <2>1, <2>2 DEF ClaimOk, Pending
    <2>4. \A r \in Reqs : BuildOk(r, s)'
        BY <1>0, <2>1 DEF BuildOk
    <2> QED BY <2>3, <2>4 DEF DoneInv
  <1>2. ASSUME NEW n \in Nodes, Expire(n) PROVE DoneInv(s)'
    <2>1. UNCHANGED <<linked, covered, lost, aoc, req, uao, build>>
        BY <1>2 DEF Expire, database
    <2> QED BY <2>1 DEF DoneInv, ClaimOk, BuildOk, Pending, Complete
  <1>3. ASSUME NEW n \in Nodes, Crash(n) PROVE DoneInv(s)'
    <2>1. UNCHANGED <<linked, covered, aoc>> /\ (lost => lost')
        BY <1>3 DEF Crash
    <2>2. \A r \in Reqs : \/ build'[r] = NoBuild /\ req'[r] = Idle /\ (Pending(r) => lost')
                          \/ build'[r] = build[r] /\ req'[r] = req[r] /\ uao'[r] = uao[r]
      <3> TAKE r \in Reqs
      <3>1. CASE NodeOf[r] = n
          BY <1>3, <3>1 DEF Crash
      <3>2. CASE NodeOf[r] # n
          BY <1>3, <3>2 DEF Crash
      <3> QED BY <3>1, <3>2
    <2>3. NoBuild.pc = "none" /\ Idle.pc = "idle"
        BY DEF NoBuild, Idle
    <2>4. \A q \in Reqs : Pending(q) => Pending(q)' \/ lost'
        BY <2>2 DEF Pending
    <2>5. \A q \in Reqs : build[q].pc # "finish" => build'[q].pc # "finish"
        BY <2>2, <2>3
    <2>6. ClaimOk(s)'
        BY <1>0, <2>1, <2>4, <2>5 DEF ClaimOk, Complete
    <2>7. \A r \in Reqs : BuildOk(r, s)'
        BY <1>0, <2>2, <2>3 DEF BuildOk, Looking, Placed
    <2> QED BY <2>6, <2>7 DEF DoneInv
  <1>4. CASE Tick
    <2>0. aoc \in Rows /\ uao \in [Reqs -> Rows]
        BY DEF TypeInv, TypeOK, Rows
    <2>1. /\ UNCHANGED <<linked, covered, lost, req, build>> /\ aoc'.hash = aoc.hash
          /\ aoc'.caching = aoc.caching /\ (aoc = NoRow => aoc' = NoRow)
          /\ \A r \in Reqs : uao'[r].hash = uao[r].hash
        BY <1>4, <2>0, RowType DEF Tick
    <2>2. ClaimOk(s)'
        BY <1>0, <2>1 DEF ClaimOk, Pending, Complete
    <2>3. \A r \in Reqs : BuildOk(r, s)'
        BY <1>0, <2>1 DEF BuildOk
    <2> QED BY <2>2, <2>3 DEF DoneInv
  <1> QED BY <1>1, <1>2, <1>3, <1>4

(***************************************************************************)
(* When the useraocache row says that the association is built for the     *)
(* definition AAC returns, no full build is to follow one of the user's    *)
(* root and no full build was lost, every ACM is associated to the user    *)
(* that is valid for the definition and that the last build to write has   *)
(* seen: for any number of nodes and of requests that build it at once,    *)
(* whichever of their builds fail, panic or go down with a node            *)
(* (RebuildUserACMCache, CheckUserAOCache).  AAC returns one definition    *)
(* from now on: two that race may write each other's associations under    *)
(* the row of one of them.                                                 *)
(***************************************************************************)
THEOREM BuiltIsComplete == Spec => []DoneIsComplete
  <1>1. ASSUME NEW s, Snippets = {s} PROVE Spec => []DoneIsComplete
    <2>1. Init => TypeInv /\ WaitInv /\ DoneInv(s)
        BY <1>1, TypeInit, DoneInit
    <2>2. TypeInv /\ WaitInv /\ DoneInv(s) /\ [Next]_vars => TypeInv' /\ WaitInv' /\ DoneInv(s)'
      <3> SUFFICES ASSUME TypeInv, WaitInv, DoneInv(s), [Next]_vars
                   PROVE  TypeInv' /\ WaitInv' /\ DoneInv(s)'
          OBVIOUS
      <3>1. TypeInv' /\ WaitInv'
          BY TypeNext
      <3>2. CASE UNCHANGED vars
        <4>1. UNCHANGED <<linked, covered, lost, aoc, req, uao, build>>
            BY <3>2 DEF vars, database
        <4>2. DoneInv(s)'
            BY <4>1 DEF DoneInv, ClaimOk, BuildOk, Pending, Complete
        <4> QED BY <3>1, <4>2
      <3>3. CASE Next
          BY <1>1, <3>1, <3>3, DoneStep, DoneBuild, DoneWorld DEF Next
      <3> QED BY <3>1, <3>2, <3>3
    <2>3. TypeInv /\ DoneInv(s) => DoneIsComplete
      <3> SUFFICES ASSUME DoneInv(s), aoc # NoRow, ~aoc.caching, Snippets = {aoc.hash}, ~lost,
                          \A r \in Reqs : build[r].mode \notin {"root", "async"}
                   PROVE  Complete(aoc.hash)
          BY DEF DoneIsComplete
      <3>1. ~\E r \in Reqs : Pending(r)
          BY DEF Pending
      <3>2. aoc.hash = s
          BY <1>1
      <3> QED BY <3>1, <3>2 DEF DoneInv, ClaimOk
    <2> QED BY <2>1, <2>2, <2>3, PTL DEF Spec
  <1>2. ASSUME ~\E s : Snippets = {s} PROVE Spec => []DoneIsComplete
    <2>1. DoneIsComplete
        BY <1>2 DEF DoneIsComplete
    <2> QED BY <2>1, PTL
  <1> QED BY <1>1, <1>2
--------------------------------------------------------------------------------
(* Associations are sound *)

Allowed(a) == \E s \in AllSnippets : ValidForUser(s, a)

(***************************************************************************)
(* What is read for a build, and what a writer has found the user for, is  *)
(* valid for a definition; the parts are those of some definitions.        *)
(***************************************************************************)
BuildSound(r) ==
  /\ req[r].pc \in Looking \cup Placed => build[r].pc = "none" /\ req[r].hash \in AllSnippets
  /\ req[r].pc \in Placed \/ build[r].pc # "none" => uao[r].hash \in AllSnippets
  /\ \A a \in build[r].ids : Allowed(a)
WriterSound(w) ==
  /\ writer[w].pc \in {"author", "users", "link"} => writer[w].acm \in NewAcms
  /\ writer[w].pc = "link" => Allowed(writer[w].acm)
PartsMixed == \E T \in SUBSET AllSnippets : parts = Mixture(T)
SoundInv ==
  /\ LinksSound /\ PartsMixed
  /\ \A r \in Reqs : BuildSound(r)
  /\ \A w \in Writers : WriterSound(w)

LEMMA MixtureGrows ==
  ASSUME NEW T, NEW s
  PROVE  Mixture(T \cup {s}) = Mixture(T) \cup PartsOf(s)
  BY DEF Mixture

LEMMA SoundInit ==
  ASSUME Init
  PROVE  SoundInv
  <1>1. NoBuild.pc = "none" /\ NoBuild.ids = {} /\ Idle.pc = "idle"
      BY DEF NoBuild, Idle
  <1>2. Before \in AllSnippets
      BY DEF AllSnippets
  <1>3. LinksSound
      BY <1>2 DEF Init, LinksSound
  <1>4. PartsMixed
    <2>1. Mixture({}) = {} /\ Mixture({Before}) = PartsOf(Before)
        BY DEF Mixture
    <2>2. parts = Mixture({}) \/ parts = Mixture({Before})
        BY <2>1 DEF Init
    <2> QED BY <1>2, <2>2 DEF PartsMixed
  <1>5. \A r \in Reqs : BuildSound(r)
      BY <1>1 DEF Init, BuildSound, Looking, Placed
  <1>6. \A w \in Writers : WriterSound(w)
      BY DEF Init, WriterSound
  <1> QED BY <1>3, <1>4, <1>5, <1>6 DEF SoundInv

(* A step of a request leaves the parts, deletes them or adds all of its own. *)
LEMMA PartsStep ==
  ASSUME NEW r \in Reqs, Begin(r) \/ Step(r)
  PROVE  \/ parts' \in {parts, {}}
         \/ req[r].pc \in Placed /\ parts' = parts \cup PartsOf(req[r].hash)
  <1>1. CASE Begin(r)
      BY <1>1 DEF Begin, FetchUser, database
  <1>2. CASE GetUser(r) \/ CreateUser(r) \/ Check(r) \/ Recheck(r) \/ SetUserAOCache(r)
      BY <1>2 DEF GetUser, CreateUser, Check, Recheck, SetUserAOCache, database
  <1>3. CASE DeleteParts(r) \/ InsertParts(r)
      BY <1>3 DEF DeleteParts, InsertParts, Placed
  <1>4. CASE GetAttributes(r) \/ Save(r) \/ WaitDone(r) \/ WaitTimeout(r)
      BY <1>4 DEF GetAttributes, Save, WaitDone, WaitTimeout, database
  <1> QED BY <1>1, <1>2, <1>3, <1>4 DEF Step

LEMMA SoundStep ==
  ASSUME TypeInv, SoundInv, NEW r \in Reqs, Begin(r) \/ Step(r)
  PROVE  SoundInv'
  <1>1. /\ \A q \in Reqs \ {r} : req'[q] = req[q] /\ uao'[q] = uao[q] /\ build'[q] = build[q]
        /\ UNCHANGED <<acms, linked, writer>>
        /\ \/ Leaves(r) \/ Arrives(r) \/ Looks(r) \/ Places(r) \/ Prepares(r) \/ Starts(r)
           \/ Waits(r)
      BY StepKinds
  <1>2. LinksSound /\ PartsMixed /\ BuildSound(r) /\ \A q \in Reqs : BuildSound(q)
      BY DEF SoundInv
  <1>3. PartsMixed'
    <2>1. PICK T \in SUBSET AllSnippets : parts = Mixture(T)
        BY <1>2 DEF PartsMixed
    <2>2. Mixture({}) = {}
        BY DEF Mixture
    <2>3. CASE parts' = parts
        BY <2>1, <2>3 DEF PartsMixed
    <2>4. CASE parts' = {}
        BY <2>2, <2>4 DEF PartsMixed
    <2>5. CASE req[r].pc \in Placed /\ parts' = parts \cup PartsOf(req[r].hash)
      <3>1. req[r].hash \in AllSnippets
          BY <1>2, <2>5 DEF BuildSound
      <3>2. parts' = Mixture(T \cup {req[r].hash})
          BY <2>1, <2>5, MixtureGrows
      <3> QED BY <3>1, <3>2 DEF PartsMixed
    <2> QED BY <2>3, <2>4, <2>5, PartsStep
  <1>4. Idle.pc = "idle"
      BY DEF Idle
  <1>5. BuildSound(r)'
    <2>a. CASE Leaves(r)
        BY <1>2, <1>4, <2>a DEF BuildSound, Leaves, Looking, Placed
    <2>b. CASE Arrives(r)
        BY <1>2, <2>b DEF BuildSound, Arrives, Looking, Placed, AllSnippets
    <2>c. CASE Looks(r)
        BY <1>2, <2>c DEF BuildSound, Looks, Looking, Placed
    <2>d. CASE Places(r)
      <3>1. Placeholder(req[r].hash).hash = req[r].hash
          BY DEF Placeholder
      <3> QED BY <1>2, <2>d, <3>1 DEF BuildSound, Places, Looking, Placed
    <2>e. CASE Prepares(r)
        BY <1>2, <2>e DEF BuildSound, Prepares, Looking, Placed
    <2>f. CASE Starts(r)
      <3>1. PICK m \in {"root", "sync"} : build' = [build EXCEPT ![r] = NewBuild(m)]
          BY <2>f DEF Starts
      <3>2. build'[r].pc = "read" /\ build'[r].ids = {}
          BY <3>1 DEF NewBuild, TypeInv, TypeOK
      <3> QED BY <1>2, <2>f, <3>2 DEF BuildSound, Starts, Looking, Placed
    <2>g. CASE Waits(r)
        BY <1>2, <2>g DEF BuildSound, Waits, Looking, Placed
    <2> QED BY <1>1, <2>a, <2>b, <2>c, <2>d, <2>e, <2>f, <2>g
  <1>6. \A q \in Reqs : BuildSound(q)'
      BY <1>1, <1>2, <1>5 DEF BuildSound
  <1> QED BY <1>1, <1>3, <1>6 DEF SoundInv, LinksSound, WriterSound

LEMMA SoundBuild ==
  ASSUME TypeInv, WaitInv, SoundInv, NEW r \in Reqs,
         BuildStep(r) \/ BuildFails(r) \/ BuildPanics(r)
  PROVE  SoundInv'
  <1>0. build \in Builds /\ uao \in [Reqs -> Rows] /\ req \in Requests
      BY DEF TypeInv, TypeOK, Rows, Builds, Requests
  <1>1. build[r].pc # "none" /\ build[r] \in Build
      BY BuildRuns
  <1>2. /\ LinksSound /\ PartsMixed /\ BuildSound(r) /\ (\A q \in Reqs : BuildSound(q))
        /\ \A w \in Writers : WriterSound(w)
      BY DEF SoundInv
  <1>3. uao[r].hash \in AllSnippets /\ req[r].pc \notin Looking \cup Placed
      BY <1>1, <1>2 DEF BuildSound
  <1>4. ASSUME BuildSound(r)', LinksSound', UNCHANGED <<parts, writer>>,
               \A q \in Reqs \ {r} : req'[q] = req[q] /\ uao'[q] = uao[q] /\ build'[q] = build[q]
        PROVE  SoundInv'
    <2>1. \A q \in Reqs : BuildSound(q)'
        BY <1>2, <1>4 DEF BuildSound
    <2> QED BY <1>2, <1>4, <2>1 DEF SoundInv, PartsMixed, WriterSound
  <1>5. CASE BuildRead(r)
    <2>1. PICK ids : /\ \A a \in ids : ValidForUser(uao[r].hash, a)
                     /\ build' = [build EXCEPT ![r] = [build[r] EXCEPT !.pc = "write", !.seen = acms, !.ids = ids]]
      <3>1. PICK ids : ids = LET valid == {a \in acms : ValidForUser(uao[r].hash, a)} IN
                              IF build[r].mode = "root" THEN valid \cap RootAcms ELSE valid
          OBVIOUS
      <3>2. \A a \in ids : ValidForUser(uao[r].hash, a)
          BY <3>1
      <3>3. build' = [build EXCEPT ![r] = [build[r] EXCEPT !.pc = "write", !.seen = acms, !.ids = ids]]
          BY <1>0, <1>5, <3>1 DEF BuildRead, Builds
      <3> QED BY <3>2, <3>3
    <2>2. build'[r].pc = "write" /\ build'[r].ids = ids /\ \A q \in Reqs \ {r} : build'[q] = build[q]
        BY <1>0, <1>1, <2>1 DEF Builds, Build
    <2>3. \A a \in ids : Allowed(a)
        BY <1>3, <2>1 DEF Allowed
    <2>4. UNCHANGED <<linked, parts, req, uao, writer>>
        BY <1>5 DEF BuildRead, database
    <2>5. BuildSound(r)'
        BY <1>3, <2>2, <2>3, <2>4 DEF BuildSound
    <2>6. LinksSound'
        BY <1>2, <2>4 DEF LinksSound
    <2> QED BY <1>4, <2>2, <2>4, <2>5, <2>6
  <1>6. CASE BuildWrite(r)
    <2>1. UNCHANGED <<parts, req, uao, writer>> /\ linked' \in {linked, build[r].ids}
        BY <1>6 DEF BuildWrite
    <2>2. /\ build'[r].pc = "finish" /\ build'[r].ids = {}
          /\ \A q \in Reqs \ {r} : build'[q] = build[q]
        BY <1>0, <1>1, <1>6 DEF BuildWrite, Builds, Build
    <2>3. BuildSound(r)'
        BY <1>2, <1>3, <2>1, <2>2 DEF BuildSound
    <2>4. LinksSound'
        BY <1>2, <2>1 DEF LinksSound, BuildSound, Allowed
    <2> QED BY <1>4, <2>1, <2>2, <2>3, <2>4
  <1>7. CASE BuildFinish(r) \/ BuildFails(r)
    <2>0. uao[r] \in Rows
        BY <1>0
    <2>1. PICK line \in Rows : /\ EndBuild(r, line) /\ uao'[r].hash = uao[r].hash
                               /\ \A q \in Reqs \ {r} : uao'[q] = uao[q]
      <3>1. CASE BuildFinish(r)
          BY <1>0, <2>0, <3>1, RowType DEF BuildFinish
      <3>2. CASE BuildFails(r)
          BY <1>0, <2>0, <3>2 DEF BuildFails
      <3> QED BY <1>7, <3>1, <3>2
    <2>2. UNCHANGED <<linked, parts, writer>>
        BY <1>7 DEF BuildFinish, BuildFails, database
    <2>3. /\ build'[r] = IF build[r].mode = "root" THEN NewBuild("async") ELSE NoBuild
          /\ \A q \in Reqs \ {r} : req'[q] = req[q] /\ build'[q] = build[q]
          /\ req'[r].pc = IF build[r].mode = "async" THEN req[r].pc ELSE "save"
        BY <1>1, <2>1, EndBuildType
    <2>4. NewBuild("async").ids = {} /\ NoBuild.ids = {} /\ NoBuild.pc = "none"
        BY DEF NewBuild, NoBuild
    <2>5. BuildSound(r)'
        BY <1>3, <2>1, <2>3, <2>4 DEF BuildSound, Looking, Placed
    <2>6. LinksSound'
        BY <1>2, <2>2 DEF LinksSound
    <2> QED BY <1>4, <2>1, <2>2, <2>3, <2>5, <2>6
  <1>8. CASE BuildPanics(r)
    <2>1. UNCHANGED <<linked, parts, writer>>
        BY <1>8 DEF BuildPanics, database
    <2>2. /\ build'[r] = NoBuild /\ req'[r] = Idle
          /\ \A q \in Reqs \ {r} : req'[q] = req[q] /\ uao'[q] = uao[q] /\ build'[q] = build[q]
        BY <1>0, <1>8 DEF BuildPanics, Builds, Become, Requests
    <2>3. NoBuild.ids = {} /\ NoBuild.pc = "none" /\ Idle.pc = "idle"
        BY DEF NoBuild, Idle
    <2>4. BuildSound(r)'
        BY <2>2, <2>3 DEF BuildSound, Looking, Placed
    <2>5. LinksSound'
        BY <1>2, <2>1 DEF LinksSound
    <2> QED BY <1>4, <2>1, <2>2, <2>4, <2>5
  <1> QED BY <1>5, <1>6, <1>7, <1>8 DEF BuildStep

LEMMA SoundSave ==
  ASSUME TypeInv, PartsAgree, SoundInv, NEW w \in Writers, SaveObject(w)
  PROVE  SoundInv'
  <1>0. UNCHANGED <<req, uao, build>>
      BY TypeSave
  <1>1. writer \in [Writers -> Writer]
      BY DEF TypeInv, TypeOK
  <1>2. /\ LinksSound /\ PartsMixed /\ (\A q \in Reqs : BuildSound(q)) /\ WriterSound(w)
        /\ \A v \in Writers : WriterSound(v)
      BY DEF SoundInv
  <1>4. ASSUME WriterSound(w)', \A v \in Writers \ {w} : writer'[v] = writer[v], UNCHANGED parts,
               linked' = linked \/ (linked' = linked \cup {writer[w].acm} /\ Allowed(writer[w].acm))
        PROVE  SoundInv'
    <2>1. \A v \in Writers : WriterSound(v)'
        BY <1>2, <1>4 DEF WriterSound
    <2>2. \A q \in Reqs : BuildSound(q)'
        BY <1>0, <1>2 DEF BuildSound
    <2>3. LinksSound'
        BY <1>2, <1>4 DEF LinksSound, Allowed
    <2> QED BY <1>2, <1>4, <2>1, <2>2, <2>3 DEF SoundInv, PartsMixed
  <1>5. CASE SaveAcm(w)
    <2>1. UNCHANGED <<parts, linked>>
        BY <1>5 DEF SaveAcm
    <2>2. WriterSound(w)' /\ \A v \in Writers \ {w} : writer'[v] = writer[v]
      <3>1. CASE WriterTo(w, "end")
          BY <1>1, <3>1, WriterToType DEF WriterSound
      <3>2. CASE ~WriterTo(w, "end")
        <4>1. PICK a \in NewAcms :
                writer' = [writer EXCEPT ![w] =
                             [pc |-> IF a \in acms THEN "end" ELSE "author", acm |-> a]]
            BY <1>5, <3>2 DEF SaveAcm
        <4> QED BY <1>1, <4>1 DEF WriterSound
      <3> QED BY <3>1, <3>2
    <2> QED BY <1>4, <2>1, <2>2
  <1>6. CASE AssociateAuthor(w)
    <2>1. WriterTo(w, "users") /\ UNCHANGED parts /\ writer[w].pc = "author"
        BY <1>6 DEF AssociateAuthor
    <2>2. linked' = linked \/ (linked' = linked \cup {writer[w].acm} /\ Allowed(writer[w].acm))
        BY <1>6 DEF AssociateAuthor, Allowed, AllSnippets
    <2>3. WriterSound(w)' /\ \A v \in Writers \ {w} : writer'[v] = writer[v]
        BY <1>1, <1>2, <2>1, WriterToType DEF WriterSound
    <2> QED BY <1>4, <2>1, <2>2, <2>3
  <1>7. CASE FindUsers(w)
    <2>1. PICK T \in SUBSET AllSnippets : parts = Mixture(T)
        BY <1>2 DEF PartsMixed
    <2>2. writer[w].pc = "users" /\ writer[w].acm \in NewAcms
        BY <1>2, <1>7 DEF FindUsers, WriterSound
    <2>3. UserFound(writer[w].acm) => Allowed(writer[w].acm)
        BY <2>1, <2>2 DEF UserFound, PartsAgree, Allowed
    <2>4. PICK step \in {"link", "end"} : WriterTo(w, step) /\ (step = "link" => UserFound(writer[w].acm))
        BY <1>7 DEF FindUsers
    <2>5. UNCHANGED <<parts, linked>>
        BY <1>7 DEF FindUsers, database
    <2>6. WriterSound(w)' /\ \A v \in Writers \ {w} : writer'[v] = writer[v]
        BY <1>1, <2>2, <2>3, <2>4, WriterToType DEF WriterSound
    <2> QED BY <1>4, <2>5, <2>6
  <1>8. CASE AssociateUser(w)
    <2>1. WriterTo(w, "end") /\ UNCHANGED parts
        BY <1>8 DEF AssociateUser
    <2>2. linked' = linked \/ (linked' = linked \cup {writer[w].acm} /\ Allowed(writer[w].acm))
        BY <1>2, <1>8 DEF AssociateUser, WriterSound
    <2>3. WriterSound(w)' /\ \A v \in Writers \ {w} : writer'[v] = writer[v]
        BY <1>1, <2>1, WriterToType DEF WriterSound
    <2> QED BY <1>4, <2>1, <2>2, <2>3
  <1> QED BY <1>5, <1>6, <1>7, <1>8 DEF SaveObject

LEMMA SoundWorld ==
  ASSUME TypeInv, SoundInv, (\E n \in Nodes : Expire(n) \/ Crash(n)) \/ Tick \/ UNCHANGED vars
  PROVE  SoundInv'
  <1>1. /\ LinksSound /\ PartsMixed /\ (\A q \in Reqs : BuildSound(q))
        /\ \A w \in Writers : WriterSound(w)
      BY DEF SoundInv
  <1>2. UNCHANGED <<linked, parts, writer>>
      BY DEF Expire, Crash, Tick, vars, database
  <1>3. NoBuild.pc = "none" /\ NoBuild.ids = {} /\ Idle.pc = "idle"
      BY DEF NoBuild, Idle
  <1>4. \A q \in Reqs : \/ build'[q] = NoBuild /\ req'[q] = Idle
                        \/ /\ build'[q] = build[q] /\ req'[q] = req[q]
                           /\ uao'[q].hash = uao[q].hash
    <2>1. ASSUME NEW n \in Nodes, Expire(n) PROVE UNCHANGED <<uao, build, req>>
        BY <2>1 DEF Expire
    <2>2. ASSUME NEW n \in Nodes, Crash(n), NEW q \in Reqs
          PROVE  \/ build'[q] = NoBuild /\ req'[q] = Idle
                 \/ build'[q] = build[q] /\ req'[q] = req[q] /\ uao'[q] = uao[q]
      <3>1. CASE NodeOf[q] = n
          BY <2>2, <3>1 DEF Crash
      <3>2. CASE NodeOf[q] # n
          BY <2>2, <3>2 DEF Crash
      <3> QED BY <3>1, <3>2
    <2>3. ASSUME Tick, NEW q \in Reqs PROVE uao'[q].hash = uao[q].hash /\ UNCHANGED <<build, req>>
      <3>1. uao[q] \in Rows
          BY DEF TypeInv, TypeOK, Rows
      <3> QED BY <2>3, <3>1, RowType DEF Tick
    <2>4. UNCHANGED vars => UNCHANGED <<uao, build, req>>
        BY DEF vars
    <2> QED BY <2>1, <2>2, <2>3, <2>4
  <1>5. \A q \in Reqs : BuildSound(q)'
      BY <1>1, <1>3, <1>4 DEF BuildSound, Looking, Placed
  <1> QED BY <1>1, <1>2, <1>5 DEF SoundInv, LinksSound, PartsMixed, WriterSound

(***************************************************************************)
(* The user is never associated to an ACM that is not valid for him under  *)
(* one of his definitions, whichever requests build the association at     *)
(* once, fail half way or are lost with their node: the builds of          *)
(* RebuildUserACMCache write what they read earlier, and                   *)
(* AssociateUsersToNewACM goes by the rows of the parts, which failed      *)
(* statements and other requests leave mixed.  The premise is about the    *)
(* definitions only: no mixture of them admits more than they do.          *)
(***************************************************************************)
THEOREM AssociationIsSound ==
  ASSUME PartsAgree
  PROVE  Spec => []LinksSound
  <1>1. Init => TypeInv /\ WaitInv /\ SoundInv
      BY TypeInit, SoundInit
  <1>2. TypeInv /\ WaitInv /\ SoundInv /\ [Next]_vars => TypeInv' /\ WaitInv' /\ SoundInv'
    <2> SUFFICES ASSUME TypeInv, WaitInv, SoundInv, [Next]_vars
                 PROVE  TypeInv' /\ WaitInv' /\ SoundInv'
        OBVIOUS
    <2>1. TypeInv' /\ WaitInv'
        BY TypeNext
    <2>2. CASE UNCHANGED vars
        BY <2>1, <2>2, SoundWorld
    <2>3. CASE Next
        BY <2>1, <2>3, SoundStep, SoundBuild, SoundSave, SoundWorld DEF Next
    <2> QED BY <2>2, <2>3
  <1>3. SoundInv => LinksSound
      BY DEF SoundInv
  <1> QED BY <1>1, <1>2, <1>3, PTL DEF Spec
================================================================================
