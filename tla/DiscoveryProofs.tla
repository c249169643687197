---------------------------- MODULE DiscoveryProofs ----------------------------
(***************************************************************************)
(* Proofs about Discovery for every number of connections, faults and AAC  *)
(* instances: the connection in use is never closed under its users, and a *)
(* node that was stopped is not announced again.                           *)
(***************************************************************************)
EXTENDS Discovery, TLAPS

TrackerStages == {"off", "mount", "list", "get", "handle", "send", "wait", "recover", "redial",
                  "register", "again", "cleanup", "empty", "emptyBad"}
Stages == TrackerStages \cup {"connect", "waitaac", "announce", "serving", "dead", "idle",
                              "reannounce", "delete", "stopped"}

(***************************************************************************)
(* Where each goroutine can stand.                                         *)
(***************************************************************************)
StagesOK ==
    /\ at \in [Procs -> Stages]
    /\ at["main"] \in {"connect", "waitaac", "announce", "serving", "dead"}
    /\ at["keepalive"] \in {"off", "idle", "reannounce"}
    /\ at["aackeep"] \in {"off", "idle", "send"}
    /\ at["stop"] \in {"off", "idle", "delete", "stopped"}
    /\ \A t \in Trackers : at[t] \in TrackerStages
    /\ at["main"] = "connect" => \A p \in Procs \ {"main"} : at[p] = "off"

Watches == [Trackers -> [conn : Nat, ev : {"none", "armed", "changed", "error"}]]

TypeInv ==
    /\ StagesOK
    /\ conn \in Nat /\ closed \subseteq Nat
    /\ step \in [Procs -> {"test", "proto", "node"}] /\ on \in [Procs -> Nat]
    /\ back \in [Trackers -> {"mount", "list"}]
    /\ old \in [Trackers -> Nat]
    /\ watch \in Watches

(***************************************************************************)
(* Connections are numbered in the order they are made, and the one in use *)
(* is the newest: a recovery discards an older one than it has put in      *)
(* place, also when another recovery has replaced that meanwhile.          *)
(***************************************************************************)
ConnInv ==
    /\ conns = conn
    /\ at["main"] = "connect" <=> conn = 0
    /\ \A c \in closed : c < conn
    /\ \A t \in Trackers : at[t] = "register" => old[t] <= conn
    /\ \A t \in Trackers : at[t] \in {"again", "cleanup"} => old[t] < conn

(* A watch that is armed is on an open connection. *)
WatchInv == \A t \in Trackers : watch[t].ev = "armed" => watch[t].conn \notin closed

(* An announcement is begun only where a goroutine announces the node, and  *)
(* a Create is pending only in one that is begun.                          *)
OnInv ==
    \A p \in Procs : /\ step[p] # "test" => at[p] \in Announcing
                     /\ on[p] # 0 => step[p] # "test"

(***************************************************************************)
(* Until Start has announced the node nothing is remembered to announce,   *)
(* so that no recovery can fail and replace the shared state.              *)
(***************************************************************************)
Unannounced ==
    \/ at["main"] \in {"connect", "waitaac"}
    \/ at["main"] = "announce" /\ step["main"] = "test"

BeforeInv ==
    Unannounced =>
        /\ ~requests
        /\ \A p \in Procs : step[p] = "test"
        /\ \A t \in Trackers : at[t] \notin {"redial", "register", "again", "cleanup"}

(***************************************************************************)
(* From ServiceStop on the state is terminated, unless it was replaced by  *)
(* one that remembers no announcement and gets none any more.              *)
(***************************************************************************)
StopInv ==
    at["stop"] \in {"delete", "stopped"} => terminated \/ (~requests /\ ~Unannounced)

Safe == TypeInv /\ ConnInv /\ WatchInv /\ OnInv /\ BeforeInv /\ StopInv

--------------------------------------------------------------------------------

LEMMA ProcsFacts ==
    /\ Trackers \subseteq {"aac", "https"}
    /\ Trackers \subseteq Procs
    /\ {"main", "keepalive", "aackeep", "stop"} \subseteq Procs
    /\ \A p \in Procs : p \in Trackers \/ p \in {"main", "keepalive", "aackeep", "stop"}
  BY DEF Trackers, Procs

(* No change of the children and no end of a session arms a watch. *)
LEMMA WatchesAfter ==
  ASSUME NEW w \in Watches, NEW c
  PROVE  /\ Invalidated(c, w) \in Watches
         /\ \A t \in Trackers :
              Invalidated(c, w)[t].ev = "armed" => w[t].ev = "armed" /\ w[t].conn # c
                                                 /\ Invalidated(c, w)[t] = w[t]
  BY DEF Watches, Invalidated

LEMMA WatchesChanged ==
  ASSUME watch \in Watches, NEW u
  PROVE  /\ Changed(u) \in Watches
         /\ \A t \in Trackers : Changed(u)[t].ev = "armed" => Changed(u)[t] = watch[t]
  BY DEF Watches, Changed

LEMMA SafeInit == Init => Safe
  <1> SUFFICES ASSUME Init PROVE Safe
      OBVIOUS
  <1>1. StagesOK
      BY ProcsFacts DEF Init, StagesOK, Stages, TrackerStages
  <1>2. TypeInv
      BY <1>1 DEF Init, TypeInv, Watches, NoWatch
  <1>3. ConnInv /\ WatchInv /\ OnInv /\ BeforeInv /\ StopInv
      BY ProcsFacts DEF Init, ConnInv, WatchInv, OnInv, BeforeInv, StopInv, NoWatch
  <1> QED BY <1>2, <1>3 DEF Safe

LEMMA SafeTracker ==
  ASSUME Safe, NEW t \in Trackers, Tracker(t)
  PROVE  Safe'
  <1> USE ProcsFacts DEF world, state, track, ann
  <1>0. TypeInv /\ ConnInv /\ WatchInv /\ OnInv /\ BeforeInv /\ StopInv
      BY DEF Safe
  <1>1. CASE TrackMount(t)
    <2>1. StagesOK'
        BY <1>0, <1>1 DEF StagesOK, TypeInv, Stages, TrackerStages, TrackMount, Answers, Alive, Go
    <2>2. TypeInv'
        BY <1>0, <1>1, <2>1 DEF TypeInv, Watches, ConnInv, TrackMount, Answers, Alive, Go
    <2>3. ConnInv'
        BY <1>0, <1>1 DEF ConnInv, TypeInv, StagesOK, TrackMount, Answers, Alive, Go
    <2>4. WatchInv'
        BY <1>0, <1>1 DEF WatchInv, Watches, ConnInv, TypeInv, TrackMount, Answers, Alive, Go
    <2>5. OnInv' /\ BeforeInv' /\ StopInv'
        BY <1>0, <1>1 DEF OnInv, BeforeInv, StopInv, Unannounced, Announcing, TypeInv, StagesOK, TrackMount, Answers, Alive, Go
    <2> QED BY <2>2, <2>3, <2>4, <2>5 DEF Safe
  <1>2. CASE TrackList(t)
    <2>1. StagesOK'
        BY <1>0, <1>2 DEF StagesOK, TypeInv, Stages, TrackerStages, TrackList, Go, Alive, Answers
    <2>2. TypeInv'
        BY <1>0, <1>2, <2>1 DEF TypeInv, Watches, ConnInv, TrackList, Go, Alive, Answers
    <2>3. ConnInv'
        BY <1>0, <1>2 DEF ConnInv, TypeInv, StagesOK, TrackList, Go, Alive, Answers
    <2>4. WatchInv'
        BY <1>0, <1>2 DEF WatchInv, Watches, ConnInv, TypeInv, TrackList, Go, Alive, Answers
    <2>5. OnInv' /\ BeforeInv' /\ StopInv'
        BY <1>0, <1>2 DEF OnInv, BeforeInv, StopInv, Unannounced, Announcing, TypeInv, StagesOK, TrackList, Go, Alive, Answers
    <2> QED BY <2>2, <2>3, <2>4, <2>5 DEF Safe
  <1>3. CASE TrackGet(t)
    <2>1. StagesOK'
        BY <1>0, <1>3 DEF StagesOK, TypeInv, Stages, TrackerStages, TrackGet, Go, Alive, NoWatch
    <2>2. TypeInv'
        BY <1>0, <1>3, <2>1 DEF TypeInv, Watches, ConnInv, TrackGet, Go, Alive, NoWatch
    <2>3. ConnInv'
        BY <1>0, <1>3 DEF ConnInv, TypeInv, StagesOK, TrackGet, Go, Alive, NoWatch
    <2>4. WatchInv'
        BY <1>0, <1>3 DEF WatchInv, Watches, ConnInv, TypeInv, TrackGet, Go, Alive, NoWatch
    <2>5. OnInv' /\ BeforeInv' /\ StopInv'
        BY <1>0, <1>3 DEF OnInv, BeforeInv, StopInv, Unannounced, Announcing, TypeInv, StagesOK, TrackGet, Go, Alive, NoWatch
    <2> QED BY <2>2, <2>3, <2>4, <2>5 DEF Safe
  <1>4. CASE Handle(t)
    <2>1. StagesOK'
        BY <1>0, <1>4 DEF StagesOK, TypeInv, Stages, TrackerStages, Handle, Go, Alive
    <2>2. TypeInv'
        BY <1>0, <1>4, <2>1 DEF TypeInv, Watches, ConnInv, Handle, Go, Alive
    <2>3. ConnInv'
        BY <1>0, <1>4 DEF ConnInv, TypeInv, StagesOK, Handle, Go, Alive
    <2>4. WatchInv'
        BY <1>0, <1>4 DEF WatchInv, Watches, ConnInv, TypeInv, Handle, Go, Alive
    <2>5. OnInv' /\ BeforeInv' /\ StopInv'
        BY <1>0, <1>4 DEF OnInv, BeforeInv, StopInv, Unannounced, Announcing, TypeInv, StagesOK, Handle, Go, Alive
    <2> QED BY <2>2, <2>3, <2>4, <2>5 DEF Safe
  <1>5. CASE TrackEvent(t)
    <2>1. StagesOK'
        BY <1>0, <1>5 DEF StagesOK, TypeInv, Stages, TrackerStages, TrackEvent, Go, Alive, NoWatch
    <2>2. TypeInv'
        BY <1>0, <1>5, <2>1 DEF TypeInv, Watches, ConnInv, TrackEvent, Go, Alive, NoWatch
    <2>3. ConnInv'
        BY <1>0, <1>5 DEF ConnInv, TypeInv, StagesOK, TrackEvent, Go, Alive, NoWatch
    <2>4. WatchInv'
        BY <1>0, <1>5 DEF WatchInv, Watches, ConnInv, TypeInv, TrackEvent, Go, Alive, NoWatch
    <2>5. OnInv' /\ BeforeInv' /\ StopInv'
        BY <1>0, <1>5 DEF OnInv, BeforeInv, StopInv, Unannounced, Announcing, TypeInv, StagesOK, TrackEvent, Go, Alive, NoWatch
    <2> QED BY <2>2, <2>3, <2>4, <2>5 DEF Safe
  <1>6. CASE Redial(t)
    <2>1. StagesOK'
        BY <1>0, <1>6 DEF StagesOK, TypeInv, Stages, TrackerStages, Redial, Go, Alive
    <2>2. TypeInv'
        BY <1>0, <1>6, <2>1 DEF TypeInv, Watches, ConnInv, Redial, Go, Alive
    <2>3. ConnInv'
        BY <1>0, <1>6 DEF ConnInv, TypeInv, StagesOK, Redial, Go, Alive
    <2>4. WatchInv'
        BY <1>0, <1>6 DEF WatchInv, Watches, ConnInv, TypeInv, Redial, Go, Alive
    <2>5. OnInv' /\ BeforeInv' /\ StopInv'
        BY <1>0, <1>6 DEF OnInv, BeforeInv, StopInv, Unannounced, Announcing, TypeInv, StagesOK, Redial, Go, Alive
    <2> QED BY <2>2, <2>3, <2>4, <2>5 DEF Safe
  <1>7. CASE Register(t)
    <2>1. StagesOK'
        BY <1>0, <1>7 DEF StagesOK, TypeInv, Stages, TrackerStages, Register, Go, Alive, NewRequests, NewTerminated
    <2>2. TypeInv'
        BY <1>0, <1>7, <2>1 DEF TypeInv, Watches, ConnInv, Register, Go, Alive, NewRequests, NewTerminated
    <2>3. ConnInv'
        BY <1>0, <1>7 DEF ConnInv, TypeInv, StagesOK, Register, Go, Alive, NewRequests, NewTerminated
    <2>4. WatchInv'
        BY <1>0, <1>7 DEF WatchInv, Watches, ConnInv, TypeInv, Register, Go, Alive, NewRequests, NewTerminated
    <2>5. OnInv' /\ BeforeInv' /\ StopInv'
        BY <1>0, <1>7 DEF OnInv, BeforeInv, StopInv, Unannounced, Announcing, TypeInv, StagesOK, Register, Go, Alive, NewRequests, NewTerminated
    <2> QED BY <2>2, <2>3, <2>4, <2>5 DEF Safe
  <1>8. CASE Cleanup(t)
    <2>1. StagesOK'
        BY <1>0, <1>8 DEF StagesOK, TypeInv, Stages, TrackerStages, Cleanup, Go, Alive, Discarded
    <2>2. /\ watch' \in Watches
          /\ \A u \in Trackers : watch'[u].ev = "armed" => watch'[u].conn \notin closed'
      <3>1. watch \in Watches
          BY <1>0 DEF TypeInv
      <3>2. CASE old[t] \in closed
          BY <1>0, <1>8, <3>1, <3>2 DEF Cleanup, Discarded, WatchInv
      <3>3. CASE old[t] \notin closed
        <4> DEFINE w == IF eph = old[t] THEN Changed("https") ELSE watch
        <4>1. w \in Watches /\ \A u \in Trackers : w[u].ev = "armed" => w[u] = watch[u]
            BY <3>1, WatchesChanged
        <4>2. watch' = Invalidated(old[t], w) /\ closed' = closed \cup {old[t]}
            BY <1>8, <3>3 DEF Cleanup, Discarded, EndSession
        <4> QED BY <1>0, <4>1, <4>2, WatchesAfter DEF WatchInv
      <3> QED BY <3>2, <3>3
    <2>7. closed' \subseteq Nat /\ old' \in [Trackers -> Nat]
      <3>1. closed' = closed \cup {old[t]} /\ old' = [old EXCEPT ![t] = 0]
          BY <1>8 DEF Cleanup, Discarded
      <3>2. closed \subseteq Nat /\ old \in [Trackers -> Nat] /\ old[t] \in Nat
          BY <1>0 DEF TypeInv
      <3> QED BY <3>1, <3>2
    <2>8. /\ conn' \in Nat /\ back' \in [Trackers -> {"mount", "list"}]
          /\ step' \in [Procs -> {"test", "proto", "node"}] /\ on' \in [Procs -> Nat]
        BY <1>0, <1>8 DEF TypeInv, Cleanup
    <2>6. TypeInv'
        BY <2>1, <2>2, <2>7, <2>8 DEF TypeInv
    <2>3. ConnInv'
        BY <1>0, <1>8 DEF ConnInv, TypeInv, StagesOK, Cleanup, Go, Alive, Discarded
    <2>4. WatchInv'
        BY <2>2 DEF WatchInv
    <2>5. OnInv' /\ BeforeInv' /\ StopInv'
        BY <1>0, <1>8 DEF OnInv, BeforeInv, StopInv, Unannounced, Announcing, TypeInv, StagesOK, Cleanup, Go, Alive, Discarded
    <2> QED BY <2>3, <2>4, <2>5, <2>6 DEF Safe
  <1> QED BY <1>1, <1>2, <1>3, <1>4, <1>5, <1>6, <1>7, <1>8 DEF Tracker

(* What a goroutine may do after DoReAnnouncements has returned to it. *)
LEMMA AfterFacts ==
  ASSUME TypeInv, NEW p \in Procs, at[p] \in Announcing, NEW ok \in BOOLEAN
  PROVE  /\ p \in Trackers => After(p, ok) \in TrackerStages \ {"off", "register", "again"}
         /\ After(p, ok) = "redial" => ~ok
         /\ p \in Trackers /\ After(p, ok) = "cleanup" => at[p] = "again"
         /\ p = "main" => After(p, ok) = IF ok THEN "serving" ELSE "dead"
         /\ p = "keepalive" => After(p, ok) = "idle"
         /\ p \notin {"aackeep", "stop"}
  BY ProcsFacts DEF TypeInv, StagesOK, Announcing, After, TrackerStages

(* The variables an announcement leaves alone, and watches it does not arm. *)
Quiet ==
    /\ UNCHANGED <<conn, conns, closed, terminated, back, old>>
    /\ watch' \in Watches
    /\ \A u \in Trackers : watch'[u].ev = "armed" => watch'[u] = watch[u]

(* The end of an announcement. *)
LEMMA SafeReturn ==
  ASSUME Safe, NEW p \in Procs, at[p] \in Announcing, NEW ok \in BOOLEAN, Return(p, ok),
         Quiet, requests' = requests, Unannounced => ok /\ p # "main"
  PROVE  Safe'
  <1> USE ProcsFacts
  <1>0. TypeInv /\ ConnInv /\ WatchInv /\ OnInv /\ BeforeInv /\ StopInv
      BY DEF Safe
  <1>1. /\ at' = [at EXCEPT ![p] = After(p, ok)]
        /\ step' = [step EXCEPT ![p] = "test"] /\ on' = [on EXCEPT ![p] = 0]
      BY DEF Return, Go
  <1>2. /\ conn' = conn /\ conns' = conns /\ closed' = closed /\ terminated' = terminated
        /\ back' = back /\ old' = old /\ requests' = requests
        /\ watch' \in Watches /\ \A u \in Trackers : watch'[u].ev = "armed" => watch'[u] = watch[u]
      BY DEF Quiet
  <1>3. conn # 0 /\ at["main"] # "connect"
      BY <1>0 DEF ConnInv, TypeInv, StagesOK, Announcing
  <1>4. /\ p \in Trackers => After(p, ok) \in TrackerStages \ {"off", "register", "again"}
        /\ After(p, ok) = "redial" => ~ok
        /\ p \in Trackers /\ After(p, ok) = "cleanup" => at[p] = "again"
        /\ p = "main" => After(p, ok) \in {"serving", "dead"}
        /\ p = "keepalive" => After(p, ok) = "idle"
        /\ p \notin {"aackeep", "stop"}
      BY <1>0, AfterFacts
  <1>5. StagesOK'
      BY <1>0, <1>1, <1>3, <1>4 DEF StagesOK, TypeInv, Stages, TrackerStages
  <1>6. TypeInv'
      BY <1>0, <1>1, <1>2, <1>5 DEF TypeInv
  <1>7. ConnInv'
      BY <1>0, <1>1, <1>2, <1>3, <1>4, <1>5 DEF ConnInv, TypeInv, StagesOK
  <1>8. WatchInv'
      BY <1>0, <1>2 DEF WatchInv
  <1>9. OnInv'
      BY <1>0, <1>1 DEF OnInv, TypeInv, StagesOK
  <1>10. Unannounced' => Unannounced
      BY <1>0, <1>1, <1>4 DEF Unannounced, TypeInv, StagesOK
  <1>11. BeforeInv'
    <2> SUFFICES ASSUME Unannounced
                 PROVE  /\ ~requests /\ \A q \in Procs : step'[q] = "test"
                        /\ \A t \in Trackers : at'[t] \notin {"redial", "register", "again", "cleanup"}
        BY <1>2, <1>10 DEF BeforeInv
    <2>1. /\ ~requests /\ ok /\ \A q \in Procs : step[q] = "test"
          /\ \A t \in Trackers : at[t] \notin {"redial", "register", "again", "cleanup"}
        BY <1>0 DEF BeforeInv
    <2>2. at \in [Procs -> Stages] /\ step \in [Procs -> {"test", "proto", "node"}]
        BY <1>0 DEF TypeInv, StagesOK
    <2>3. ASSUME NEW t \in Trackers PROVE at'[t] \notin {"redial", "register", "again", "cleanup"}
        BY <1>1, <1>4, <2>1, <2>2
    <2> QED BY <1>1, <2>1, <2>2, <2>3
  <1>12. StopInv'
      BY <1>0, <1>1, <1>2, <1>4, <1>10 DEF StopInv, TypeInv, StagesOK
  <1> QED BY <1>6, <1>7, <1>8, <1>9, <1>11, <1>12 DEF Safe

(* A step within an announcement. *)
LEMMA SafeWithin ==
  ASSUME Safe, NEW p \in Procs, at[p] \in Announcing, NEW s \in {"proto", "node"}, NEW c \in Nat,
         at' = at, step' = [step EXCEPT ![p] = s], on' = [on EXCEPT ![p] = c],
         Quiet, p = "main" \/ ~Unannounced, StopInv'
  PROVE  Safe'
  <1>0. TypeInv /\ ConnInv /\ WatchInv /\ OnInv
      BY DEF Safe
  <1>1. TypeInv' /\ ConnInv' /\ WatchInv'
      BY <1>0 DEF Quiet, TypeInv, StagesOK, ConnInv, WatchInv
  <1>2. OnInv'
      BY <1>0 DEF OnInv, TypeInv
  <1>3. BeforeInv'
      BY <1>0, ProcsFacts DEF BeforeInv, Unannounced, Announcing, TypeInv, StagesOK
  <1> QED BY <1>1, <1>2, <1>3 DEF Safe

LEMMA SafeTest ==
  ASSUME Safe, NEW p \in Procs, Test(p)
  PROVE  Safe'
  <1>0. TypeInv /\ BeforeInv /\ StopInv /\ OnInv
      BY DEF Safe
  <1>1. Quiet
      BY <1>0 DEF Quiet, Test, state, track, TypeInv
  <1>2. CASE p # "main" /\ (terminated \/ ~requests)
    <2>1. at[p] \in Announcing /\ Return(p, TRUE) /\ requests' = requests
        BY <1>2 DEF Test
    <2> QED BY <1>1, <1>2, <2>1, SafeReturn
  <1>3. CASE p = "main" \/ (~terminated /\ requests)
    <2>1. /\ at[p] \in Announcing /\ at' = at
          /\ step' = [step EXCEPT ![p] = "proto"] /\ on' = [on EXCEPT ![p] = 0]
          /\ terminated' = terminated /\ (p # "main" => requests' = requests)
        BY <1>0, <1>3 DEF Test, OnInv, TypeInv
    <2>2. p = "main" \/ ~Unannounced
        BY <1>0, <1>3 DEF BeforeInv
    <2>3. StopInv'
      <3>1. CASE p = "main"
        <4>1. Unannounced
            BY <1>0, <2>1, <3>1 DEF Unannounced, Announcing, TypeInv, StagesOK, Test
        <4> QED BY <1>0, <2>1, <4>1 DEF StopInv
      <3>2. CASE p # "main"
        <4>1. Unannounced' <=> Unannounced
            BY <1>0, <2>1, <3>2, ProcsFacts DEF Unannounced, TypeInv
        <4> QED BY <1>0, <2>1, <3>2, <4>1 DEF StopInv
      <3> QED BY <3>1, <3>2
    <2> QED BY <1>1, <2>1, <2>2, <2>3, SafeWithin
  <1> QED BY <1>2, <1>3

(* Where an announcement is begun and nothing else changes that StopInv     *)
(* reads.                                                                  *)
LEMMA Begun ==
  ASSUME Safe, NEW p \in Procs, step[p] # "test"
  PROVE  /\ at[p] \in Announcing /\ ~Unannounced
         /\ \A s \in {"proto", "node"} :
               at' = at /\ step' = [step EXCEPT ![p] = s] /\ terminated' = terminated /\ requests' = requests
               => StopInv'
  <1>0. TypeInv /\ OnInv /\ BeforeInv /\ StopInv
      BY DEF Safe
  <1>1. at[p] \in Announcing /\ ~Unannounced
      BY <1>0 DEF OnInv, BeforeInv
  <1>2. ASSUME at' = at, NEW s \in {"proto", "node"}, step' = [step EXCEPT ![p] = s],
               terminated' = terminated, requests' = requests
        PROVE  StopInv'
      BY <1>0, <1>1, <1>2, ProcsFacts DEF StopInv, Unannounced, TypeInv
  <1> QED BY <1>1, <1>2

LEMMA SafeProceed ==
  ASSUME Safe, NEW p \in Procs, step[p] # "test", Proceed(p), Quiet, requests' = requests
  PROVE  Safe'
  <1>1. at[p] \in Announcing /\ ~Unannounced
      BY Begun
  <1>2. CASE step[p] = "proto"
    <2>1. at' = at /\ step' = [step EXCEPT ![p] = "node"] /\ on' = [on EXCEPT ![p] = 0]
        BY <1>2 DEF Proceed
    <2>2. StopInv'
        BY <2>1, Begun DEF Quiet
    <2> QED BY <1>1, <2>1, <2>2, SafeWithin
  <1>3. CASE step[p] # "proto"
      BY <1>1, <1>3, SafeReturn DEF Proceed
  <1> QED BY <1>2, <1>3

LEMMA SafeExists ==
  ASSUME Safe, NEW p \in Procs, Exists(p)
  PROVE  Safe'
  <1>0. TypeInv
      BY DEF Safe
  <1>1. step[p] # "test" /\ Quiet /\ requests' = requests
      BY <1>0 DEF Quiet, Exists, state, track, TypeInv
  <1>2. at[p] \in Announcing /\ ~Unannounced
      BY <1>1, Begun
  <1>3. CASE Return(p, FALSE)
      BY <1>1, <1>2, <1>3, SafeReturn
  <1>4. CASE Proceed(p)
      BY <1>1, <1>4, SafeProceed
  <1>5. CASE on' = [on EXCEPT ![p] = conn] /\ UNCHANGED <<at, step>>
    <2>1. step' = [step EXCEPT ![p] = step[p]] /\ step[p] \in {"proto", "node"} /\ conn \in Nat
        BY <1>0, <1>1, <1>5 DEF TypeInv
    <2>2. StopInv'
        BY <1>1, <1>5, <2>1, Begun DEF Quiet
    <2> QED BY <1>1, <1>2, <1>5, <2>1, <2>2, SafeWithin
  <1> QED BY <1>3, <1>4, <1>5 DEF Exists

LEMMA SafeCreate ==
  ASSUME Safe, NEW p \in Procs, Create(p)
  PROVE  Safe'
  <1>0. TypeInv /\ OnInv
      BY DEF Safe
  <1>1. step[p] # "test" /\ requests' = requests
      BY <1>0 DEF OnInv, Create, state
  <1>2. Quiet
    <2>1. watch \in Watches
        BY <1>0 DEF TypeInv
    <2>2. watch' = Changed("https") \/ watch' = watch
        BY DEF Create
    <2>3. UNCHANGED <<conn, conns, closed, terminated, back, old>>
        BY DEF Create, state
    <2> QED BY <2>1, <2>2, <2>3, WatchesChanged DEF Quiet
  <1>3. at[p] \in Announcing /\ ~Unannounced
      BY <1>1, Begun
  <1>4. CASE Return(p, FALSE)
      BY <1>1, <1>2, <1>3, <1>4, SafeReturn
  <1>5. CASE Proceed(p)
      BY <1>1, <1>2, <1>5, SafeProceed
  <1> QED BY <1>4, <1>5 DEF Create

LEMMA SafeSend ==
  ASSUME Safe, NEW p \in Procs, Send(p)
  PROVE  Safe'
  <1> USE ProcsFacts DEF world, state, track, ann
  <1>0. TypeInv /\ ConnInv /\ WatchInv /\ OnInv /\ BeforeInv /\ StopInv
      BY DEF Safe
  <1>1. /\ at[p] = "send" /\ p \in Trackers \cup {"aackeep"} /\ at["main"] # "connect"
        /\ \A q \in Procs : at'[q] = IF q = p THEN IF p = "aackeep" THEN "idle" ELSE "wait"
                                     ELSE IF q = "main" /\ at[q] = "waitaac" THEN "announce"
                                     ELSE at[q]
        /\ at' \in [Procs -> Stages]
      BY <1>0 DEF Send, TypeInv, StagesOK, Stages, TrackerStages
  <1>2. StagesOK'
      BY <1>0, <1>1 DEF StagesOK, TypeInv, TrackerStages
  <1>3. TypeInv'
      BY <1>0, <1>2 DEF TypeInv, Send
  <1>4. ConnInv' /\ WatchInv'
      BY <1>0, <1>1 DEF ConnInv, WatchInv, TypeInv, StagesOK, Send
  <1>5. OnInv' /\ BeforeInv' /\ StopInv'
      BY <1>0, <1>1 DEF OnInv, BeforeInv, StopInv, Unannounced, Announcing, TypeInv, StagesOK, Send
  <1> QED BY <1>3, <1>4, <1>5 DEF Safe

LEMMA SafeOther ==
  ASSUME Safe, Connect \/ ZkTick \/ AacTick \/ MarkTerminated \/ DeleteNode
  PROVE  Safe'
  <1> USE ProcsFacts DEF world, state, track, ann
  <1>0. TypeInv /\ ConnInv /\ WatchInv /\ OnInv /\ BeforeInv /\ StopInv
      BY DEF Safe
  <1>1. CASE Connect
    <2>1. /\ at' \in [Procs -> Stages]
          /\ \A q \in Procs : at'[q] = IF q \in Trackers THEN "mount"
                                       ELSE IF q = "main" THEN "waitaac" ELSE "idle"
        BY <1>1 DEF Connect, Stages, TrackerStages
    <2>2. StagesOK'
        BY <2>1 DEF StagesOK, TrackerStages
    <2>3. TypeInv'
        BY <1>0, <1>1, <2>2 DEF TypeInv, Connect
    <2>4. \A c \in closed : FALSE
        BY <1>0, <1>1 DEF Connect, ConnInv, TypeInv
    <2>5. ConnInv' /\ WatchInv'
        BY <1>0, <1>1, <2>1, <2>4 DEF ConnInv, WatchInv, Connect
    <2>6. OnInv' /\ BeforeInv' /\ StopInv'
        BY <1>0, <1>1, <2>1 DEF OnInv, BeforeInv, StopInv, Unannounced, Connect
    <2> QED BY <2>3, <2>5, <2>6 DEF Safe
  <1>2. CASE ZkTick
    <2>1. StagesOK'
        BY <1>0, <1>2 DEF StagesOK, TypeInv, Stages, TrackerStages, ZkTick, Go
    <2>2. TypeInv' /\ ConnInv' /\ WatchInv'
        BY <1>0, <1>2, <2>1 DEF TypeInv, ConnInv, WatchInv, StagesOK, ZkTick, Go
    <2>3. OnInv' /\ BeforeInv' /\ StopInv'
        BY <1>0, <1>2 DEF OnInv, BeforeInv, StopInv, Unannounced, Announcing, TypeInv, StagesOK, ZkTick, Go
    <2> QED BY <2>2, <2>3 DEF Safe
  <1>3. CASE AacTick
    <2>1. StagesOK'
        BY <1>0, <1>3 DEF StagesOK, TypeInv, Stages, TrackerStages, AacTick, Go
    <2>2. TypeInv' /\ ConnInv' /\ WatchInv'
        BY <1>0, <1>3, <2>1 DEF TypeInv, ConnInv, WatchInv, StagesOK, AacTick, Go
    <2>3. OnInv' /\ BeforeInv' /\ StopInv'
        BY <1>0, <1>3 DEF OnInv, BeforeInv, StopInv, Unannounced, Announcing, TypeInv, StagesOK, AacTick, Go
    <2> QED BY <2>2, <2>3 DEF Safe
  <1>4. CASE MarkTerminated
    <2>1. StagesOK'
        BY <1>0, <1>4 DEF StagesOK, TypeInv, Stages, TrackerStages, MarkTerminated, Go
    <2>2. TypeInv' /\ ConnInv' /\ WatchInv'
        BY <1>0, <1>4, <2>1 DEF TypeInv, ConnInv, WatchInv, StagesOK, MarkTerminated, Go
    <2>3. OnInv' /\ BeforeInv' /\ StopInv'
        BY <1>0, <1>4 DEF OnInv, BeforeInv, StopInv, Unannounced, Announcing, TypeInv, StagesOK, MarkTerminated, Go
    <2> QED BY <2>2, <2>3 DEF Safe
  <1>5. CASE DeleteNode
    <2>1. StagesOK'
        BY <1>0, <1>5 DEF StagesOK, TypeInv, Stages, TrackerStages, DeleteNode, Go
    <2>2. watch' \in Watches /\ \A u \in Trackers : watch'[u].ev = "armed" => watch'[u] = watch[u]
      <3>1. watch \in Watches
          BY <1>0 DEF TypeInv
      <3>2. watch' = Changed("https") \/ watch' = watch
          BY <1>5 DEF DeleteNode
      <3> QED BY <3>1, <3>2, WatchesChanged
    <2>3. TypeInv'
        BY <1>0, <1>5, <2>1, <2>2 DEF TypeInv, DeleteNode, Go
    <2>4. ConnInv' /\ WatchInv'
        BY <1>0, <1>5, <2>2 DEF ConnInv, WatchInv, TypeInv, StagesOK, DeleteNode, Go
    <2>5. OnInv' /\ BeforeInv' /\ StopInv'
        BY <1>0, <1>5 DEF OnInv, BeforeInv, StopInv, Unannounced, Announcing, TypeInv, StagesOK, DeleteNode, Go
    <2> QED BY <2>3, <2>4, <2>5 DEF Safe
  <1> QED BY <1>1, <1>2, <1>3, <1>4, <1>5

LEMMA SafeWorld ==
  ASSUME Safe, World
  PROVE  Safe'
  <1> USE DEF state, track, ann
  <1>0. TypeInv /\ ConnInv /\ WatchInv /\ OnInv /\ BeforeInv /\ StopInv
      BY DEF Safe
  <1>1. UNCHANGED <<state, at, step, on, back, old>>
      BY DEF World, ZkOutage, ZkBack, Expire, AacStart, AacStop, AacLease
  <1>2. watch' \in Watches /\ \A u \in Trackers : watch'[u].ev = "armed" => watch'[u] = watch[u]
    <2>1. watch \in Watches
        BY <1>0 DEF TypeInv
    <2>2. CASE watch' = watch \/ watch' = Changed("aac")
        BY <2>1, <2>2, WatchesChanged
    <2>3. CASE \E c \in 1..MaxConns : EndSession(c)
      <3>1. PICK c \in 1..MaxConns : EndSession(c)
          BY <2>3
      <3> DEFINE w == IF eph = c THEN Changed("https") ELSE watch
      <3>2. w \in Watches /\ \A u \in Trackers : w[u].ev = "armed" => w[u] = watch[u]
          BY <2>1, WatchesChanged
      <3>3. watch' = Invalidated(c, w)
          BY <3>1 DEF EndSession
      <3> QED BY <3>2, <3>3, WatchesAfter
    <2> QED BY <2>2, <2>3 DEF World, ZkOutage, ZkBack, Expire, AacStart, AacStop, AacLease
  <1>3. TypeInv' /\ ConnInv' /\ WatchInv'
      BY <1>0, <1>1, <1>2 DEF TypeInv, StagesOK, ConnInv, WatchInv
  <1>4. OnInv' /\ BeforeInv' /\ StopInv'
      BY <1>0, <1>1 DEF OnInv, BeforeInv, StopInv, Unannounced
  <1> QED BY <1>3, <1>4 DEF Safe

LEMMA SafeNext == Safe /\ [Next]_vars => Safe'
  <1> SUFFICES ASSUME Safe, [Next]_vars PROVE Safe'
      OBVIOUS
  <1>1. CASE UNCHANGED vars
      BY <1>1 DEF vars, Safe, TypeInv, StagesOK, ConnInv, WatchInv, OnInv, BeforeInv, StopInv, Unannounced, Watches
  <1>2. CASE Next
      BY <1>2, SafeTracker, SafeTest, SafeExists, SafeCreate, SafeSend, SafeOther, SafeWorld DEF Next, Proc
  <1> QED BY <1>1, <1>2

(***************************************************************************)
(* No recovery closes the connection the node works with, and no tracker   *)
(* is left waiting on a watch of a closed one, however many trackers       *)
(* recover at once (doZkRecovery, doZkCleanup).                            *)
(***************************************************************************)
THEOREM ConnectionStaysUsable == Spec => []ConnectionUsable
  <1>1. Safe => ConnectionUsable
      BY DEF Safe, TypeInv, ConnInv, WatchInv, ConnectionUsable
  <1> QED BY <1>1, SafeInit, SafeNext, PTL DEF Spec

(***************************************************************************)
(* Once ServiceStop is over nobody begins to announce the node again, since *)
(* a recovery that clears IsTerminated also forgets the announcement; and   *)
(* when those that had begun are through, a node that is out stays out.     *)
(***************************************************************************)
THEOREM StoppedStaysStopped == Spec => StopIsFinal
  <1> DEFINE Begins == at["stop"] = "stopped" /\ at["main"] = "serving" =>
                           \A p \in Procs : step[p] = "test" => step'[p] = "test"
  <1>1. ASSUME Safe, Next PROVE Begins
    <2> SUFFICES ASSUME at["stop"] = "stopped", at["main"] = "serving",
                        NEW p \in Procs, step[p] = "test"
                 PROVE  step'[p] = "test"
        OBVIOUS
    <2>0. step \in [Procs -> {"test", "proto", "node"}] /\ StopInv /\ OnInv /\ ~Unannounced
        BY <1>1 DEF Safe, TypeInv, Unannounced
    <2> USE DEF world, state, track, ann
    <2>1. CASE \E t \in Trackers : Tracker(t)
        BY <2>1 DEF Tracker, TrackMount, TrackList, TrackGet, Handle, TrackEvent, Redial, Register, Cleanup
    <2>2. CASE \E q \in Procs : Test(q)
      <3>1. PICK q \in Procs : Test(q)
          BY <2>2
      <3>2. q # "main" /\ (terminated \/ ~requests)
          BY <2>0, <3>1 DEF Test, Announcing, StopInv
      <3> QED BY <2>0, <3>1, <3>2 DEF Test, Return
    <2>3. CASE \E q \in Procs : Exists(q) \/ Create(q)
      <3>1. PICK q \in Procs : Exists(q) \/ Create(q)
          BY <2>3
      <3>2. step[q] # "test"
          BY <2>0, <3>1 DEF Exists, Create, OnInv
      <3>3. step' = step \/ step' = [step EXCEPT ![q] = "test"] \/ step' = [step EXCEPT ![q] = "node"]
          BY <3>1 DEF Exists, Create, Proceed, Return
      <3> QED BY <2>0, <3>2, <3>3
    <2>4. CASE (\E q \in Procs : Send(q)) \/ Connect \/ ZkTick \/ AacTick \/ MarkTerminated \/ DeleteNode
        BY <2>4 DEF Send, Connect, ZkTick, AacTick, MarkTerminated, DeleteNode
    <2>5. CASE World
        BY <2>5 DEF World, ZkOutage, ZkBack, Expire, AacStart, AacStop, AacLease
    <2> QED BY <1>1, <2>1, <2>2, <2>3, <2>4, <2>5 DEF Next, Proc
  <1>2. ASSUME Safe, Next, Out PROVE Out'
    <2>0. TypeInv /\ OnInv /\ \A p \in Procs : step[p] = "test" /\ on[p] = 0
        BY <1>2 DEF Safe, OnInv, Out
    <2>1. \A p \in Procs : step'[p] = "test"
        BY <1>1, <1>2 DEF Out
    <2>2. at'["stop"] = "stopped" /\ at'["main"] = "serving" /\ eph' = 0
      <3>0. at["stop"] = "stopped" /\ at["main"] = "serving" /\ eph = 0 /\ at \in [Procs -> Stages]
          BY <1>2, <2>0 DEF Out, TypeInv, StagesOK
      <3> USE ProcsFacts DEF world, state, track, ann
      <3>1. CASE \E t \in Trackers : Tracker(t)
        <4>1. PICK t \in Trackers : Tracker(t)
            BY <3>1
        <4>2. eph' = 0
            BY <3>0, <4>1 DEF Tracker, TrackMount, TrackList, TrackGet, Handle, TrackEvent, Redial,
                              Register, Cleanup, EndSession
        <4>3. t \notin {"main", "stop"} /\ \A q \in Procs : q # t => at'[q] = at[q]
            BY <3>0, <4>1 DEF Tracker, TrackMount, TrackList, TrackGet, Handle, TrackEvent, Redial,
                              Register, Cleanup, Go, Trackers
        <4> QED BY <3>0, <4>2, <4>3
      <3>2. CASE \E q \in Procs : Test(q)
        <4>1. PICK q \in Procs : Test(q)
            BY <3>2
        <4>2. at[q] \in Announcing /\ q \notin {"main", "stop"}
            BY <3>0, <4>1 DEF Test, Announcing
        <4>3. eph' = 0 /\ (at' = at \/ at' = [at EXCEPT ![q] = at'[q]])
            BY <3>0, <4>1 DEF Test, Return, Go
        <4> QED BY <3>0, <4>2, <4>3
      <3>3. CASE \E q \in Procs : Exists(q) \/ Create(q)
          BY <2>0, <3>3 DEF Exists, Create
      <3>4. CASE \E q \in Procs : Send(q)
          BY <3>0, <3>4 DEF Send
      <3>5. CASE Connect \/ ZkTick \/ AacTick \/ MarkTerminated \/ DeleteNode
          BY <3>0, <3>5 DEF Connect, ZkTick, AacTick, MarkTerminated, DeleteNode, Go
      <3>6. CASE World
          BY <3>0, <3>6 DEF World, ZkOutage, ZkBack, Expire, EndSession, AacStart, AacStop, AacLease
      <3> QED BY <1>2, <3>1, <3>2, <3>3, <3>4, <3>5, <3>6 DEF Next, Proc
    <2> QED BY <2>1, <2>2 DEF Out
  <1>3. Safe /\ [Next]_vars => [Begins /\ (Out => Out')]_vars
      BY <1>1, <1>2
  <1> QED BY <1>3, SafeInit, SafeNext, PTL DEF Spec, StopIsFinal
================================================================================
