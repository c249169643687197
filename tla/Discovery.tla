----------------------------- MODULE Discovery -----------------------------
(***************************************************************************)
(* How a node finds the services it needs and lets itself be found:       *)
(* server/start.go and services/zookeeper/service.go.  Start connects to  *)
(* ZooKeeper, starts two keepalive tickers and the trackers of the        *)
(* announcements (of AAC, and of the other nodes when OD_PEER_ENABLED is  *)
(* true), waits for the first AAC client and then announces the node with *)
(* an ephemeral znode.  The trackers and the keepalive share one ZKState, *)
(* and any tracker may replace all of it, the connection and the          *)
(* remembered announcement included, while the others use it.             *)
(*                                                                         *)
(* A connection is a number; a request on it fails while ZooKeeper is     *)
(* down or once it is closed.  A session that expires takes the ephemeral *)
(* znodes and the watches of its connection along, and the library gives  *)
(* the connection a new session.                                          *)
(***************************************************************************)
EXTENDS Integers, FiniteSets

CONSTANTS PeerEnabled,  \* OD_PEER_ENABLED: the https announcements are tracked
          OtherNodes,   \* another node keeps an announcement under /https
          EarlyStop,    \* ServiceStop may come before the node is announced
          MaxConns,     \* bound on the connections of the shared ZKState
          MaxFaults,    \* bound on outages, session expiries and deaths of AAC
          MaxAACs       \* bound on the AAC instances started

ASSUME DiscoveryAssumption ==
    /\ PeerEnabled \in BOOLEAN /\ OtherNodes \in BOOLEAN /\ EarlyStop \in BOOLEAN
    /\ MaxConns \in Nat \ {0} /\ MaxFaults \in Nat /\ MaxAACs \in Nat \ {0}

VARIABLES zkUp,       \* ZooKeeper answers
          faults,     \* outages, expiries and deaths so far
          https,      \* the permanent znode of our protocol exists
          eph,        \* the connection that owns our ephemeral znode, 0 if none
          aacLive,    \* the AAC instance that answers, 0 if none
          aacAnn,     \* the AAC instances announced
          aacs,       \* AAC instances started so far
          conn,       \* ZKState.Conn, 0 before the first connection
          conns,      \* connections made so far
          closed,     \* connections closed
          requests,   \* ZKState.AnnouncementRequests is not empty
          terminated, \* ZKState.IsTerminated
          aac,        \* app.AAC: the instance the client talks to, 0 for nil
          at,         \* where each goroutine stands
          step,       \* how far its announcement of the node is
          on,         \* the connection of its pending Create, 0 if none
          back,       \* the loop a tracker's recovery returns to
          old,        \* oldConnection of a tracker's recovery
          seen,       \* the children a tracker listed
          watch,      \* a tracker's watch: its connection and its event
          pick        \* the AAC client about to be sent on aacCreated

vars == <<zkUp, faults, https, eph, aacLive, aacAnn, aacs, conn, conns, closed, requests,
          terminated, aac, at, step, on, back, old, seen, watch, pick>>
world == <<zkUp, faults, aacLive, aacAnn, aacs>>
state == <<conn, conns, closed, requests, terminated>>
ann == <<step, on>>
track == <<back, old, seen, watch>>

(* The trackers, by the path they watch. *)
Trackers == {"aac"} \cup (IF PeerEnabled THEN {"https"} ELSE {})
Procs == Trackers \cup {"main", "keepalive", "aackeep", "stop"}

(* The children of the watched path: for https the node itself is 1 and    *)
(* another node is 2.                                                      *)
Present(t) ==
    IF t = "aac" THEN aacAnn
    ELSE {n \in {1, 2} : (n = 1 /\ eph # 0) \/ (n = 2 /\ OtherNodes)}

Mounted(t) == IF t = "aac" THEN aacs > 0 ELSE https

Alive == at["main"] # "dead"
Answers(c) == zkUp /\ c \notin closed

NoWatch == [conn |-> 0, ev |-> "none"]

(* The watches of the trackers after the children of path t changed. *)
Changed(t) ==
    [u \in Trackers |->
        IF u = t /\ watch[u].ev = "armed" THEN [conn |-> 0, ev |-> "changed"] ELSE watch[u]]

(* The watches after connection c lost its session: the library sends an   *)
(* error to each of them.                                                  *)
Invalidated(c, w) ==
    [u \in Trackers |-> IF w[u].conn = c /\ w[u].ev = "armed" THEN [conn |-> 0, ev |-> "error"] ELSE w[u]]

(* The end of connection c's session: its ephemeral znode goes too, which  *)
(* changes the children of https.                                          *)
EndSession(c) ==
    /\ eph' = IF eph = c THEN 0 ELSE eph
    /\ watch' = Invalidated(c, IF eph = c THEN Changed("https") ELSE watch)

Go(p, stage) == at' = [at EXCEPT ![p] = stage]
----------------------------------------------------------------------------
(* Announcing the node *)

(* Where p goes on when DoReAnnouncements (or, for main, the first         *)
(* ServiceAnnouncement) returned.                                          *)
After(p, ok) ==
    CASE at[p] = "recover"  -> IF ok THEN back[p] ELSE "redial"
      [] at[p] = "again"    -> "cleanup"
      [] at[p] = "empty"    -> "wait"
      [] at[p] = "emptyBad" -> "recover"
      [] at[p] = "reannounce" -> "idle"
      [] at[p] = "announce" -> IF ok THEN "serving" ELSE "dead"

(* doZkRecovery, the empty listing, zkKeepalive and main call it. *)
Announcing == {"recover", "again", "empty", "emptyBad", "reannounce", "announce"}

(* The announcement is over; p goes on. *)
Return(p, ok) ==
    /\ Go(p, After(p, ok))
    /\ step' = [step EXCEPT ![p] = "test"]
    /\ on' = [on EXCEPT ![p] = 0]

(* The znode it was about is there: after that of the protocol, our own.    *)
Proceed(p) ==
    IF step[p] = "proto" THEN step' = [step EXCEPT ![p] = "node"] /\ on' = [on EXCEPT ![p] = 0] /\ UNCHANGED at
    ELSE Return(p, TRUE)

(* DoReAnnouncements: nothing to do for a terminated state or one that      *)
(* remembers no announcement.  main remembers its own first.                *)
Test(p) ==
    /\ Alive /\ at[p] \in Announcing /\ step[p] = "test"
    /\ IF p # "main" /\ (terminated \/ ~requests) THEN Return(p, TRUE)
       ELSE step' = [step EXCEPT ![p] = "proto"] /\ UNCHANGED <<at, on>>
    /\ requests' = IF p = "main" THEN TRUE ELSE requests
    /\ UNCHANGED <<world, https, eph, conn, conns, closed, terminated, aac, track, pick>>

(* Mutant of Exists: the permanent znode of the protocol passes for ours. *)
ExistsProtocol(p) ==
    /\ Alive /\ step[p] # "test" /\ on[p] = 0
    /\ IF ~Answers(conn) THEN Return(p, FALSE)
       ELSE IF https THEN Proceed(p)
       ELSE on' = [on EXCEPT ![p] = conn] /\ UNCHANGED <<at, step>>
    /\ UNCHANGED <<world, https, eph, state, aac, track, pick>>

(* makeNewNode, of the protocol and then of our node: it asks whether the   *)
(* znode exists, whoever made it, on the connection in use by then, ...     *)
Exists(p) ==
    /\ Alive /\ step[p] # "test" /\ on[p] = 0
    /\ IF ~Answers(conn) THEN Return(p, FALSE)
       ELSE IF (step[p] = "proto" /\ https) \/ (step[p] = "node" /\ eph # 0) THEN Proceed(p)
       ELSE on' = [on EXCEPT ![p] = conn] /\ UNCHANGED <<at, step>>
    /\ UNCHANGED <<world, https, eph, state, aac, track, pick>>

(* ... and creates it on the connection that was asked.  "Node already      *)
(* exists" is no error.                                                     *)
Create(p) ==
    /\ Alive /\ on[p] # 0
    /\ IF Answers(on[p])
       THEN /\ https' = (https \/ step[p] = "proto")
            /\ eph' = IF step[p] = "node" /\ eph = 0 THEN on[p] ELSE eph
            /\ watch' = IF https' # https \/ eph' # eph THEN Changed("https") ELSE watch
            /\ Proceed(p)
       ELSE Return(p, FALSE) /\ UNCHANGED <<https, eph, watch>>
    /\ UNCHANGED <<world, state, aac, back, old, seen, pick>>
----------------------------------------------------------------------------
(* The trackers *)

(* The existence check of trackMountLoop. *)
TrackMount(t) ==
    /\ Alive /\ at[t] = "mount"
    /\ IF ~Answers(conn) THEN Go(t, "recover") /\ UNCHANGED watch
       ELSE IF Mounted(t) THEN Go(t, "list") /\ UNCHANGED watch
       ELSE /\ Go(t, "wait")
            /\ watch' = [watch EXCEPT ![t] = [conn |-> conn, ev |-> "armed"]]
    /\ back' = [back EXCEPT ![t] = "mount"]
    /\ UNCHANGED <<world, https, eph, state, aac, ann, old, seen, pick>>

(* ChildrenW of trackAnnouncementsLoop, which also sets the watch. *)
TrackList(t) ==
    /\ Alive /\ at[t] = "list"
    /\ IF Answers(conn)
       THEN /\ Go(t, "get")
            /\ seen' = [seen EXCEPT ![t] = Present(t)]
            /\ watch' = [watch EXCEPT ![t] = [conn |-> conn, ev |-> "armed"]]
       ELSE Go(t, "recover") /\ UNCHANGED <<seen, watch>>
    /\ back' = [back EXCEPT ![t] = "list"]
    /\ UNCHANGED <<world, https, eph, state, aac, ann, old, pick>>

(* The data of each child: one that has gone meanwhile makes the round not  *)
(* ok, and its watch is forgotten.  No announcement of any node is left:    *)
(* announce ours again.  (odriveAnnouncer then hands the peers to the       *)
(* ciphertext cache, whose model takes their list as given.)                *)
TrackGet(t) ==
    /\ Alive /\ at[t] = "get"
    /\ LET got == IF Answers(conn) THEN seen[t] \cap Present(t) ELSE {}
           ok  == got = seen[t]
       IN  /\ Go(t, IF got = {} /\ t = "https" THEN IF ok THEN "empty" ELSE "emptyBad"
                    ELSE IF ~ok THEN "recover" ELSE IF t = "aac" THEN "handle" ELSE "wait")
           /\ seen' = [seen EXCEPT ![t] = IF ok /\ t = "aac" THEN got ELSE {}]
           /\ watch' = [watch EXCEPT ![t] = IF ok THEN @ ELSE NoWatch]
    /\ UNCHANGED <<world, https, eph, state, aac, ann, back, old, pick>>

(* The handler aacAnnouncer leaves a client that answers alone, and         *)
(* otherwise sends the first announced instance that does.                 *)
Handle(t) ==
    /\ Alive /\ at[t] = "handle"
    /\ IF (aac = 0 \/ aac # aacLive) /\ aacLive \in seen[t]
       THEN Go(t, "send") /\ pick' = [pick EXCEPT ![t] = aacLive]
       ELSE Go(t, "wait") /\ UNCHANGED pick
    /\ seen' = [seen EXCEPT ![t] = {}]
    /\ UNCHANGED <<world, https, eph, state, aac, ann, back, old, watch>>

(* The watch fires: look again, or recover after an error. *)
TrackEvent(t) ==
    /\ Alive /\ at[t] = "wait" /\ watch[t].ev \in {"changed", "error"}
    /\ Go(t, IF watch[t].ev = "error" THEN "recover" ELSE back[t])
    /\ watch' = [watch EXCEPT ![t] = NoWatch]
    /\ UNCHANGED <<world, https, eph, state, aac, ann, back, old, seen, pick>>

(* doZkRecovery after the first attempt failed: it notes the connection in  *)
(* use, dials another one ...                                              *)
Redial(t) ==
    /\ Alive /\ at[t] = "redial"
    /\ old' = [old EXCEPT ![t] = conn]
    /\ Go(t, "register")
    /\ UNCHANGED <<world, https, eph, state, aac, ann, back, seen, watch, pick>>

(* Mutant of NewRequests: the new state takes over the announcement. *)
NewRequestsKept == requests

(* What the shared ZKState keeps of its remembered announcement and of its  *)
(* termination when *z = *zNew: nothing, RegisterApplication made both.     *)
NewRequests == FALSE
NewTerminated == FALSE

(* ... and registers on it.  When that works the shared state is replaced.  *)
Register(t) ==
    /\ Alive /\ at[t] = "register"
    /\ IF zkUp
       THEN /\ conns < MaxConns
            /\ conns' = conns + 1
            /\ conn' = conns + 1
            /\ requests' = NewRequests
            /\ terminated' = NewTerminated
            /\ Go(t, "again")
       ELSE /\ Go(t, IF back[t] = "list" THEN "recover" ELSE back[t])
            /\ UNCHANGED <<conn, conns, requests, terminated>>
    /\ UNCHANGED <<world, https, eph, closed, aac, ann, track, pick>>

(* Mutant of Discarded: the connection now in use is closed. *)
DiscardedNew(t) == conn

(* The connection doZkCleanup closes. *)
Discarded(t) == old[t]

Cleanup(t) ==
    /\ Alive /\ at[t] = "cleanup"
    /\ closed' = closed \cup {Discarded(t)}
    /\ IF Discarded(t) \in closed THEN UNCHANGED <<eph, watch>> ELSE EndSession(Discarded(t))
    /\ Go(t, back[t])
    /\ old' = [old EXCEPT ![t] = 0]
    /\ UNCHANGED <<world, https, conn, conns, requests, terminated, aac, ann, back, seen, pick>>
----------------------------------------------------------------------------
(* The keepalive tickers *)

(* zkKeepalive looks for the node among the children and announces it when  *)
(* it is missing.                                                          *)
ZkTick ==
    /\ Alive /\ at["keepalive"] = "idle"
    /\ ~terminated /\ Answers(conn) /\ https /\ eph = 0
    /\ Go("keepalive", "reannounce")
    /\ UNCHANGED <<world, https, eph, state, aac, ann, track, pick>>

(* Mutant of AacTick: it reconnects only when there is no client. *)
AacTickNil ==
    /\ Alive /\ at["aackeep"] = "idle" /\ aac = 0
    /\ zkUp /\ aacLive \in aacAnn
    /\ Go("aackeep", "send")
    /\ pick' = [pick EXCEPT !["aackeep"] = aacLive]
    /\ UNCHANGED <<world, https, eph, state, aac, ann, track>>

(* aacKeepalive checks the client; aacReconnect looks for an announced      *)
(* instance that answers, over a connection of its own.                    *)
AacTick ==
    /\ Alive /\ at["aackeep"] = "idle"
    /\ aac = 0 \/ aac # aacLive
    /\ zkUp /\ aacLive \in aacAnn
    /\ Go("aackeep", "send")
    /\ pick' = [pick EXCEPT !["aackeep"] = aacLive]
    /\ UNCHANGED <<world, https, eph, state, aac, ann, track>>

(* aacCreated is not buffered.  Start takes the first client, the goroutine *)
(* it then starts takes every later one.                                   *)
Send(p) ==
    /\ Alive /\ at[p] = "send" /\ at["main"] # "connect"
    /\ aac' = pick[p]
    /\ pick' = [pick EXCEPT ![p] = 0]
    /\ at' = [at EXCEPT ![p] = IF p = "aackeep" THEN "idle" ELSE "wait",
                        !["main"] = IF @ = "waitaac" THEN "announce" ELSE @]
    /\ UNCHANGED <<world, https, eph, state, ann, track>>
----------------------------------------------------------------------------
(* Start and stop *)

(* connectWithZookeeper retries until the registration works; zkTracking    *)
(* then starts the goroutines.                                             *)
Connect ==
    /\ at["main"] = "connect" /\ zkUp
    /\ conn' = 1 /\ conns' = 1
    /\ at' = [p \in Procs |->
                 CASE p \in Trackers -> "mount" [] p = "main" -> "waitaac" [] OTHER -> "idle"]
    /\ UNCHANGED <<world, https, eph, closed, requests, terminated, aac, ann, track, pick>>

(* ServiceStop marks the state, asks whether the znode exists, which makes  *)
(* no difference, ...                                                       *)
MarkTerminated ==
    /\ Alive /\ at["stop"] = "idle" /\ (EarlyStop \/ at["main"] = "serving")
    /\ terminated' = TRUE
    /\ Go("stop", "delete")
    /\ UNCHANGED <<world, https, eph, conn, conns, closed, requests, aac, ann, track, pick>>

(* ... and deletes it; an error is only logged. *)
DeleteNode ==
    /\ Alive /\ at["stop"] = "delete"
    /\ IF Answers(conn) /\ eph # 0
       THEN eph' = 0 /\ watch' = Changed("https")
       ELSE UNCHANGED <<eph, watch>>
    /\ Go("stop", "stopped")
    /\ UNCHANGED <<world, https, state, aac, ann, back, old, seen, pick>>
----------------------------------------------------------------------------
(* The services outside the process *)

ZkOutage ==
    /\ zkUp /\ faults < MaxFaults
    /\ zkUp' = FALSE /\ faults' = faults + 1
    /\ UNCHANGED <<https, eph, aacLive, aacAnn, aacs, state, aac, at, ann, track, pick>>

ZkBack ==
    /\ ~zkUp /\ zkUp' = TRUE
    /\ UNCHANGED <<faults, https, eph, aacLive, aacAnn, aacs, state, aac, at, ann, track, pick>>

(* The session of the open connection c expires. *)
Expire(c) ==
    /\ zkUp /\ faults < MaxFaults /\ c \in 1..conns \ closed
    /\ faults' = faults + 1
    /\ EndSession(c)
    /\ UNCHANGED <<zkUp, https, aacLive, aacAnn, aacs, state, aac, at, ann, back, old, seen, pick>>

AacStart ==
    /\ aacLive = 0 /\ aacs < MaxAACs /\ zkUp
    /\ aacs' = aacs + 1 /\ aacLive' = aacs + 1
    /\ aacAnn' = aacAnn \cup {aacs + 1}
    /\ watch' = Changed("aac")
    /\ UNCHANGED <<zkUp, faults, https, eph, state, aac, at, ann, back, old, seen, pick>>

AacStop ==
    /\ aacLive # 0 /\ faults < MaxFaults
    /\ aacLive' = 0 /\ faults' = faults + 1
    /\ UNCHANGED <<zkUp, https, eph, aacAnn, aacs, state, aac, at, ann, track, pick>>

(* The lease of an instance that is gone runs out. *)
AacLease(k) ==
    /\ k \in aacAnn \ {aacLive} /\ zkUp
    /\ aacAnn' = aacAnn \ {k}
    /\ watch' = Changed("aac")
    /\ UNCHANGED <<zkUp, faults, https, eph, aacLive, aacs, state, aac, at, ann, back, old, seen, pick>>
----------------------------------------------------------------------------
Init ==
    /\ zkUp = TRUE /\ faults = 0 /\ https = OtherNodes /\ eph = 0
    /\ aacLive = 0 /\ aacAnn = {} /\ aacs = 0
    /\ conn = 0 /\ conns = 0 /\ closed = {} /\ requests = FALSE /\ terminated = FALSE
    /\ aac = 0
    /\ at = [p \in Procs |-> IF p = "main" THEN "connect" ELSE "off"]
    /\ step = [p \in Procs |-> "test"] /\ on = [p \in Procs |-> 0] /\ pick = [p \in Procs |-> 0]
    /\ back = [t \in Trackers |-> "mount"] /\ old = [t \in Trackers |-> 0]
    /\ seen = [t \in Trackers |-> {}] /\ watch = [t \in Trackers |-> NoWatch]

Tracker(t) ==
    \/ TrackMount(t) \/ TrackList(t) \/ TrackGet(t) \/ Handle(t) \/ TrackEvent(t)
    \/ Redial(t) \/ Register(t) \/ Cleanup(t)

(* What a goroutine does by itself. *)
Proc(p) == Test(p) \/ Exists(p) \/ Create(p) \/ Send(p)

(* What happens after the process has ended is of no interest. *)
World ==
    /\ Alive
    /\ \/ ZkOutage \/ ZkBack \/ (\E c \in 1..MaxConns : Expire(c))
       \/ AacStart \/ AacStop \/ (\E k \in 1..MaxAACs : AacLease(k))

Next ==
    \/ \E t \in Trackers : Tracker(t)
    \/ \E p \in Procs : Proc(p)
    \/ Connect \/ ZkTick \/ AacTick \/ MarkTerminated \/ DeleteNode
    \/ World

(* Goroutines are scheduled, tickers tick and an outage ends. *)
Fairness ==
    /\ \A t \in Trackers : WF_vars(Tracker(t) \/ Proc(t))
    /\ WF_vars(Connect \/ Proc("main"))
    /\ WF_vars(ZkTick \/ Proc("keepalive")) /\ WF_vars(AacTick \/ Proc("aackeep"))
    /\ WF_vars(Alive /\ ZkBack)

Spec == Init /\ [][Next]_vars /\ Fairness
----------------------------------------------------------------------------
(* The connection the node works with is open and, once it is replaced, no  *)
(* tracker waits on a watch of a closed one that will never fire, whatever  *)
(* two trackers recover at the same time (doZkRecovery).                    *)
ConnectionUsable ==
    /\ conn \notin closed
    /\ \A t \in Trackers : at[t] = "wait" => watch[t].conn \notin closed \/ watch[t].ev # "armed"

(* After ServiceStop no goroutine begins to announce the node again, so     *)
(* that it gets no new work while the uploads drain, even though a recovery *)
(* that ran meanwhile has cleared IsTerminated; and once the node is out of *)
(* the list with no announcement under way, it stays out.  (A goroutine     *)
(* that had found the state not terminated before the stop may still        *)
(* announce the stopped node, and the first announcement of Start does not  *)
(* look at IsTerminated.)                                                   *)
Out == at["stop"] = "stopped" /\ at["main"] = "serving" /\ eph = 0 /\ \A p \in Procs : step[p] = "test"
StopIsFinal ==
    [][/\ at["stop"] = "stopped" /\ at["main"] = "serving" =>
             \A p \in Procs : step[p] = "test" => step'[p] = "test"
       /\ Out => Out']_vars

(* A serving node that still remembers its announcement ends up announced   *)
(* and stays so once ZooKeeper is up, whatever sessions it lost.            *)
Reannounced ==
    <>[](zkUp /\ requests /\ ~terminated /\ at["main"] = "serving") => <>[](eph # 0)

(* Once an announced AAC instance stays up, every node that has started     *)
(* ends up with a client of that instance, whatever older client the        *)
(* tracker and the keepalive had still in hand.                             *)
AACRecovers ==
    <>[](zkUp /\ Alive /\ aacLive # 0 /\ aacLive \in aacAnn) => <>[](aac = aacLive)
=============================================================================
