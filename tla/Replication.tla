---------------------------- MODULE Replication ----------------------------
(***************************************************************************)
(* A cluster of nodes replicating sensor readings: on every node the       *)
(* sensor threads, the NodeStateWorker with its three maps behind one      *)
(* lock, the SensorUpdatePublisher and the connection threads that run     *)
(* handle_sensor_update.  Links (TcpClient and TcpServer) are abstracted   *)
(* to what they promise: a queued frame is delivered at most once, in any  *)
(* order relative to others, or lost.                                      *)
(***************************************************************************)
EXTENDS LWW, FiniteSets

CONSTANTS
  Produces,       \* Produces[n]: the sensor ids node n's SensorManager loads
  PeerIds,        \* peer-table keys: node ids and bootstrap@host:port aliases
  Reach,          \* Reach[p]: the node a connection to peer id p ends at
  InitialPeers,   \* InitialPeers[n]: the peer table a process starts with
  ClockMonotone,  \* whether time.time() never steps back on a node
  Lossy,          \* whether links may lose frames
  MaxCrashes,     \* bound: process crashes in a behaviour
  MaxQueue        \* bound: events waiting in a sensor_event_queue

ASSUME ReplicationAssumption ==
  /\ Produces \in [Nodes -> SUBSET Sensors]
  /\ Nodes \subseteq PeerIds
  /\ Reach \in [PeerIds -> Nodes]
  /\ \A n \in Nodes : Reach[n] = n
  /\ InitialPeers \in [Nodes -> SUBSET PeerIds]
  /\ \A n \in Nodes : n \notin InitialPeers[n]
  /\ ClockMonotone \in BOOLEAN /\ Lossy \in BOOLEAN
  /\ MaxCrashes \in Nat /\ MaxQueue \in Nat
  /\ MaxCrashes > 0 => Lossy

VARIABLES
  clock,                \* int(time.time() * 1000) on each node
  event_queue,          \* the sensor_event_queue of each node
  state,                \* NodeStateWorker._state
  updates_ui,           \* NodeStateWorker._updates_ui
  updates_replication,  \* NodeStateWorker._updates_replication
  batch,                \* the publisher's popped, not yet sent updates
  peers,                \* keys of the PeerTable
  net,                  \* SENSOR_UPDATE frames queued or in flight
  crashes,              \* crashes so far
  issued,               \* history: readings accepted where they were made
  booted,               \* history: clock when the running process started
  lost                  \* history: the newest reading of each sensor that some
                        \* node was never sent, or lost again

store == <<state, updates_ui, updates_replication>>
history == <<issued, booted, lost>>
vars == <<clock, event_queue, store, batch, peers, net, crashes, history>>

Event == [sensor_id : Sensors, value : Values, ts_ms : Time]
Message == [via : PeerIds, sender : Nodes, sensor_id : Sensors, rec : Record]
Map == [Sensors -> Slot]

Init ==
  /\ clock = [n \in Nodes |-> 0]
  /\ event_queue = [n \in Nodes |-> <<>>]
  /\ state = [n \in Nodes |-> NoRecords]
  /\ updates_ui = [n \in Nodes |-> NoRecords]
  /\ updates_replication = [n \in Nodes |-> NoRecords]
  /\ batch = [n \in Nodes |-> NoRecords]
  /\ peers = InitialPeers
  /\ net = {}
  /\ crashes = 0
  /\ issued = {}
  /\ booted = clock
  /\ lost = NoRecords

-----------------------------------------------------------------------------
\* The wall clock of node n moves; it steps back when NTP corrects it.
clock_step(n) ==
  /\ \E t \in Time :
        /\ ClockMonotone => t > clock[n]
        /\ clock' = [clock EXCEPT ![n] = t]
  /\ UNCHANGED <<event_queue, store, batch, peers, net, crashes, history>>

\* One turn of BaseSensor._loop: a reading stamped now goes into the queue.
sensor_loop(n, s, v) ==
  /\ Len(event_queue[n]) < MaxQueue
  /\ event_queue' = [event_queue EXCEPT ![n] =
         Append(@, [sensor_id |-> s, value |-> v, ts_ms |-> clock[n]])]
  /\ UNCHANGED <<clock, store, batch, peers, net, crashes, history>>

\* merge_update that takes whatever arrives.
MergeLastArrival(n, s, u) ==
  /\ state' = [state EXCEPT ![n][s] = u]
  /\ updates_ui' = [updates_ui EXCEPT ![n][s] = u]
  /\ updates_replication' = [updates_replication EXCEPT ![n][s] = u]

\* merge_update that misses the replication stream.
MergeSkipsReplication(n, s, u) ==
  LET Put(m) == IF newer(u, state[n][s]) THEN [m EXCEPT ![n][s] = u] ELSE m
  IN /\ state' = Put(state)
     /\ updates_ui' = Put(updates_ui)
     /\ UNCHANGED updates_replication

\* merge_update that queues every update, stale ones too.
MergeQueuesStale(n, s, u) ==
  LET Put(m) == IF newer(u, state[n][s]) THEN [m EXCEPT ![n][s] = u] ELSE m
  IN /\ state' = Put(state)
     /\ updates_ui' = [updates_ui EXCEPT ![n][s] = u]
     /\ updates_replication' = [updates_replication EXCEPT ![n][s] = u]

(***************************************************************************)
(* NodeStateWorker.merge_update, one critical section: an update that is   *)
(* newer than the record held goes into all three maps, any other is       *)
(* ignored.                                                                *)
(***************************************************************************)
merge_update(n, s, u) ==
  LET Put(m) == IF newer(u, state[n][s]) THEN [m EXCEPT ![n][s] = u] ELSE m
  IN /\ state' = Put(state)
     /\ updates_ui' = Put(updates_ui)
     /\ updates_replication' = Put(updates_replication)

\* The worker thread takes one event and merges it with itself as origin.
handle_sensor_event(n) ==
  /\ event_queue[n] # <<>>
  /\ LET e == Head(event_queue[n])
         s == e.sensor_id
         u == [value |-> e.value, ts_ms |-> e.ts_ms, origin |-> n]
     IN /\ merge_update(n, s, u)
        /\ issued' = IF newer(u, state[n][s])
                       THEN issued \cup {<<s, u>>} ELSE issued
  /\ event_queue' = [event_queue EXCEPT ![n] = Tail(@)]
  /\ UNCHANGED <<clock, batch, peers, net, crashes, booted, lost>>

\* One stream shared by the Web API and the publisher.
UiClearsReplication(n) ==
  /\ updates_ui' = [updates_ui EXCEPT ![n] = NoRecords]
  /\ updates_replication' = [updates_replication EXCEPT ![n] = NoRecords]
  /\ UNCHANGED <<clock, event_queue, state, batch, peers, net, crashes, history>>

\* GET /api/updates: the UI stream is returned and cleared.
get_updates_snapshot(n) ==
  /\ updates_ui' = [updates_ui EXCEPT ![n] = NoRecords]
  /\ UNCHANGED <<clock, event_queue, state, updates_replication, batch, peers,
                 net, crashes, history>>

\* The publisher pops the replication stream; an empty one ends the round.  (The
\* popped dict is keyed "origin:sensor_id"; two sensors share such a key only if
\* a NODE_ID has a ":".)
pop_replication_updates(n) ==
  /\ batch[n] = NoRecords
  /\ updates_replication[n] # NoRecords
  /\ batch' = [batch EXCEPT ![n] = updates_replication[n]]
  /\ updates_replication' = [updates_replication EXCEPT ![n] = NoRecords]
  /\ UNCHANGED <<clock, event_queue, state, updates_ui, peers, net, crashes,
                 history>>

\* Records that lost[s] has to account for are joined into it.
Later(a, b) == IF b # NoRecord /\ newer(b, a) THEN b ELSE a

\* The origin filter the wrong way round: what others sent is forwarded.
ForeignUpdates(n) ==
  {s \in Sensors : batch[n][s] # NoRecord /\ batch[n][s].origin # n}

\* The popped updates that pass the origin filter.
LocalUpdates(n) ==
  {s \in Sensors : batch[n][s] # NoRecord /\ batch[n][s].origin = n}

Frames(n, keys, targets) ==
  {[via |-> p, sender |-> n, sensor_id |-> published_id(n, s),
    rec |-> batch[n][s]] : s \in keys, p \in targets}

(***************************************************************************)
(* The rest of _publish_once: every local-origin update is queued for      *)
(* every peer listed now.  With no peer the popped updates are gone.       *)
(* Sending one frame after the other adds no behaviour: a frame not yet    *)
(* queued and a frame queued and not yet delivered look the same.          *)
(***************************************************************************)
publish(n) ==
  /\ batch[n] # NoRecords
  /\ net' = net \cup Frames(n, LocalUpdates(n), peers[n])
  /\ batch' = [batch EXCEPT ![n] = NoRecords]
  /\ LET missed == \E m \in Nodes \ {n} : \A p \in peers[n] : Reach[p] # m
     IN lost' = [s \in Sensors |-> IF missed /\ s \in LocalUpdates(n)
                                     THEN Later(lost[s], batch[n][s]) ELSE lost[s]]
  /\ UNCHANGED <<clock, event_queue, store, peers, crashes, issued, booted>>

\* A connection thread of the receiver dispatches m to handle_sensor_update.
handle_sensor_update(m) ==
  /\ m \in net
  /\ merge_update(Reach[m.via], m.sensor_id, m.rec)
  /\ net' = net \ {m}
  /\ UNCHANGED <<clock, event_queue, batch, peers, crashes, history>>

\* Membership adds a peer id to n's table (never n's own id).
add_peer(n, p) ==
  /\ p \notin peers[n] /\ p # n
  /\ peers' = [peers EXCEPT ![n] = @ \cup {p}]
  /\ UNCHANGED <<clock, event_queue, store, batch, net, crashes, history>>

\* A frame is lost: a failed sendall, or a connection reset under it.
lose(m) ==
  /\ Lossy /\ m \in net
  /\ net' = net \ {m}
  /\ lost' = [lost EXCEPT ![m.sensor_id] = Later(@, m.rec)]
  /\ UNCHANGED <<clock, event_queue, store, batch, peers, crashes, issued, booted>>

(***************************************************************************)
(* The process of node n dies and starts again with empty memory; a        *)
(* monotone clock has moved on by then.  A frame n had sent to itself dies *)
(* with both its ends; any other frame may still arrive, or be lost.       *)
(***************************************************************************)
crash(n) ==
  /\ crashes < MaxCrashes
  /\ crashes' = crashes + 1
  /\ \E t \in Time :
        /\ ClockMonotone => t > clock[n]
        /\ clock' = [clock EXCEPT ![n] = t]
        /\ booted' = [booted EXCEPT ![n] = t]
  /\ event_queue' = [event_queue EXCEPT ![n] = <<>>]
  /\ state' = [state EXCEPT ![n] = NoRecords]
  /\ updates_ui' = [updates_ui EXCEPT ![n] = NoRecords]
  /\ updates_replication' = [updates_replication EXCEPT ![n] = NoRecords]
  /\ batch' = [batch EXCEPT ![n] = NoRecords]
  /\ peers' = [peers EXCEPT ![n] = InitialPeers[n]]
  /\ net' = {m \in net : m.sender # n \/ Reach[m.via] # n}
  /\ lost' = [s \in Sensors |-> Later(lost[s], state[n][s])]
  /\ UNCHANGED issued

Next ==
  \/ \E n \in Nodes :
        \/ clock_step(n)
        \/ \E s \in Produces[n], v \in Values : sensor_loop(n, s, v)
        \/ handle_sensor_event(n)
        \/ get_updates_snapshot(n)
        \/ pop_replication_updates(n)
        \/ publish(n)
        \/ \E p \in PeerIds : add_peer(n, p)
        \/ crash(n)
  \/ \E m \in net : handle_sensor_update(m) \/ lose(m)

Spec == Init /\ [][Next]_vars

(***************************************************************************)
(* The threads that keep running: the state worker and the publisher loop  *)
(* until they are stopped, and a connection thread reads what reaches it.  *)
(***************************************************************************)
FairSpec ==
  /\ Spec
  /\ \A n \in Nodes : /\ WF_vars(handle_sensor_event(n))
                      /\ WF_vars(pop_replication_updates(n))
                      /\ WF_vars(publish(n))
  /\ WF_vars(\E m \in net : handle_sensor_update(m))
-----------------------------------------------------------------------------
\* Every variable keeps its shape: maps hold records of known nodes, queues
\* hold events, the network holds SENSOR_UPDATE frames.
TypeOK ==
  /\ clock \in [Nodes -> Time]
  /\ event_queue \in [Nodes -> Seq(Event)]
  /\ state \in [Nodes -> Map]
  /\ updates_ui \in [Nodes -> Map]
  /\ updates_replication \in [Nodes -> Map]
  /\ batch \in [Nodes -> Map]
  /\ peers \in [Nodes -> SUBSET PeerIds]
  /\ net \subseteq Message
  /\ crashes \in 0..MaxCrashes
  /\ issued \subseteq Sensors \X Record
  /\ booted \in [Nodes -> Time]
  /\ lost \in Map

\* An update waiting in the UI or the replication stream is the record the
\* state holds: no stream ever serves a reading that merge_update has already
\* replaced (the three maps are written in one critical section and each
\* stream is cleared on its own).
PendingIsCurrent ==
  \A n \in Nodes, s \in Sensors :
     /\ updates_ui[n][s] \in {NoRecord, state[n][s]}
     /\ updates_replication[n][s] \in {NoRecord, state[n][s]}

\* Two nodes whose records of a sensor carry the same (ts_ms, origin) hold the
\* same reading, although merge_update compares stamps and never values: an
\* origin lets only one reading per stamp out, also after a clock step or a
\* restart.
SameStampSameRecord ==
  \A n, m \in Nodes, s \in Sensors :
     /\ state[n][s] # NoRecord /\ state[m][s] # NoRecord
     /\ SameStamp(state[n][s], state[m][s])
     => state[n][s] = state[m][s]

\* Node o's slot u holds a local update, which _publish_once will broadcast.
IsLocal(u, o) == u # NoRecord /\ u.origin = o

\* Something at least as new as r is on its way to node m: in a frame, or at
\* its origin, waiting for the publisher or popped by it.
OnItsWay(m, s, r) ==
  \/ \E f \in net :
        Reach[f.via] = m /\ f.sensor_id = s /\ covers(f.rec, r)
  \/ \E o \in Nodes :
        \/ /\ IsLocal(updates_replication[o][s], o)
           /\ covers(updates_replication[o][s], r)
        \/ IsLocal(batch[o][s], o) /\ covers(batch[o][s], r)

\* Node m has, or will get, something at least as new as r; or a reading at
\* least as new as r was lost.
Reaches(m, s, r) ==
  covers(lost[s], r) \/ covers(state[m][s], r) \/ OnItsWay(m, s, r)

\* No reading falls between the streams: every reading issued anywhere, and newer
\* than all that were lost (popped with a peer not listed yet, broken off by a
\* connection, gone with a process), is held or outdated at every node, or
\* something at least as new is on its way there -- although a remote update may
\* replace a local one in the replication stream and is then filtered out.
NoReadingLost == \A e \in issued, m \in Nodes : Reaches(m, e[1], e[2])

\* No frame is in flight and no publisher has a local update left.
Quiescent ==
  /\ net = {}
  /\ \A o \in Nodes, s \in Sensors :
        ~IsLocal(updates_replication[o][s], o) /\ ~IsLocal(batch[o][s], o)

\* Losses heal: once replication has drained, a reading newer than every lost
\* one of its sensor is held by all nodes or by none.  What was popped before a
\* peer was listed, dropped by a connection or forgotten in a restart does no
\* harm that the sensor's next reading does not undo.
QuiescentAgreement ==
  Quiescent =>
     \A n, m \in Nodes, s \in Sensors :
        state[n][s] # NoRecord /\ newer(state[n][s], lost[s])
           => state[m][s] = state[n][s]

\* When sensors pause, all nodes come to show the same readings and keep them.
Convergence == <>[](\A n, m \in Nodes : state[n] = state[m])

\* Only the node that wrote a key writes to it again (the "origin-scoped state
\* keys" of the design document); state is keyed by sensor_id alone.
OriginScopedKeys ==
  [][\A n \in Nodes, s \in Sensors :
        state[n][s] # NoRecord /\ state'[n][s] # NoRecord
           => state'[n][s].origin = state[n][s].origin]_vars

-----------------------------------------------------------------------------
\* The parts of the inductive invariant behind the safety properties.

\* What the publisher has popped is no newer than the state it came from.
BatchOutdated ==
  \A n \in Nodes, s \in Sensors :
     batch[n][s] # NoRecord => covers(state[n][s], batch[n][s])

\* A node that sends to its own alias holds what it sent.
SelfHeld ==
  \A f \in net : Reach[f.via] = f.sender => covers(state[f.sender][f.sensor_id], f.rec)

\* Every record held, popped or in flight was issued, under the same key.
Known ==
  /\ \A n \in Nodes, s \in Sensors :
        /\ state[n][s] # NoRecord => <<s, state[n][s]>> \in issued
        /\ batch[n][s] # NoRecord => <<s, batch[n][s]>> \in issued
  /\ \A m \in net : <<m.sensor_id, m.rec>> \in issued

\* A process's readings, queued or issued, lie between its start and now.
Timely ==
  ClockMonotone =>
     /\ \A n \in Nodes : booted[n] <= clock[n]
     /\ \A n \in Nodes : \A i \in 1..Len(event_queue[n]) :
           /\ booted[n] <= event_queue[n][i].ts_ms
           /\ event_queue[n][i].ts_ms <= clock[n]
     /\ \A e \in issued : e[2].ts_ms <= clock[e[2].origin]

\* An origin still holds every reading it issued, or a newer one, unless a
\* restart made it forget readings older than the running process.
OwnHeld ==
  \A e \in issued :
     \/ covers(state[e[2].origin][e[1]], e[2])
     \/ ClockMonotone /\ e[2].ts_ms < booted[e[2].origin]

\* The deployments in which a stamp identifies a reading: no wall clock ever
\* steps back, or no process restarts.
StampsHold == ClockMonotone \/ MaxCrashes = 0

\* A stamp names one reading of a sensor, for ever.
UniqueStamps ==
  \A e, f \in issued : e[1] = f[1] /\ SameStamp(e[2], f[2]) => e = f

\* What delivery rests on, and what the identity of readings rests on.
DeliveryInv ==
  /\ TypeOK /\ PendingIsCurrent /\ BatchOutdated /\ SelfHeld /\ Known
  /\ NoReadingLost
StampInv == Timely /\ OwnHeld /\ UniqueStamps
IndInv == DeliveryInv /\ StampInv

-----------------------------------------------------------------------------
\* The cluster implements the abstract store: a node's view is its state.
Store == INSTANCE LWWStore WITH view <- state

\* Every behaviour of the cluster is one of the abstract store.
ImplementsStore == Store!Spec
=============================================================================
