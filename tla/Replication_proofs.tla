------------------------- MODULE Replication_proofs -------------------------
(***************************************************************************)
(* Proofs about the replication protocol, for every cluster, every set of  *)
(* readings and every bound.                                               *)
(***************************************************************************)
EXTENDS Replication, LWW_proofs

\* merge_update touches one key of one node: either the update is newer and
\* all three maps hold it afterwards, or no map changes.
LEMMA MergeEffect ==
  ASSUME state \in [Nodes -> Map], updates_ui \in [Nodes -> Map],
         updates_replication \in [Nodes -> Map],
         NEW n \in Nodes, NEW s \in Sensors, NEW u \in Record,
         merge_update(n, s, u)
  PROVE  /\ state' \in [Nodes -> Map] /\ updates_ui' \in [Nodes -> Map]
         /\ updates_replication' \in [Nodes -> Map]
         /\ \A m \in Nodes, t \in Sensors : m # n \/ t # s =>
               /\ state'[m][t] = state[m][t]
               /\ updates_ui'[m][t] = updates_ui[m][t]
               /\ updates_replication'[m][t] = updates_replication[m][t]
         /\ newer(u, state[n][s]) =>
               /\ state'[n][s] = u /\ updates_ui'[n][s] = u
               /\ updates_replication'[n][s] = u
         /\ ~newer(u, state[n][s]) => UNCHANGED store
<1> DEFINE Put(f) == [f EXCEPT ![n][s] = u]
<1>1. ASSUME NEW f \in [Nodes -> Map]
      PROVE  /\ Put(f) \in [Nodes -> Map]
             /\ Put(f)[n][s] = u
             /\ \A m \in Nodes, t \in Sensors :
                   m # n \/ t # s => Put(f)[m][t] = f[m][t]
  BY DEF Map, Slot
<1>2. CASE newer(u, state[n][s])
  <2>1. /\ state' = Put(state) /\ updates_ui' = Put(updates_ui)
        /\ updates_replication' = Put(updates_replication)
    BY <1>2 DEF merge_update
  <2> HIDE DEF Put
  <2> QED
    BY <1>1, <1>2, <2>1
<1>3. CASE ~newer(u, state[n][s])
  BY <1>3 DEF merge_update, store
<1> QED
  BY <1>2, <1>3

\* The reading an event stands for is a well-formed record.
LEMMA EventRecord ==
  ASSUME TypeOK, NEW n \in Nodes, event_queue[n] # <<>>
  PROVE  /\ Head(event_queue[n]) \in Event
         /\ Head(event_queue[n]) = event_queue[n][1]
         /\ Len(event_queue[n]) \in Nat \ {0}
         /\ Tail(event_queue[n]) \in Seq(Event)
         /\ Len(Tail(event_queue[n])) = Len(event_queue[n]) - 1
         /\ \A i \in 1..Len(Tail(event_queue[n])) :
               Tail(event_queue[n])[i] = event_queue[n][i + 1]
         /\ [value |-> Head(event_queue[n]).value,
             ts_ms |-> Head(event_queue[n]).ts_ms, origin |-> n] \in Record
         /\ Head(event_queue[n]).sensor_id \in Sensors
<1>1. event_queue[n] \in Seq(Event)
  BY DEF TypeOK
<1>2. /\ Head(event_queue[n]) \in Event
      /\ Tail(event_queue[n]) \in Seq(Event)
      /\ Len(Tail(event_queue[n])) = Len(event_queue[n]) - 1
      /\ \A i \in 1..Len(Tail(event_queue[n])) :
            Tail(event_queue[n])[i] = event_queue[n][i + 1]
  BY <1>1, HeadTailProperties
<1>3. /\ Len(event_queue[n]) \in Nat \ {0}
      /\ Head(event_queue[n]) = event_queue[n][1]
  BY <1>1, EmptySeq
<1> QED
  BY <1>2, <1>3 DEF Event, Record

\* A delivered frame addresses a node and carries a well-formed record.
LEMMA FrameFields ==
  ASSUME TypeOK, NEW m \in net
  PROVE  /\ m.via \in PeerIds /\ Reach[m.via] \in Nodes /\ m.sender \in Nodes
         /\ m.sensor_id \in Sensors /\ m.rec \in Record
<1>1. m \in Message
  BY DEF TypeOK
<1>2. Reach \in [PeerIds -> Nodes]
  BY ReplicationAssumption
<1> QED
  BY <1>1, <1>2 DEF Message

\* Every local-origin update popped is a record, queued under its own key for
\* every peer.
LEMMA FramesTyped ==
  ASSUME ColonFree, TypeOK, NEW n \in Nodes
  PROVE  /\ \A s \in LocalUpdates(n) :
               s \in Sensors /\ batch[n][s] \in Record /\ batch[n][s].origin = n
         /\ Frames(n, LocalUpdates(n), peers[n]) =
               {[via |-> p, sender |-> n, sensor_id |-> s, rec |-> batch[n][s]] :
                  s \in LocalUpdates(n), p \in peers[n]}
         /\ Frames(n, LocalUpdates(n), peers[n]) \subseteq Message
<1>1. ASSUME NEW s \in LocalUpdates(n)
      PROVE  s \in Sensors /\ batch[n][s] \in Record /\ batch[n][s].origin = n
  BY DEF LocalUpdates, TypeOK, Map, Slot
<1>2. \A s \in LocalUpdates(n) : published_id(n, s) = s
  BY <1>1, KeyRoundTrip
<1>3. peers[n] \subseteq PeerIds
  BY DEF TypeOK
<1>4. Frames(n, LocalUpdates(n), peers[n]) =
         {[via |-> p, sender |-> n, sensor_id |-> s, rec |-> batch[n][s]] :
            s \in LocalUpdates(n), p \in peers[n]}
  BY <1>2 DEF Frames
<1> QED
  BY <1>1, <1>3, <1>4 DEF Message

\* The later of two slots is a slot.
LEMMA LaterTyped ==
  ASSUME NEW a \in Slot, NEW b \in Slot
  PROVE  Later(a, b) \in Slot
BY DEF Later

\* The later of two slots makes redundant what either of them does.
LEMMA LaterCovers ==
  ASSUME NEW a \in Slot, NEW b \in Slot, NEW x \in Record,
         covers(a, x) \/ covers(b, x)
  PROVE  covers(Later(a, b), x)
<1>1. CASE b # NoRecord /\ newer(b, a)
  <2>1. b \in Record /\ Later(a, b) = b
    BY <1>1 DEF Slot, Later
  <2>2. CASE covers(a, x)
    <3>1. a \in Record
      BY <2>2, EmptyCoversNothing DEF Slot
    <3>2. covers(b, a)
      BY <1>1, <2>1, <3>1, NewerCovers
    <3> QED
      BY <2>1, <2>2, <3>1, <3>2, CoversTransitive
  <2> QED
    BY <2>1, <2>2
<1>2. CASE ~(b # NoRecord /\ newer(b, a))
  <2>1. Later(a, b) = a
    BY <1>2 DEF Later
  <2>2. CASE covers(b, x)
    <3>1. b \in Record /\ covers(a, b)
      BY <1>2, <2>2, EmptyCoversNothing DEF Slot, covers
    <3> QED
      BY <2>1, <2>2, <3>1, CoversTransitive
  <2> QED
    BY <2>1, <2>2
<1> QED
  BY <1>1, <1>2

-----------------------------------------------------------------------------
\* Type correctness is inductive: no action leaves the declared shapes.
LEMMA TypeStep ==
  ASSUME ColonFree, TypeOK, [Next]_vars
  PROVE  TypeOK'
<1>1. ASSUME NEW n \in Nodes, clock_step(n)
      PROVE  TypeOK'
  BY <1>1 DEF clock_step, TypeOK, store, history
<1>2. ASSUME NEW n \in Nodes, NEW s \in Produces[n], NEW v \in Values,
             sensor_loop(n, s, v)
      PROVE  TypeOK'
  <2>1. s \in Sensors
    BY ReplicationAssumption
  <2>2. [sensor_id |-> s, value |-> v, ts_ms |-> clock[n]] \in Event
    BY <2>1 DEF TypeOK, Event
  <2>3. Append(event_queue[n], [sensor_id |-> s, value |-> v, ts_ms |-> clock[n]])
           \in Seq(Event)
    BY <2>2, AppendProperties DEF TypeOK
  <2>4. event_queue' \in [Nodes -> Seq(Event)]
    BY <1>2, <2>3 DEF sensor_loop, TypeOK
  <2> QED
    BY <1>2, <2>4 DEF sensor_loop, TypeOK, store, history
<1>3. ASSUME NEW n \in Nodes, handle_sensor_event(n)
      PROVE  TypeOK'
  <2> DEFINE e == Head(event_queue[n])
             u == [value |-> e.value, ts_ms |-> e.ts_ms, origin |-> n]
  <2>1. /\ event_queue[n] # <<>> /\ merge_update(n, e.sensor_id, u)
        /\ issued' \in {issued, issued \cup {<<e.sensor_id, u>>}}
        /\ event_queue' = [event_queue EXCEPT ![n] = Tail(@)]
        /\ UNCHANGED <<clock, batch, peers, net, crashes, booted, lost>>
    BY <1>3 DEF handle_sensor_event
  <2>2. u \in Record /\ e.sensor_id \in Sensors /\ Tail(event_queue[n]) \in Seq(Event)
    BY <2>1, EventRecord
  <2> HIDE DEF u, e
  <2>3. /\ state' \in [Nodes -> Map] /\ updates_ui' \in [Nodes -> Map]
        /\ updates_replication' \in [Nodes -> Map]
    BY <2>1, <2>2, MergeEffect DEF TypeOK
  <2>4. issued' \subseteq Sensors \X Record
    BY <2>1, <2>2 DEF TypeOK
  <2>5. event_queue' \in [Nodes -> Seq(Event)]
    BY <2>1, <2>2 DEF TypeOK
  <2> QED
    BY <2>1, <2>3, <2>4, <2>5 DEF TypeOK
<1>4. ASSUME NEW n \in Nodes, get_updates_snapshot(n)
      PROVE  TypeOK'
  BY <1>4 DEF get_updates_snapshot, TypeOK, history, NoRecords, Map, Slot
<1>5. ASSUME NEW n \in Nodes, pop_replication_updates(n)
      PROVE  TypeOK'
  BY <1>5 DEF pop_replication_updates, TypeOK, history, NoRecords, Map, Slot
<1>6. ASSUME NEW n \in Nodes, publish(n)
      PROVE  TypeOK'
  <2>1. net' \subseteq Message
    BY <1>6, FramesTyped DEF publish, TypeOK
  <2>2. batch' \in [Nodes -> Map]
    BY <1>6 DEF publish, TypeOK, NoRecords, Map, Slot
  <2>3. lost' \in Map
    BY <1>6, LaterTyped DEF publish, TypeOK, Map
  <2> QED
    BY <1>6, <2>1, <2>2, <2>3 DEF publish, TypeOK, store
<1>7. ASSUME NEW m \in net, handle_sensor_update(m)
      PROVE  TypeOK'
  <2>1. /\ state' \in [Nodes -> Map] /\ updates_ui' \in [Nodes -> Map]
        /\ updates_replication' \in [Nodes -> Map]
    BY <1>7, FrameFields, MergeEffect DEF handle_sensor_update, TypeOK
  <2> QED
    BY <1>7, <2>1 DEF handle_sensor_update, TypeOK, history
<1>8. ASSUME NEW n \in Nodes, NEW p \in PeerIds, add_peer(n, p)
      PROVE  TypeOK'
  BY <1>8 DEF add_peer, TypeOK, store, history
<1>9. ASSUME NEW m \in net, lose(m)
      PROVE  TypeOK'
  <2>1. lost' \in Map
    <3>1. m.sensor_id \in Sensors /\ Later(lost[m.sensor_id], m.rec) \in Slot
      BY FrameFields, LaterTyped DEF TypeOK, Map, Slot
    <3> QED
      BY <1>9, <3>1 DEF lose, TypeOK, Map
  <2> QED
    BY <1>9, <2>1 DEF lose, TypeOK, store
<1>10. ASSUME NEW n \in Nodes, crash(n)
       PROVE  TypeOK'
  <2>1. PICK t \in Time : /\ clock' = [clock EXCEPT ![n] = t]
                          /\ booted' = [booted EXCEPT ![n] = t]
    BY <1>10 DEF crash
  <2>2. clock' \in [Nodes -> Time] /\ booted' \in [Nodes -> Time]
    BY <2>1 DEF TypeOK
  <2>3. event_queue' \in [Nodes -> Seq(Event)]
    <3>1. <<>> \in Seq(Event)
      BY EmptySeq
    <3> QED
      BY <1>10, <3>1 DEF crash, TypeOK
  <2>4. /\ state' \in [Nodes -> Map] /\ updates_ui' \in [Nodes -> Map]
        /\ updates_replication' \in [Nodes -> Map] /\ batch' \in [Nodes -> Map]
    BY <1>10 DEF crash, TypeOK, NoRecords, Map, Slot
  <2>5. peers' \in [Nodes -> SUBSET PeerIds] /\ net' \subseteq Message
    <3>1. InitialPeers[n] \in SUBSET PeerIds
      BY ReplicationAssumption
    <3> QED
      BY <1>10, <3>1 DEF crash, TypeOK
  <2>6. crashes' \in 0..MaxCrashes
    <3>1. MaxCrashes \in Nat
      BY ReplicationAssumption
    <3> QED
      BY <1>10, <3>1 DEF crash, TypeOK
  <2>7. lost' \in Map
    BY <1>10, LaterTyped DEF crash, TypeOK, Map
  <2> QED
    BY <1>10, <2>2, <2>3, <2>4, <2>5, <2>6, <2>7 DEF crash, TypeOK
<1>11. CASE UNCHANGED vars
  BY <1>11 DEF vars, store, history, TypeOK
<1> QED
  BY <1>1, <1>2, <1>3, <1>4, <1>5, <1>6, <1>7, <1>8, <1>9, <1>10, <1>11 DEF Next

\* The initial state has the declared shapes.
LEMMA TypeInit == Init => TypeOK
<1>1. <<>> \in Seq(Event)
  BY EmptySeq
<1>2. 0 \in Time
  BY LWWAssumption DEF Time
<1>3. InitialPeers \in [Nodes -> SUBSET PeerIds] /\ MaxCrashes \in Nat
  BY ReplicationAssumption
<1>4. [n \in Nodes |-> NoRecords] \in [Nodes -> Map] /\ NoRecords \in Map
  BY DEF NoRecords, Map, Slot
<1>5. SUFFICES ASSUME Init PROVE TypeOK
  OBVIOUS
<1>6. clock \in [Nodes -> Time] /\ booted \in [Nodes -> Time]
  BY <1>2, <1>5 DEF Init
<1>7. event_queue \in [Nodes -> Seq(Event)]
  BY <1>1, <1>5 DEF Init
<1>8. crashes \in 0..MaxCrashes
  BY <1>3, <1>5 DEF Init
<1> QED
  BY <1>3, <1>4, <1>5, <1>6, <1>7, <1>8 DEF Init, TypeOK

\* Every reachable state of a cluster whose node ids contain no ":" is well
\* formed.  The hypothesis is needed: a frame's sensor_id is parsed out of
\* "origin:sensor_id" and would otherwise be no sensor's id.
THEOREM TypeCorrect ==
  ASSUME ColonFree
  PROVE  Spec => []TypeOK
<1>1. TypeOK /\ [Next]_vars => TypeOK'
  BY TypeStep
<1> QED
  BY <1>1, TypeInit, PTL DEF Spec

-----------------------------------------------------------------------------
\* Every slot keeps its record or takes a newer one.
Grows ==
  \A n \in Nodes, s \in Sensors :
     \/ state'[n][s] = state[n][s]
     \/ state'[n][s] \in Record /\ newer(state'[n][s], state[n][s])

\* handle_sensor_event merges one local reading, stamped by its event.
LEMMA EventEffect ==
  ASSUME TypeOK, NEW n \in Nodes, handle_sensor_event(n)
  PROVE  \E s \in Sensors, u \in Record :
            /\ u.origin = n /\ u.ts_ms = event_queue[n][1].ts_ms
            /\ merge_update(n, s, u)
            /\ newer(u, state[n][s]) => issued' = issued \cup {<<s, u>>}
            /\ ~newer(u, state[n][s]) => issued' = issued
<1> DEFINE e == Head(event_queue[n])
           u == [value |-> e.value, ts_ms |-> e.ts_ms, origin |-> n]
<1>1. /\ event_queue[n] # <<>> /\ merge_update(n, e.sensor_id, u)
      /\ issued' = IF newer(u, state[n][e.sensor_id])
                     THEN issued \cup {<<e.sensor_id, u>>} ELSE issued
  BY DEF handle_sensor_event
<1>2. /\ u \in Record /\ e.sensor_id \in Sensors /\ e = event_queue[n][1]
      /\ u.origin = n /\ u.ts_ms = e.ts_ms
  BY <1>1, EventRecord
<1> HIDE DEF u, e
<1> QED
  BY <1>1, <1>2

\* The two outcomes of a merge, key by key.
LEMMA MergeOutcome ==
  ASSUME TypeOK, NEW n \in Nodes, NEW s \in Sensors, NEW u \in Record,
         merge_update(n, s, u)
  PROVE  \/ ~newer(u, state[n][s]) /\ UNCHANGED <<state, updates_ui, updates_replication>>
         \/ /\ newer(u, state[n][s])
            /\ state'[n][s] = u /\ updates_ui'[n][s] = u
            /\ updates_replication'[n][s] = u
            /\ \A k \in Nodes, t \in Sensors :
                  \/ k = n /\ t = s
                  \/ /\ state'[k][t] = state[k][t]
                     /\ updates_ui'[k][t] = updates_ui[k][t]
                     /\ updates_replication'[k][t] = updates_replication[k][t]
<1>1. CASE newer(u, state[n][s])
  BY <1>1, MergeEffect DEF TypeOK
<1>2. CASE ~newer(u, state[n][s])
  BY <1>2, MergeEffect DEF TypeOK, store
<1> QED
  BY <1>1, <1>2

\* A merge moves the state forward only.
LEMMA MergeGrows ==
  ASSUME TypeOK, NEW n \in Nodes, NEW s \in Sensors, NEW u \in Record,
         merge_update(n, s, u)
  PROVE  Grows
BY MergeOutcome DEF Grows

\* A slot that has grown still makes redundant what it made redundant.
LEMMA GrowsCovers ==
  ASSUME TypeOK, Grows, NEW n \in Nodes, NEW s \in Sensors, NEW r \in Record,
         covers(state[n][s], r)
  PROVE  covers(state'[n][s], r)
<1>1. state[n][s] \in Record
  BY EmptyCoversNothing DEF TypeOK, Map, Slot
<1>2. CASE state'[n][s] = state[n][s]
  BY <1>2
<1>3. CASE state'[n][s] \in Record /\ newer(state'[n][s], state[n][s])
  <2>1. covers(state'[n][s], state[n][s])
    BY <1>1, <1>3, NewerCovers
  <2> QED
    BY <1>1, <1>3, <2>1, CoversTransitive DEF Slot
<1> QED
  BY <1>2, <1>3 DEF Grows

\* Only a crash takes a record away from a node.
LEMMA StepGrows ==
  ASSUME TypeOK, [Next]_vars
  PROVE  Grows \/ \E n \in Nodes : crash(n)
<1>1. ASSUME NEW n \in Nodes, handle_sensor_event(n)
      PROVE  Grows
  BY <1>1, EventEffect, MergeGrows
<1>2. ASSUME NEW m \in net, handle_sensor_update(m)
      PROVE  Grows
  BY <1>2, FrameFields, MergeGrows DEF handle_sensor_update
<1>3. ASSUME UNCHANGED state
      PROVE  Grows
  BY <1>3 DEF Grows
<1>4. ASSUME NEW n \in Nodes,
             \/ clock_step(n)
             \/ \E s \in Produces[n], v \in Values : sensor_loop(n, s, v)
             \/ get_updates_snapshot(n) \/ pop_replication_updates(n)
             \/ publish(n) \/ \E p \in PeerIds : add_peer(n, p)
      PROVE  UNCHANGED state
  BY <1>4 DEF clock_step, sensor_loop, get_updates_snapshot,
       pop_replication_updates, publish, add_peer, store
<1>5. ASSUME NEW m \in net, lose(m)
      PROVE  UNCHANGED state
  BY <1>5 DEF lose, store
<1>6. CASE UNCHANGED vars
  BY <1>3, <1>6 DEF vars, store
<1> QED
  BY <1>1, <1>2, <1>3, <1>4, <1>5, <1>6 DEF Next

-----------------------------------------------------------------------------
\* A merge leaves every pending update current: it writes the three maps
\* together or not at all.
LEMMA MergePending ==
  ASSUME TypeOK, PendingIsCurrent, NEW n \in Nodes, NEW s \in Sensors,
         NEW u \in Record, merge_update(n, s, u)
  PROVE  PendingIsCurrent'
BY MergeOutcome DEF PendingIsCurrent

\* Every step keeps the pending updates current.
LEMMA PendingStep ==
  ASSUME TypeOK, PendingIsCurrent, [Next]_vars
  PROVE  PendingIsCurrent'
<1>1. ASSUME NEW n \in Nodes, handle_sensor_event(n)
      PROVE  PendingIsCurrent'
  BY <1>1, EventEffect, MergePending
<1>2. ASSUME NEW m \in net, handle_sensor_update(m)
      PROVE  PendingIsCurrent'
  BY <1>2, FrameFields, MergePending DEF handle_sensor_update
<1>3. ASSUME NEW n \in Nodes, get_updates_snapshot(n)
      PROVE  PendingIsCurrent'
  BY <1>3 DEF get_updates_snapshot, PendingIsCurrent, TypeOK, NoRecords
<1>4. ASSUME NEW n \in Nodes, pop_replication_updates(n)
      PROVE  PendingIsCurrent'
  <2>1. \A m \in Nodes, s \in Sensors :
           updates_replication'[m][s] \in {NoRecord, updates_replication[m][s]}
    BY <1>4 DEF pop_replication_updates, TypeOK, NoRecords
  <2>2. UNCHANGED <<state, updates_ui>>
    BY <1>4 DEF pop_replication_updates
  <2> QED
    BY <2>1, <2>2 DEF PendingIsCurrent
<1>5. ASSUME NEW n \in Nodes, crash(n)
      PROVE  PendingIsCurrent'
  BY <1>5 DEF crash, PendingIsCurrent, TypeOK, NoRecords
<1>6. ASSUME UNCHANGED store
      PROVE  PendingIsCurrent'
  BY <1>6 DEF store, PendingIsCurrent
<1>7. ASSUME NEW n \in Nodes,
             \/ clock_step(n)
             \/ \E s \in Produces[n], v \in Values : sensor_loop(n, s, v)
             \/ publish(n) \/ \E p \in PeerIds : add_peer(n, p)
      PROVE  UNCHANGED store
  BY <1>7 DEF clock_step, sensor_loop, publish, add_peer
<1>8. ASSUME NEW m \in net, lose(m)
      PROVE  UNCHANGED store
  BY <1>8 DEF lose
<1>9. CASE UNCHANGED vars
  BY <1>6, <1>9 DEF vars
<1> QED
  BY <1>1, <1>2, <1>3, <1>4, <1>5, <1>6, <1>7, <1>8, <1>9 DEF Next

\* Every step keeps the popped updates no newer than the state.
LEMMA BatchStep ==
  ASSUME TypeOK, PendingIsCurrent, BatchOutdated, [Next]_vars
  PROVE  BatchOutdated'
<1>1. ASSUME Grows, UNCHANGED batch
      PROVE  BatchOutdated'
  <2>1. SUFFICES ASSUME NEW n \in Nodes, NEW s \in Sensors, batch[n][s] # NoRecord
                 PROVE  covers(state'[n][s], batch[n][s])
    BY <1>1 DEF BatchOutdated
  <2>2. batch[n][s] \in Record
    BY <2>1 DEF TypeOK, Map, Slot
  <2> QED
    BY <1>1, <2>1, <2>2, GrowsCovers DEF BatchOutdated
<1>2. ASSUME NEW n \in Nodes, pop_replication_updates(n)
      PROVE  BatchOutdated'
  <2>1. SUFFICES ASSUME NEW m \in Nodes, NEW s \in Sensors, batch'[m][s] # NoRecord
                 PROVE  covers(state[m][s], batch'[m][s])
    BY <1>2 DEF BatchOutdated, pop_replication_updates
  <2>2. CASE m = n
    <3>1. batch'[m][s] = updates_replication[n][s]
      BY <1>2, <2>2 DEF pop_replication_updates, TypeOK
    <3>2. batch'[m][s] = state[m][s] /\ state[m][s] \in Record
      BY <2>1, <2>2, <3>1 DEF PendingIsCurrent, TypeOK, Map, Slot
    <3> QED
      BY <3>2, CoversItself
  <2>3. CASE m # n
    BY <1>2, <2>1, <2>3 DEF pop_replication_updates, TypeOK, BatchOutdated
  <2> QED
    BY <2>2, <2>3
<1>3. ASSUME NEW n \in Nodes, publish(n)
      PROVE  BatchOutdated'
  BY <1>3 DEF publish, store, BatchOutdated, TypeOK, NoRecords
<1>4. ASSUME NEW n \in Nodes, crash(n)
      PROVE  BatchOutdated'
  BY <1>4 DEF crash, BatchOutdated, TypeOK, NoRecords
<1>5. ASSUME NEW n \in Nodes,
             \/ clock_step(n) \/ handle_sensor_event(n) \/ get_updates_snapshot(n)
             \/ \E s \in Produces[n], v \in Values : sensor_loop(n, s, v)
             \/ \E p \in PeerIds : add_peer(n, p)
      PROVE  UNCHANGED batch
  BY <1>5 DEF clock_step, handle_sensor_event, get_updates_snapshot, sensor_loop,
       add_peer
<1>6. ASSUME NEW m \in net, handle_sensor_update(m) \/ lose(m)
      PROVE  UNCHANGED batch
  BY <1>6 DEF handle_sensor_update, lose
<1>7. CASE UNCHANGED vars
  BY <1>7 DEF vars, store, BatchOutdated
<1> QED
  BY <1>1, <1>2, <1>3, <1>4, <1>5, <1>6, <1>7, StepGrows DEF Next

\* Every step keeps what a node sent to itself no newer than what it holds.
LEMMA SelfStep ==
  ASSUME ColonFree, TypeOK, BatchOutdated, SelfHeld, [Next]_vars
  PROVE  SelfHeld'
<1>1. ASSUME Grows, net' \subseteq net
      PROVE  SelfHeld'
  BY <1>1, FrameFields, GrowsCovers DEF SelfHeld
<1>2. ASSUME NEW n \in Nodes, publish(n)
      PROVE  SelfHeld'
  <2>1. ASSUME NEW f \in Frames(n, LocalUpdates(n), peers[n])
        PROVE  covers(state[f.sender][f.sensor_id], f.rec)
    <3>1. PICK s \in LocalUpdates(n), p \in peers[n] :
             f = [via |-> p, sender |-> n, sensor_id |-> s, rec |-> batch[n][s]]
      BY <2>1, FramesTyped
    <3>2. covers(state[n][s], batch[n][s])
      BY DEF LocalUpdates, BatchOutdated
    <3> QED
      BY <3>1, <3>2
  <2> QED
    BY <1>2, <2>1 DEF publish, store, SelfHeld
<1>3. ASSUME NEW n \in Nodes, crash(n)
      PROVE  SelfHeld'
  <2>1. \A k \in Nodes : k # n => state'[k] = state[k]
    BY <1>3 DEF crash, TypeOK
  <2>2. \A f \in net' : f \in net /\ (Reach[f.via] = f.sender => f.sender # n)
    BY <1>3 DEF crash
  <2> QED
    BY <2>1, <2>2, FrameFields DEF SelfHeld
<1>4. ASSUME NEW n \in Nodes,
             \/ clock_step(n) \/ handle_sensor_event(n) \/ get_updates_snapshot(n)
             \/ \E s \in Produces[n], v \in Values : sensor_loop(n, s, v)
             \/ pop_replication_updates(n) \/ \E p \in PeerIds : add_peer(n, p)
      PROVE  net' \subseteq net
  BY <1>4 DEF clock_step, handle_sensor_event, get_updates_snapshot, sensor_loop,
       pop_replication_updates, add_peer
<1>5. ASSUME NEW m \in net, handle_sensor_update(m) \/ lose(m)
      PROVE  net' \subseteq net
  BY <1>5 DEF handle_sensor_update, lose
<1>6. CASE UNCHANGED vars
  BY <1>6 DEF vars, store, SelfHeld
<1> QED
  BY <1>1, <1>2, <1>3, <1>4, <1>5, <1>6, StepGrows DEF Next

\* Every step keeps records within what was issued.
LEMMA KnownStep ==
  ASSUME ColonFree, TypeOK, PendingIsCurrent, Known, [Next]_vars
  PROVE  Known'
<1>1. ASSUME NEW n \in Nodes, handle_sensor_event(n)
      PROVE  Known'
  <2>1. PICK s \in Sensors, u \in Record :
           /\ merge_update(n, s, u)
           /\ newer(u, state[n][s]) => issued' = issued \cup {<<s, u>>}
           /\ ~newer(u, state[n][s]) => issued' = issued
    BY <1>1, EventEffect
  <2>2. UNCHANGED <<batch, net>>
    BY <1>1 DEF handle_sensor_event
  <2>3. issued \subseteq issued'
    BY <2>1
  <2>4. \A k \in Nodes, t \in Sensors :
           \/ state'[k][t] = state[k][t]
           \/ t = s /\ state'[k][t] = u /\ <<s, u>> \in issued'
    BY <2>1, MergeOutcome
  <2> QED
    BY <2>2, <2>3, <2>4 DEF Known
<1>2. ASSUME NEW m \in net, handle_sensor_update(m)
      PROVE  Known'
  <2>1. /\ Reach[m.via] \in Nodes /\ m.sensor_id \in Sensors /\ m.rec \in Record
        /\ merge_update(Reach[m.via], m.sensor_id, m.rec)
        /\ <<m.sensor_id, m.rec>> \in issued
    BY <1>2, FrameFields DEF handle_sensor_update, Known
  <2>2. UNCHANGED <<batch, issued>> /\ net' \subseteq net
    BY <1>2 DEF handle_sensor_update, history
  <2>3. \A k \in Nodes, t \in Sensors :
           \/ state'[k][t] = state[k][t]
           \/ t = m.sensor_id /\ state'[k][t] = m.rec
    BY <2>1, MergeOutcome
  <2> QED
    BY <2>1, <2>2, <2>3 DEF Known
<1>3. ASSUME NEW n \in Nodes, pop_replication_updates(n)
      PROVE  Known'
  <2>1. UNCHANGED <<state, issued, net>>
    BY <1>3 DEF pop_replication_updates, history
  <2>2. \A k \in Nodes, s \in Sensors :
           batch'[k][s] \in {batch[k][s], updates_replication[k][s]}
    BY <1>3 DEF pop_replication_updates, TypeOK
  <2>3. \A k \in Nodes, s \in Sensors :
           batch'[k][s] \in {NoRecord, batch[k][s], state[k][s]}
    BY <2>2 DEF PendingIsCurrent
  <2> QED
    BY <2>1, <2>3 DEF Known
<1>4. ASSUME NEW n \in Nodes, publish(n)
      PROVE  Known'
  <2>1. \A m \in net' : <<m.sensor_id, m.rec>> \in issued
    <3>1. ASSUME NEW m \in Frames(n, LocalUpdates(n), peers[n])
          PROVE  <<m.sensor_id, m.rec>> \in issued
      <4>1. PICK s \in LocalUpdates(n), p \in peers[n] :
               m = [via |-> p, sender |-> n, sensor_id |-> s, rec |-> batch[n][s]]
        BY <3>1, FramesTyped
      <4> QED
        BY <4>1, FramesTyped DEF Known, LocalUpdates
    <3> QED
      BY <1>4, <3>1 DEF publish, Known
  <2>2. UNCHANGED <<state, issued>>
    BY <1>4 DEF publish, store
  <2>3. \A k \in Nodes, s \in Sensors : batch'[k][s] \in {NoRecord, batch[k][s]}
    BY <1>4 DEF publish, TypeOK, NoRecords
  <2> QED
    BY <2>1, <2>2, <2>3 DEF Known
<1>5. ASSUME NEW n \in Nodes, crash(n)
      PROVE  Known'
  <2>1. UNCHANGED issued /\ net' \subseteq net
    BY <1>5 DEF crash
  <2>2. \A k \in Nodes, s \in Sensors : /\ batch'[k][s] \in {NoRecord, batch[k][s]}
                                      /\ state'[k][s] \in {NoRecord, state[k][s]}
    BY <1>5 DEF crash, TypeOK, NoRecords
  <2> QED
    BY <2>1, <2>2 DEF Known
<1>6. ASSUME UNCHANGED <<state, batch, issued>>, net' \subseteq net
      PROVE  Known'
  BY <1>6 DEF Known
<1>7. ASSUME NEW n \in Nodes,
             \/ clock_step(n) \/ get_updates_snapshot(n)
             \/ \E s \in Produces[n], v \in Values : sensor_loop(n, s, v)
             \/ \E p \in PeerIds : add_peer(n, p)
      PROVE  UNCHANGED <<state, batch, issued>> /\ net' \subseteq net
  BY <1>7 DEF clock_step, get_updates_snapshot, sensor_loop, add_peer, store, history
<1>8. ASSUME NEW m \in net, lose(m)
      PROVE  UNCHANGED <<state, batch, issued>> /\ net' \subseteq net
  BY <1>8 DEF lose, store
<1>9. CASE UNCHANGED vars
  BY <1>6, <1>9 DEF vars, store, history
<1> QED
  BY <1>1, <1>2, <1>3, <1>4, <1>5, <1>6, <1>7, <1>8, <1>9 DEF Next

-----------------------------------------------------------------------------
\* What counts as lost stays lost.
LEMMA LostGrows ==
  ASSUME TypeOK, [Next]_vars, NEW s \in Sensors, NEW r \in Record, covers(lost[s], r)
  PROVE  covers(lost'[s], r)
<1>1. lost[s] \in Slot /\ \A n \in Nodes : state[n][s] \in Slot /\ batch[n][s] \in Slot
  BY DEF TypeOK, Map
<1>2. ASSUME NEW n \in Nodes, publish(n)
      PROVE  covers(lost'[s], r)
  <2>1. lost'[s] \in {lost[s], Later(lost[s], batch[n][s])}
    BY <1>2 DEF publish
  <2> QED
    BY <1>1, <2>1, LaterCovers
<1>3. ASSUME NEW f \in net, lose(f)
      PROVE  covers(lost'[s], r)
  <2>1. f.rec \in Slot /\ lost'[s] \in {lost[s], Later(lost[s], f.rec)}
    BY <1>3, FrameFields DEF lose, TypeOK, Map, Slot
  <2> QED
    BY <1>1, <2>1, LaterCovers
<1>4. ASSUME NEW n \in Nodes, crash(n)
      PROVE  covers(lost'[s], r)
  <2>1. lost'[s] = Later(lost[s], state[n][s])
    BY <1>4 DEF crash
  <2> QED
    BY <1>1, <2>1, LaterCovers
<1>5. ASSUME NEW n \in Nodes,
             \/ clock_step(n) \/ get_updates_snapshot(n) \/ pop_replication_updates(n)
             \/ \E q \in Produces[n], v \in Values : sensor_loop(n, q, v)
             \/ handle_sensor_event(n) \/ \E p \in PeerIds : add_peer(n, p)
      PROVE  UNCHANGED lost
  BY <1>5 DEF clock_step, sensor_loop, get_updates_snapshot,
       pop_replication_updates, handle_sensor_event, add_peer, history
<1>6. ASSUME NEW f \in net, handle_sensor_update(f)
      PROVE  UNCHANGED lost
  BY <1>6 DEF handle_sensor_update, history
<1>7. CASE UNCHANGED vars
  BY <1>7 DEF vars, history
<1> QED
  BY <1>2, <1>3, <1>4, <1>5, <1>6, <1>7 DEF Next

\* A local reading does not displace what is on its way.
LEMMA EventReaches ==
  ASSUME TypeOK, PendingIsCurrent, NEW n \in Nodes, handle_sensor_event(n),
         NEW m \in Nodes, NEW s \in Sensors, NEW r \in Record, Reaches(m, s, r)
  PROVE  Reaches(m, s, r)'
<1>1. PICK t \in Sensors, u \in Record : u.origin = n /\ merge_update(n, t, u)
  BY EventEffect
<1>2. UNCHANGED <<batch, net, lost>>
  BY DEF handle_sensor_event
<1>3. CASE covers(state[m][s], r)
  BY <1>1, <1>3, MergeGrows, GrowsCovers DEF Reaches
<1>4. CASE \E f \in net : Reach[f.via] = m /\ f.sensor_id = s /\ covers(f.rec, r)
  BY <1>2, <1>4 DEF Reaches, OnItsWay
<1>5. ASSUME NEW o \in Nodes, IsLocal(batch[o][s], o), covers(batch[o][s], r)
      PROVE  Reaches(m, s, r)'
  BY <1>2, <1>5 DEF Reaches, OnItsWay, IsLocal
<1>6. ASSUME NEW o \in Nodes, IsLocal(updates_replication[o][s], o),
             covers(updates_replication[o][s], r)
      PROVE  Reaches(m, s, r)'
  <2>1. CASE updates_replication'[o][s] = updates_replication[o][s]
    BY <1>6, <2>1 DEF Reaches, OnItsWay, IsLocal
  <2>2. CASE updates_replication'[o][s] # updates_replication[o][s]
    <3> DEFINE p == updates_replication[o][s]
    <3>1. /\ o = n /\ s = t /\ updates_replication'[o][s] = u
          /\ newer(u, state[o][s])
      BY <1>1, <2>2, MergeOutcome
    <3>2. p = state[o][s] /\ p \in Record
      BY <1>6 DEF IsLocal, PendingIsCurrent, TypeOK, Map, Slot
    <3>3. covers(u, p)
      BY <3>1, <3>2, NewerCovers
    <3>4. covers(u, r)
      BY <1>6, <3>2, <3>3, CoversTransitive DEF Slot
    <3>5. IsLocal(u, o)
      BY <1>1, <3>1, RecordFields DEF IsLocal
    <3>6. IsLocal(updates_replication'[o][s], o) /\ covers(updates_replication'[o][s], r)
      BY <3>1, <3>4, <3>5
    <3> QED
      BY <3>6 DEF Reaches, OnItsWay, IsLocal
  <2> QED
    BY <2>1, <2>2
<1>7. CASE covers(lost[s], r)
  BY <1>2, <1>7 DEF Reaches
<1> QED
  BY <1>3, <1>4, <1>5, <1>6, <1>7 DEF Reaches, OnItsWay

\* A remote update may displace a local one from the replication stream, where
\* the publisher's origin filter then drops it; whoever still waited for the
\* local one is owed the remote one, and that is on its way or held.
LEMMA UpdateReaches ==
  ASSUME TypeOK, PendingIsCurrent, NEW f \in net, handle_sensor_update(f),
         NEW m \in Nodes, NEW s \in Sensors, NEW r \in Record, Reaches(m, s, r),
         Reaches(m, f.sensor_id, f.rec)
  PROVE  Reaches(m, s, r)'
<1> DEFINE k == Reach[f.via]
           R == f.rec
<1>1. /\ k \in Nodes /\ f.sensor_id \in Sensors /\ R \in Record
      /\ merge_update(k, f.sensor_id, R)
  BY FrameFields DEF handle_sensor_update
<1>2. UNCHANGED <<batch, lost>> /\ net' = net \ {f}
  BY DEF handle_sensor_update, history
<1>3. Grows
  BY <1>1, MergeGrows
<1>4. ASSUME NEW x \in Record, covers(state[m][s], x)
      PROVE  covers(state'[m][s], x)
  BY <1>3, <1>4, GrowsCovers
<1>5. /\ state'[m][s] \in Slot
      /\ \A o \in Nodes : batch[o][s] \in Slot /\ updates_replication[o][s] \in Slot
  BY <1>1, MergeEffect DEF TypeOK, Map
<1>6. covers(state'[k][f.sensor_id], R)
  <2>1. CASE newer(R, state[k][f.sensor_id])
    <3>1. state'[k][f.sensor_id] = R
      BY <1>1, <2>1, MergeOutcome
    <3> QED
      BY <1>1, <3>1, CoversItself
  <2>2. CASE ~newer(R, state[k][f.sensor_id])
    <3>1. state'[k][f.sensor_id] = state[k][f.sensor_id]
      BY <1>1, <2>2, MergeOutcome
    <3> QED
      BY <2>2, <3>1 DEF covers
  <2> QED
    BY <2>1, <2>2
<1>7. ASSUME NEW x \in Record, covers(x, r), NEW g \in net,
             Reach[g.via] = m, g.sensor_id = s, covers(g.rec, x)
      PROVE  Reaches(m, s, r)'
  <2>1. g.rec \in Record
    BY <1>7, FrameFields
  <2>2. covers(g.rec, r)
    BY <1>7, <2>1, CoversTransitive DEF Slot
  <2>3. CASE g = f
    <3>1. covers(state'[m][s], g.rec)
      BY <1>6, <1>7, <2>3
    <3> QED
      BY <1>5, <2>1, <2>2, <3>1, CoversTransitive DEF Reaches
  <2>4. CASE g # f
    BY <1>2, <1>7, <2>2, <2>4 DEF Reaches, OnItsWay
  <2> QED
    BY <2>3, <2>4
<1>8. ASSUME NEW o \in Nodes, IsLocal(batch[o][s], o), covers(batch[o][s], r)
      PROVE  Reaches(m, s, r)'
  BY <1>2, <1>8 DEF Reaches, OnItsWay, IsLocal
<1>9. ASSUME NEW o \in Nodes, IsLocal(updates_replication[o][s], o),
             covers(updates_replication[o][s], r),
             updates_replication'[o][s] = updates_replication[o][s]
      PROVE  Reaches(m, s, r)'
  BY <1>9 DEF Reaches, OnItsWay, IsLocal
<1>10. ASSUME NEW o \in Nodes, IsLocal(updates_replication[o][s], o),
              covers(updates_replication[o][s], r),
              updates_replication'[o][s] # updates_replication[o][s]
       PROVE  Reaches(m, s, r)'
  <2> DEFINE p == updates_replication[o][s]
  <2>1. /\ o = k /\ s = f.sensor_id /\ updates_replication'[o][s] = R
        /\ newer(R, state[o][s])
    BY <1>1, <1>10, MergeOutcome
  <2>2. p = state[o][s] /\ p \in Record
    BY <1>10 DEF IsLocal, PendingIsCurrent, TypeOK, Map, Slot
  <2>3. covers(R, p)
    BY <1>1, <2>1, <2>2, NewerCovers
  <2>4. covers(R, r)
    BY <1>1, <1>10, <2>2, <2>3, CoversTransitive DEF Slot
  <2>5. CASE covers(state[m][s], R)
    <3>1. covers(state'[m][s], R)
      BY <1>1, <1>4, <2>5
    <3> QED
      BY <1>1, <1>5, <2>4, <3>1, CoversTransitive DEF Reaches
  <2>6. CASE \E g \in net : Reach[g.via] = m /\ g.sensor_id = s /\ covers(g.rec, R)
    BY <1>1, <1>7, <2>4, <2>6
  <2>7. ASSUME NEW q \in Nodes, IsLocal(batch[q][s], q), covers(batch[q][s], R)
        PROVE  Reaches(m, s, r)'
    <3>1. covers(batch[q][s], r)
      BY <1>1, <1>5, <2>4, <2>7, CoversTransitive
    <3> QED
      BY <1>8, <2>7, <3>1
  <2>8. ASSUME NEW q \in Nodes, IsLocal(updates_replication[q][s], q),
               covers(updates_replication[q][s], R)
        PROVE  Reaches(m, s, r)'
    <3>1. q # k
      BY <2>1, <2>2, <2>8 DEF covers
    <3>2. updates_replication'[q][s] = updates_replication[q][s]
      BY <1>1, <3>1, MergeOutcome
    <3>3. covers(updates_replication[q][s], r)
      BY <1>1, <1>5, <2>4, <2>8, CoversTransitive
    <3> QED
      BY <1>9, <2>8, <3>2, <3>3
  <2>9. CASE covers(lost[s], R)
    <3>1. covers(lost[s], r)
      BY <1>1, <2>4, <2>9, CoversTransitive DEF TypeOK, Map
    <3> QED
      BY <1>2, <3>1 DEF Reaches
  <2> QED
    BY <2>1, <2>5, <2>6, <2>7, <2>8, <2>9 DEF Reaches, OnItsWay
<1>11. CASE covers(state[m][s], r)
  BY <1>4, <1>11 DEF Reaches
<1>12. CASE \E g \in net : Reach[g.via] = m /\ g.sensor_id = s /\ covers(g.rec, r)
  BY <1>7, <1>12, CoversItself
<1>13. CASE covers(lost[s], r)
  BY <1>2, <1>13 DEF Reaches
<1> QED
  BY <1>8, <1>9, <1>10, <1>11, <1>12, <1>13 DEF Reaches, OnItsWay

\* Popping an update moves it from the stream to the publisher's hands.
LEMMA PopReaches ==
  ASSUME TypeOK, NEW n \in Nodes, pop_replication_updates(n),
         NEW m \in Nodes, NEW s \in Sensors, NEW r \in Record, Reaches(m, s, r)
  PROVE  Reaches(m, s, r)'
<1>1. UNCHANGED <<state, net, lost>>
  BY DEF pop_replication_updates, history
<1>2. \A o \in Nodes :
         IF o = n
           THEN batch[o][s] = NoRecord /\ batch'[o][s] = updates_replication[o][s]
           ELSE /\ batch'[o][s] = batch[o][s]
                /\ updates_replication'[o][s] = updates_replication[o][s]
  BY DEF pop_replication_updates, TypeOK, NoRecords
<1>3. CASE covers(state[m][s], r)
  BY <1>1, <1>3 DEF Reaches
<1>4. CASE \E f \in net : Reach[f.via] = m /\ f.sensor_id = s /\ covers(f.rec, r)
  BY <1>1, <1>4 DEF Reaches, OnItsWay
<1>5. ASSUME NEW o \in Nodes, IsLocal(batch[o][s], o), covers(batch[o][s], r)
      PROVE  Reaches(m, s, r)'
  BY <1>2, <1>5 DEF Reaches, OnItsWay, IsLocal
<1>6. ASSUME NEW o \in Nodes, IsLocal(updates_replication[o][s], o),
             covers(updates_replication[o][s], r)
      PROVE  Reaches(m, s, r)'
  <2>1. \/ batch'[o][s] = updates_replication[o][s]
        \/ updates_replication'[o][s] = updates_replication[o][s]
    BY <1>2
  <2> QED
    BY <1>6, <2>1 DEF Reaches, OnItsWay, IsLocal
<1>7. CASE covers(lost[s], r)
  BY <1>1, <1>7 DEF Reaches
<1> QED
  BY <1>3, <1>4, <1>5, <1>6, <1>7 DEF Reaches, OnItsWay

\* Publishing puts every local update on the wire to every node, or drops it.
LEMMA PublishReaches ==
  ASSUME ColonFree, TypeOK, BatchOutdated, NEW n \in Nodes, publish(n), [Next]_vars,
         NEW m \in Nodes, NEW s \in Sensors, NEW r \in Record, Reaches(m, s, r)
  PROVE  Reaches(m, s, r)'
<1>1. UNCHANGED <<state, updates_replication>> /\ net \subseteq net'
  BY DEF publish, store
<1>2. \A o \in Nodes : o # n => batch'[o][s] = batch[o][s]
  BY DEF publish, TypeOK
<1>3. CASE covers(state[m][s], r)
  BY <1>1, <1>3 DEF Reaches
<1>4. CASE \E f \in net : Reach[f.via] = m /\ f.sensor_id = s /\ covers(f.rec, r)
  BY <1>1, <1>4 DEF Reaches, OnItsWay
<1>5. ASSUME NEW o \in Nodes, IsLocal(updates_replication[o][s], o),
             covers(updates_replication[o][s], r)
      PROVE  Reaches(m, s, r)'
  BY <1>1, <1>5 DEF Reaches, OnItsWay, IsLocal
<1>6. ASSUME NEW o \in Nodes, o # n, IsLocal(batch[o][s], o), covers(batch[o][s], r)
      PROVE  Reaches(m, s, r)'
  BY <1>2, <1>6 DEF Reaches, OnItsWay, IsLocal
<1>7. ASSUME IsLocal(batch[n][s], n), covers(batch[n][s], r)
      PROVE  Reaches(m, s, r)'
  <2>1. s \in LocalUpdates(n) /\ batch[n][s] \in Record
    BY <1>7 DEF IsLocal, LocalUpdates, TypeOK, Map, Slot
  <2>2. CASE m = n
    <3>1. covers(state[m][s], batch[n][s]) /\ state[m][s] \in Slot
      BY <1>7, <2>2 DEF BatchOutdated, IsLocal, TypeOK, Map
    <3>2. covers(state[m][s], r)
      BY <1>7, <2>1, <3>1, CoversTransitive
    <3> QED
      BY <1>1, <3>2 DEF Reaches
  <2>3. CASE m # n /\ \A p \in peers[n] : Reach[p] # m
    <3>1. lost'[s] = Later(lost[s], batch[n][s])
      BY <2>1, <2>3 DEF publish
    <3>2. lost[s] \in Slot /\ batch[n][s] \in Slot
      BY DEF TypeOK, Map
    <3>3. covers(lost'[s], r)
      BY <1>7, <3>1, <3>2, LaterCovers
    <3> QED
      BY <3>3 DEF Reaches
  <2>4. CASE m # n /\ \E p \in peers[n] : Reach[p] = m
    <3>1. PICK p \in peers[n] : Reach[p] = m
      BY <2>4
    <3> DEFINE f == [via |-> p, sender |-> n, sensor_id |-> s, rec |-> batch[n][s]]
    <3>2. f \in net'
      BY <2>1, <3>1, FramesTyped DEF publish
    <3>3. Reach[f.via] = m /\ f.sensor_id = s /\ covers(f.rec, r)
      BY <1>7, <3>1
    <3> HIDE DEF f
    <3> QED
      BY <3>2, <3>3 DEF Reaches, OnItsWay
  <2> QED
    BY <2>2, <2>3, <2>4
<1>8. CASE covers(lost[s], r)
  BY <1>8, LostGrows DEF Reaches
<1> QED
  BY <1>3, <1>4, <1>5, <1>6, <1>7, <1>8 DEF Reaches, OnItsWay

\* A frame that is lost is counted as lost.
LEMMA LoseReaches ==
  ASSUME TypeOK, NEW f \in net, lose(f), [Next]_vars,
         NEW m \in Nodes, NEW s \in Sensors, NEW r \in Record, Reaches(m, s, r)
  PROVE  Reaches(m, s, r)'
<1>1. UNCHANGED <<state, updates_replication, batch>> /\ net' = net \ {f}
  BY DEF lose, store
<1>2. ASSUME f.sensor_id = s, covers(f.rec, r)
      PROVE  covers(lost'[s], r)
  <2>1. lost'[s] = Later(lost[s], f.rec)
    BY <1>2 DEF lose, TypeOK, Map
  <2>2. lost[s] \in Slot /\ f.rec \in Slot
    BY FrameFields DEF TypeOK, Map, Slot
  <2> QED
    BY <1>2, <2>1, <2>2, LaterCovers
<1>3. CASE covers(lost[s], r)
  BY <1>3, LostGrows DEF Reaches
<1>4. CASE covers(state[m][s], r)
  BY <1>1, <1>4 DEF Reaches
<1>5. ASSUME NEW g \in net, Reach[g.via] = m, g.sensor_id = s, covers(g.rec, r)
      PROVE  Reaches(m, s, r)'
  <2>1. CASE g = f
    BY <1>2, <1>5, <2>1 DEF Reaches
  <2>2. CASE g # f
    BY <1>1, <1>5, <2>2 DEF Reaches, OnItsWay
  <2> QED
    BY <2>1, <2>2
<1>6. ASSUME NEW o \in Nodes,
             \/ IsLocal(updates_replication[o][s], o) /\ covers(updates_replication[o][s], r)
             \/ IsLocal(batch[o][s], o) /\ covers(batch[o][s], r)
      PROVE  Reaches(m, s, r)'
  BY <1>1, <1>6 DEF Reaches, OnItsWay, IsLocal
<1> QED
  BY <1>3, <1>4, <1>5, <1>6 DEF Reaches, OnItsWay

\* A crash loses nothing newer than what the process held: its streams, its
\* publisher's batch and the frames it had sent to itself are no newer.
LEMMA CrashReaches ==
  ASSUME TypeOK, PendingIsCurrent, BatchOutdated, SelfHeld, NEW n \in Nodes, crash(n),
         [Next]_vars,
         NEW m \in Nodes, NEW s \in Sensors, NEW r \in Record, Reaches(m, s, r)
  PROVE  Reaches(m, s, r)'
<1>1. state[n][s] \in Slot /\ batch[n][s] \in Slot /\ lost[s] \in Slot
  BY DEF TypeOK, Map
<1>2. ASSUME covers(state[n][s], r)
      PROVE  Reaches(m, s, r)'
  <2>1. lost'[s] = Later(lost[s], state[n][s])
    BY DEF crash
  <2> QED
    BY <1>1, <1>2, <2>1, LaterCovers DEF Reaches
<1>3. \A o \in Nodes : o # n => /\ state'[o] = state[o] /\ batch'[o] = batch[o]
                              /\ updates_replication'[o] = updates_replication[o]
  BY DEF crash, TypeOK
<1>4. CASE covers(lost[s], r)
  BY <1>4, LostGrows DEF Reaches
<1>5. CASE covers(state[m][s], r)
  BY <1>2, <1>3, <1>5 DEF Reaches
<1>6. ASSUME NEW f \in net, Reach[f.via] = m, f.sensor_id = s, covers(f.rec, r)
      PROVE  Reaches(m, s, r)'
  <2>1. CASE f.sender = n /\ m = n
    <3>1. covers(state[n][s], f.rec) /\ f.rec \in Record
      BY <1>6, <2>1, FrameFields DEF SelfHeld
    <3> QED
      BY <1>1, <1>2, <1>6, <3>1, CoversTransitive
  <2>2. CASE ~(f.sender = n /\ m = n)
    <3>1. f \in net'
      BY <1>6, <2>2 DEF crash
    <3> QED
      BY <1>6, <3>1 DEF Reaches, OnItsWay
  <2> QED
    BY <2>1, <2>2
<1>7. ASSUME NEW o \in Nodes, IsLocal(updates_replication[o][s], o),
             covers(updates_replication[o][s], r)
      PROVE  Reaches(m, s, r)'
  <2>1. CASE o = n
    BY <1>2, <1>7, <2>1 DEF PendingIsCurrent, IsLocal
  <2>2. CASE o # n
    BY <1>3, <1>7, <2>2 DEF Reaches, OnItsWay, IsLocal
  <2> QED
    BY <2>1, <2>2
<1>8. ASSUME NEW o \in Nodes, IsLocal(batch[o][s], o), covers(batch[o][s], r)
      PROVE  Reaches(m, s, r)'
  <2>1. CASE o = n
    <3>1. batch[n][s] \in Record /\ covers(state[n][s], batch[n][s])
      BY <1>1, <1>8, <2>1 DEF BatchOutdated, IsLocal, Slot
    <3> QED
      BY <1>1, <1>2, <1>8, <2>1, <3>1, CoversTransitive
  <2>2. CASE o # n
    BY <1>3, <1>8, <2>2 DEF Reaches, OnItsWay, IsLocal
  <2> QED
    BY <2>1, <2>2
<1> QED
  BY <1>4, <1>5, <1>6, <1>7, <1>8 DEF Reaches, OnItsWay

\* Every step keeps every issued reading held, on its way or counted as lost.
LEMMA LostStep ==
  ASSUME ColonFree, TypeOK, PendingIsCurrent, BatchOutdated, SelfHeld, Known,
         NoReadingLost, [Next]_vars
  PROVE  NoReadingLost'
<1>1. SUFFICES ASSUME NEW e \in issued', NEW m \in Nodes
               PROVE  Reaches(m, e[1], e[2])'
  BY DEF NoReadingLost
<1>2. ASSUME NEW d \in issued, NEW k \in Nodes
      PROVE  Reaches(k, d[1], d[2]) /\ d[1] \in Sensors /\ d[2] \in Record
  BY DEF NoReadingLost, TypeOK
<1>3. ASSUME NEW n \in Nodes, handle_sensor_event(n)
      PROVE  Reaches(m, e[1], e[2])'
  <2>1. PICK s \in Sensors, u \in Record :
           /\ u.origin = n /\ merge_update(n, s, u)
           /\ newer(u, state[n][s]) => issued' = issued \cup {<<s, u>>}
           /\ ~newer(u, state[n][s]) => issued' = issued
    BY <1>3, EventEffect
  <2>2. CASE e \in issued
    BY <1>2, <1>3, <2>2, EventReaches
  <2>3. CASE e \notin issued
    <3>1. e = <<s, u>> /\ newer(u, state[n][s])
      BY <1>1, <2>1, <2>3
    <3>2. state'[n][s] = u /\ updates_replication'[n][s] = u
      BY <2>1, <3>1, MergeOutcome
    <3>3. IsLocal(u, n) /\ covers(u, u)
      BY <2>1, RecordFields, CoversItself DEF IsLocal
    <3> QED
      BY <3>1, <3>2, <3>3 DEF Reaches, OnItsWay, IsLocal
  <2> QED
    BY <2>2, <2>3
<1>4. ASSUME NEW f \in net, handle_sensor_update(f)
      PROVE  Reaches(m, e[1], e[2])'
  <2>1. e \in issued
    BY <1>1, <1>4 DEF handle_sensor_update, history
  <2>2. <<f.sensor_id, f.rec>> \in issued
    BY DEF Known
  <2>3. Reaches(m, f.sensor_id, f.rec)
    BY <1>2, <2>2
  <2> QED
    BY <1>2, <1>4, <2>1, <2>3, UpdateReaches
<1>5. ASSUME UNCHANGED issued,
             \/ \E n \in Nodes : pop_replication_updates(n) \/ publish(n) \/ crash(n)
             \/ \E f \in net : lose(f)
      PROVE  Reaches(m, e[1], e[2])'
  BY <1>1, <1>2, <1>5, PopReaches, PublishReaches, CrashReaches, LoseReaches
<1>6. ASSUME NEW n \in Nodes, pop_replication_updates(n) \/ publish(n) \/ crash(n)
      PROVE  UNCHANGED issued
  BY <1>6 DEF pop_replication_updates, publish, crash, history
<1>7. ASSUME NEW f \in net, lose(f)
      PROVE  UNCHANGED issued
  BY <1>7 DEF lose
<1>8. ASSUME UNCHANGED <<state, updates_replication, batch, net, issued, lost>>
      PROVE  Reaches(m, e[1], e[2])'
  BY <1>1, <1>2, <1>8 DEF Reaches, OnItsWay, IsLocal
<1>9. ASSUME NEW n \in Nodes,
             \/ clock_step(n) \/ get_updates_snapshot(n)
             \/ \E s \in Produces[n], v \in Values : sensor_loop(n, s, v)
             \/ \E p \in PeerIds : add_peer(n, p)
      PROVE  UNCHANGED <<state, updates_replication, batch, net, issued, lost>>
  BY <1>9 DEF clock_step, get_updates_snapshot, sensor_loop, add_peer, store, history
<1>10. CASE UNCHANGED vars
  BY <1>8, <1>10 DEF vars, store, history
<1> QED
  BY <1>3, <1>4, <1>5, <1>6, <1>7, <1>8, <1>9, <1>10 DEF Next

-----------------------------------------------------------------------------
\* While clocks never step back, a process's readings stay between its start
\* and the present.
LEMMA TimelyStep ==
  ASSUME TypeOK, Timely, [Next]_vars
  PROVE  Timely'
<1> SUFFICES ASSUME ClockMonotone
             PROVE  Timely'
  BY DEF Timely
<1>1. /\ \A n \in Nodes : booted[n] <= clock[n]
      /\ \A n \in Nodes : \A i \in 1..Len(event_queue[n]) :
            /\ booted[n] <= event_queue[n][i].ts_ms
            /\ event_queue[n][i].ts_ms <= clock[n]
      /\ \A e \in issued : e[2].ts_ms <= clock[e[2].origin]
  BY DEF Timely
<1>2. /\ \A n \in Nodes : /\ clock[n] \in Nat /\ booted[n] \in Nat
                        /\ event_queue[n] \in Seq(Event)
                        /\ Len(event_queue[n]) \in Nat
      /\ \A n \in Nodes : \A i \in 1..Len(event_queue[n]) :
            event_queue[n][i].ts_ms \in Nat
      /\ \A e \in issued : e[2].ts_ms \in Nat /\ e[2].origin \in Nodes
  <2>1. \A n \in Nodes : event_queue[n] \in Seq(Event)
    BY DEF TypeOK
  <2>2. \A n \in Nodes : \A i \in 1..Len(event_queue[n]) : event_queue[n][i] \in Event
    BY <2>1, ElementOfSeq
  <2>3. \A n \in Nodes : Len(event_queue[n]) \in Nat
    BY <2>1, LenProperties
  <2>4. Time \subseteq Nat
    BY LWWAssumption DEF Time
  <2>5. \A e \in issued : e[2].ts_ms \in Nat /\ e[2].origin \in Nodes
    BY <2>4 DEF TypeOK, Record
  <2>6. \A n \in Nodes : clock[n] \in Nat /\ booted[n] \in Nat
    BY <2>4 DEF TypeOK
  <2>7. \A n \in Nodes : \A i \in 1..Len(event_queue[n]) :
           event_queue[n][i].ts_ms \in Nat
    BY <2>2, <2>4 DEF Event
  <2> QED
    BY <2>1, <2>3, <2>5, <2>6, <2>7
<1>3. ASSUME NEW n \in Nodes, clock_step(n)
      PROVE  Timely'
  <2>1. PICK t \in Nat : t > clock[n] /\ clock' = [clock EXCEPT ![n] = t]
    <3>1. Time \subseteq Nat
      BY LWWAssumption DEF Time
    <3> QED
      BY <1>3, <3>1 DEF clock_step
  <2>2. \A k \in Nodes : clock[k] <= clock'[k] /\ clock'[k] \in Nat
    BY <1>2, <2>1 DEF TypeOK
  <2>3. UNCHANGED <<event_queue, issued, booted>>
    BY <1>3 DEF clock_step, history
  <2>4. \A k \in Nodes : booted[k] <= clock'[k]
    BY <1>1, <1>2, <2>2
  <2>5. \A k \in Nodes : \A i \in 1..Len(event_queue[k]) :
           event_queue[k][i].ts_ms <= clock'[k]
    BY <1>1, <1>2, <2>2
  <2>6. \A e \in issued : e[2].ts_ms <= clock'[e[2].origin]
    BY <1>1, <1>2, <2>2
  <2> QED
    BY <1>1, <2>3, <2>4, <2>5, <2>6 DEF Timely
<1>4. ASSUME NEW n \in Nodes, NEW s \in Produces[n], NEW v \in Values,
             sensor_loop(n, s, v)
      PROVE  Timely'
  <2> DEFINE x == [sensor_id |-> s, value |-> v, ts_ms |-> clock[n]]
             q == event_queue[n]
  <2>1. UNCHANGED <<clock, issued, booted>>
    BY <1>4 DEF sensor_loop, history
  <2>2. x \in Event /\ x.ts_ms = clock[n]
    BY ReplicationAssumption DEF TypeOK, Event
  <2> HIDE DEF x
  <2>3. /\ Len(Append(q, x)) = Len(q) + 1
        /\ \A i \in 1..(Len(q) + 1) :
              Append(q, x)[i] = IF i <= Len(q) THEN q[i] ELSE x
    BY <1>2, <2>2, AppendProperties
  <2>4. event_queue' = [event_queue EXCEPT ![n] = Append(q, x)]
    BY <1>4 DEF sensor_loop, x
  <2>5. ASSUME NEW k \in Nodes, NEW i \in 1..Len(event_queue'[k])
        PROVE  /\ booted[k] <= event_queue'[k][i].ts_ms
               /\ event_queue'[k][i].ts_ms <= clock[k]
    <3>1. CASE k # n
      BY <1>1, <2>4, <2>5, <3>1 DEF TypeOK
    <3>2. CASE k = n
      <4>1. event_queue'[k] = Append(q, x)
        BY <2>4, <3>2 DEF TypeOK
      <4> HIDE DEF q
      <4>2. \/ i \in 1..Len(q) /\ event_queue'[k][i] = q[i]
            \/ event_queue'[k][i] = x
        BY <1>2, <2>3, <2>5, <3>2, <4>1 DEF q
      <4>3. CASE event_queue'[k][i] = x
        BY <1>1, <1>2, <2>2, <3>2, <4>3
      <4>4. CASE i \in 1..Len(q) /\ event_queue'[k][i] = q[i]
        BY <1>1, <3>2, <4>4 DEF q
      <4> QED
        BY <4>2, <4>3, <4>4
    <3> QED
      BY <3>1, <3>2
  <2> QED
    BY <1>1, <2>1, <2>5 DEF Timely
<1>5. ASSUME NEW n \in Nodes, handle_sensor_event(n)
      PROVE  Timely'
  <2>1. PICK s \in Sensors, u \in Record :
           /\ u.origin = n /\ u.ts_ms = event_queue[n][1].ts_ms
           /\ issued' \in {issued, issued \cup {<<s, u>>}}
    BY <1>5, EventEffect
  <2>2. /\ UNCHANGED <<clock, booted>> /\ event_queue[n] # <<>>
        /\ event_queue' = [event_queue EXCEPT ![n] = Tail(@)]
    BY <1>5 DEF handle_sensor_event
  <2>3. u.ts_ms <= clock[n]
    BY <1>1, <2>1, <2>2, EventRecord
  <2>4. \A e \in issued' : e[2].ts_ms <= clock[e[2].origin]
    BY <1>1, <2>1, <2>3
  <2>5. ASSUME NEW k \in Nodes, NEW i \in 1..Len(event_queue'[k])
        PROVE  /\ booted[k] <= event_queue'[k][i].ts_ms
               /\ event_queue'[k][i].ts_ms <= clock[k]
    <3>1. CASE k # n
      BY <1>1, <2>2, <2>5, <3>1 DEF TypeOK
    <3>2. CASE k = n
      <4>1. event_queue'[k] = Tail(event_queue[n])
        BY <2>2, <3>2 DEF TypeOK
      <4>2. /\ Len(Tail(event_queue[n])) = Len(event_queue[n]) - 1
            /\ i \in 1..Len(Tail(event_queue[n]))
            /\ Tail(event_queue[n])[i] = event_queue[n][i + 1]
        BY <2>2, <2>5, <4>1, EventRecord
      <4>3. i + 1 \in 1..Len(event_queue[n])
        BY <1>2, <4>2
      <4> QED
        BY <1>1, <3>2, <4>1, <4>2, <4>3
    <3> QED
      BY <3>1, <3>2
  <2> QED
    BY <1>1, <2>2, <2>4, <2>5 DEF Timely
<1>6. ASSUME NEW n \in Nodes, crash(n)
      PROVE  Timely'
  <2>1. PICK t \in Nat : /\ t > clock[n] /\ clock' = [clock EXCEPT ![n] = t]
                         /\ booted' = [booted EXCEPT ![n] = t]
    <3>1. Time \subseteq Nat
      BY LWWAssumption DEF Time
    <3> QED
      BY <1>6, <3>1 DEF crash
  <2>2. /\ UNCHANGED issued /\ event_queue' = [event_queue EXCEPT ![n] = <<>>]
    BY <1>6 DEF crash
  <2>3. \A k \in Nodes : /\ clock[k] <= clock'[k] /\ clock'[k] \in Nat
                        /\ booted'[k] <= clock'[k]
    BY <1>1, <1>2, <2>1 DEF TypeOK
  <2>4. \A e \in issued : e[2].ts_ms <= clock'[e[2].origin]
    BY <1>1, <1>2, <2>3
  <2>5. ASSUME NEW k \in Nodes, NEW i \in 1..Len(event_queue'[k])
        PROVE  /\ booted'[k] <= event_queue'[k][i].ts_ms
               /\ event_queue'[k][i].ts_ms <= clock'[k]
    <3>1. CASE k # n
      BY <1>1, <2>1, <2>2, <2>5, <3>1 DEF TypeOK
    <3>2. CASE k = n
      <4>1. event_queue'[k] = <<>>
        BY <2>2, <3>2 DEF TypeOK
      <4> QED
        BY <2>5, <4>1, EmptySeq
    <3> QED
      BY <3>1, <3>2
  <2> QED
    BY <2>2, <2>3, <2>4, <2>5 DEF Timely
<1>7. ASSUME UNCHANGED <<clock, event_queue, issued, booted>>
      PROVE  Timely'
  BY <1>7 DEF Timely
<1>8. ASSUME NEW n \in Nodes,
             \/ get_updates_snapshot(n) \/ pop_replication_updates(n) \/ publish(n)
             \/ \E p \in PeerIds : add_peer(n, p)
      PROVE  UNCHANGED <<clock, event_queue, issued, booted>>
  BY <1>8 DEF get_updates_snapshot, pop_replication_updates, publish, add_peer, history
<1>9. ASSUME NEW m \in net, handle_sensor_update(m) \/ lose(m)
      PROVE  UNCHANGED <<clock, event_queue, issued, booted>>
  BY <1>9 DEF handle_sensor_update, lose, history
<1>10. CASE UNCHANGED vars
  BY <1>7, <1>10 DEF vars, history
<1> QED
  BY <1>3, <1>4, <1>5, <1>6, <1>7, <1>8, <1>9, <1>10 DEF Next

\* The number of crashes never exceeds its bound: with bound 0 none happens.
LEMMA CrashNeedsBudget ==
  ASSUME TypeOK, MaxCrashes = 0, NEW n \in Nodes, crash(n)
  PROVE  FALSE
BY DEF crash, TypeOK

\* An origin keeps holding what it issued, or the reading predates its process.
LEMMA OwnStep ==
  ASSUME StampsHold, TypeOK, Timely, OwnHeld, [Next]_vars
  PROVE  OwnHeld'
<1>1. ASSUME NEW e \in issued
      PROVE  e[1] \in Sensors /\ e[2] \in Record /\ e[2].origin \in Nodes
  BY DEF TypeOK, Record
<1>2. ASSUME Grows, UNCHANGED booted, NEW e \in issued
      PROVE  \/ covers(state'[e[2].origin][e[1]], e[2])
             \/ ClockMonotone /\ e[2].ts_ms < booted'[e[2].origin]
  BY <1>1, <1>2, GrowsCovers DEF OwnHeld
<1>3. ASSUME NEW n \in Nodes, handle_sensor_event(n)
      PROVE  OwnHeld'
  <2>1. PICK s \in Sensors, u \in Record :
           /\ u.origin = n /\ merge_update(n, s, u)
           /\ newer(u, state[n][s]) => issued' = issued \cup {<<s, u>>}
           /\ ~newer(u, state[n][s]) => issued' = issued
    BY <1>3, EventEffect
  <2>2. UNCHANGED booted /\ Grows
    BY <1>3, <2>1, MergeGrows DEF handle_sensor_event
  <2>3. ASSUME newer(u, state[n][s])
        PROVE  covers(state'[n][s], u)
    <3>1. state'[n][s] = u
      BY <2>1, <2>3, MergeOutcome
    <3> QED
      BY <3>1, CoversItself
  <2>4. ASSUME NEW e \in issued', e \notin issued
        PROVE  covers(state'[e[2].origin][e[1]], e[2])
    <3>1. e = <<s, u>> /\ newer(u, state[n][s])
      BY <2>1, <2>4
    <3> QED
      BY <2>1, <2>3, <3>1
  <2> QED
    BY <1>2, <2>2, <2>4 DEF OwnHeld
<1>4. ASSUME NEW n \in Nodes, crash(n)
      PROVE  OwnHeld'
  <2>1. ClockMonotone
    BY <1>4, CrashNeedsBudget DEF StampsHold
  <2>2. PICK t \in Time : t > clock[n] /\ booted' = [booted EXCEPT ![n] = t]
    BY <1>4, <2>1 DEF crash
  <2>3. UNCHANGED issued /\ \A k \in Nodes : k # n => state'[k] = state[k]
    BY <1>4 DEF crash, TypeOK
  <2>4. SUFFICES ASSUME NEW e \in issued
                 PROVE  \/ covers(state'[e[2].origin][e[1]], e[2])
                        \/ e[2].ts_ms < booted'[e[2].origin]
    BY <2>1, <2>3 DEF OwnHeld
  <2>5. CASE e[2].origin # n
    BY <1>1, <2>1, <2>2, <2>3, <2>5 DEF OwnHeld, TypeOK
  <2>6. CASE e[2].origin = n
    <3>1. e[2].ts_ms <= clock[n]
      BY <2>1, <2>6 DEF Timely
    <3>2. Time \subseteq Nat
      BY LWWAssumption DEF Time
    <3>3. e[2].ts_ms \in Nat /\ clock[n] \in Nat /\ t \in Nat
      BY <1>1, <3>2 DEF TypeOK, Record
    <3>4. booted'[n] = t
      BY <2>2 DEF TypeOK
    <3>5. e[2].ts_ms < t
      BY <2>2, <3>1, <3>3
    <3> QED
      BY <2>6, <3>4, <3>5
  <2> QED
    BY <2>5, <2>6
<1>5. ASSUME Grows, UNCHANGED <<booted, issued>>
      PROVE  OwnHeld'
  BY <1>2, <1>5 DEF OwnHeld
<1>6. ASSUME NEW n \in Nodes,
             \/ clock_step(n) \/ get_updates_snapshot(n) \/ pop_replication_updates(n)
             \/ \E s \in Produces[n], v \in Values : sensor_loop(n, s, v)
             \/ publish(n) \/ \E p \in PeerIds : add_peer(n, p)
      PROVE  UNCHANGED <<booted, issued>>
  BY <1>6 DEF clock_step, sensor_loop, get_updates_snapshot,
       pop_replication_updates, publish, add_peer, history
<1>7. ASSUME NEW m \in net, handle_sensor_update(m) \/ lose(m)
      PROVE  UNCHANGED <<booted, issued>>
  BY <1>7 DEF handle_sensor_update, lose, history
<1>8. CASE UNCHANGED vars
  BY <1>8 DEF vars, store, history, OwnHeld
<1> QED
  BY <1>3, <1>4, <1>5, <1>6, <1>7, <1>8, StepGrows DEF Next

\* A reading its origin accepts carries a stamp no earlier one carries.
LEMMA FreshStamp ==
  ASSUME TypeOK, Timely, OwnHeld, NEW n \in Nodes, event_queue[n] # <<>>,
         NEW s \in Sensors, NEW u \in Record, u.origin = n,
         u.ts_ms = event_queue[n][1].ts_ms, newer(u, state[n][s]),
         NEW e \in issued, e[1] = s
  PROVE  ~SameStamp(e[2], u)
<1>1. SUFFICES ASSUME SameStamp(e[2], u) PROVE FALSE
  OBVIOUS
<1>2. e[2] \in Record /\ e[2].origin = n /\ e[2].ts_ms = u.ts_ms
  BY <1>1 DEF TypeOK, SameStamp
<1>3. CASE covers(state[n][s], e[2])
  <2>1. SameStamp(u, e[2])
    BY <1>1 DEF SameStamp
  <2>2. newer(e[2], state[n][s])
    BY <1>2, <2>1, NewerByStamp
  <2> QED
    BY <1>3, <2>2 DEF covers
<1>4. CASE ClockMonotone /\ e[2].ts_ms < booted[n]
  <2>1. 1 \in 1..Len(event_queue[n])
    BY EventRecord
  <2>2. booted[n] <= u.ts_ms
    BY <1>4, <2>1 DEF Timely
  <2>3. Time \subseteq Nat
    BY LWWAssumption DEF Time
  <2>4. booted[n] \in Nat /\ u.ts_ms \in Nat
    BY <2>3 DEF TypeOK, Record
  <2> QED
    BY <1>2, <1>4, <2>2, <2>4
<1> QED
  BY <1>2, <1>3, <1>4 DEF OwnHeld

\* Stamps stay unique.
LEMMA UniqueStep ==
  ASSUME TypeOK, Timely, OwnHeld, UniqueStamps, [Next]_vars
  PROVE  UniqueStamps'
<1>1. ASSUME NEW n \in Nodes, handle_sensor_event(n)
      PROVE  UniqueStamps'
  <2>1. PICK s \in Sensors, u \in Record :
           /\ u.origin = n /\ u.ts_ms = event_queue[n][1].ts_ms
           /\ newer(u, state[n][s]) => issued' = issued \cup {<<s, u>>}
           /\ ~newer(u, state[n][s]) => issued' = issued
    BY <1>1, EventEffect
  <2>2. CASE ~newer(u, state[n][s])
    BY <2>1, <2>2 DEF UniqueStamps
  <2>3. CASE newer(u, state[n][s])
    <3>1. event_queue[n] # <<>>
      BY <1>1 DEF handle_sensor_event
    <3>2. ASSUME NEW e \in issued, e[1] = s
          PROVE  ~SameStamp(e[2], u) /\ ~SameStamp(u, e[2])
      <4>1. ~SameStamp(e[2], u)
        BY <2>1, <2>3, <3>1, <3>2, FreshStamp
      <4> QED
        BY <4>1 DEF SameStamp
    <3> QED
      BY <2>1, <2>3, <3>2 DEF UniqueStamps
  <2> QED
    BY <2>2, <2>3
<1>2. ASSUME UNCHANGED issued
      PROVE  UniqueStamps'
  BY <1>2 DEF UniqueStamps
<1>3. ASSUME NEW n \in Nodes,
             \/ clock_step(n) \/ get_updates_snapshot(n) \/ pop_replication_updates(n)
             \/ \E s \in Produces[n], v \in Values : sensor_loop(n, s, v)
             \/ publish(n) \/ crash(n) \/ \E p \in PeerIds : add_peer(n, p)
      PROVE  UNCHANGED issued
  BY <1>3 DEF clock_step, sensor_loop, get_updates_snapshot,
       pop_replication_updates, publish, crash, add_peer, history
<1>4. ASSUME NEW m \in net, handle_sensor_update(m) \/ lose(m)
      PROVE  UNCHANGED issued
  BY <1>4 DEF handle_sensor_update, lose, history
<1>5. CASE UNCHANGED vars
  BY <1>2, <1>5 DEF vars, history
<1> QED
  BY <1>1, <1>2, <1>3, <1>4, <1>5 DEF Next

-----------------------------------------------------------------------------
\* Both invariants hold at the start, when nothing was issued.
LEMMA InitInv == Init => IndInv
<1>1. SUFFICES ASSUME Init PROVE IndInv
  OBVIOUS
<1>2. TypeOK
  BY <1>1, TypeInit
<1>3. PendingIsCurrent /\ BatchOutdated /\ SelfHeld /\ Known
  BY <1>1 DEF Init, PendingIsCurrent, BatchOutdated, SelfHeld, Known, NoRecords
<1>4. NoReadingLost /\ OwnHeld /\ UniqueStamps
  BY <1>1 DEF Init, NoReadingLost, OwnHeld, UniqueStamps
<1>5. Timely
  <2>1. \A n \in Nodes : booted[n] = clock[n] /\ clock[n] = 0 /\ event_queue[n] = <<>>
    BY <1>1 DEF Init
  <2>2. \A n \in Nodes : Len(event_queue[n]) = 0
    BY <2>1, EmptySeq
  <2> QED
    BY <1>1, <2>1, <2>2 DEF Init, Timely
<1> QED
  BY <1>2, <1>3, <1>4, <1>5 DEF IndInv, DeliveryInv, StampInv

\* Delivery is safe whatever the clocks do: every issued reading that is newer
\* than all lost ones is held, outdated or on its way everywhere.
THEOREM DeliverySafe ==
  ASSUME ColonFree
  PROVE  Spec => []DeliveryInv
<1>1. DeliveryInv /\ [Next]_vars => DeliveryInv'
  BY TypeStep, PendingStep, BatchStep, SelfStep, KnownStep, LostStep DEF DeliveryInv
<1>2. Init => DeliveryInv
  BY InitInv DEF IndInv
<1> QED
  BY <1>1, <1>2, PTL DEF Spec

\* No stream of NodeStateWorker ever serves a reading that a merge replaced.
THEOREM StreamsCurrent ==
  ASSUME ColonFree
  PROVE  Spec => []PendingIsCurrent
<1>1. DeliveryInv => PendingIsCurrent
  BY DEF DeliveryInv
<1> QED
  BY <1>1, DeliverySafe, PTL

\* No reading falls between the replication stream, the origin filter and the
\* wire, although a remote update can replace a local one before the publisher
\* pops it; and a loss, a crash or a missing peer costs no reading newer than the
\* one it hit.
THEOREM NothingLost ==
  ASSUME ColonFree
  PROVE  Spec => []NoReadingLost
<1>1. DeliveryInv => NoReadingLost
  BY DEF DeliveryInv
<1> QED
  BY <1>1, DeliverySafe, PTL

\* With unique stamps as well, the whole invariant is inductive.
THEOREM Inductive ==
  ASSUME ColonFree, StampsHold
  PROVE  Spec => []IndInv
<1>1. IndInv /\ [Next]_vars => IndInv'
  BY TypeStep, PendingStep, BatchStep, SelfStep, KnownStep, LostStep, TimelyStep, OwnStep,
     UniqueStep DEF IndInv, DeliveryInv, StampInv
<1> QED
  BY <1>1, InitInv, PTL DEF Spec

\* Nodes that hold the same stamp hold the same reading, although merge_update
\* never compares values.
THEOREM StampsIdentifyReadings ==
  ASSUME ColonFree, StampsHold
  PROVE  Spec => []SameStampSameRecord
<1>1. IndInv => SameStampSameRecord
  <2>1. SUFFICES ASSUME IndInv, NEW n \in Nodes, NEW m \in Nodes, NEW s \in Sensors,
                        state[n][s] # NoRecord, state[m][s] # NoRecord,
                        SameStamp(state[n][s], state[m][s])
                 PROVE  state[n][s] = state[m][s]
    BY DEF SameStampSameRecord
  <2>2. <<s, state[n][s]>> \in issued /\ <<s, state[m][s]>> \in issued
    BY <2>1 DEF IndInv, DeliveryInv, Known
  <2>3. <<s, state[n][s]>> = <<s, state[m][s]>>
    BY <2>1, <2>2 DEF IndInv, StampInv, UniqueStamps
  <2> QED
    BY <2>3
<1> QED
  BY <1>1, Inductive, PTL

\* When replication has drained, every reading newer than all lost ones of its
\* sensor is held by all nodes or by none: losses heal with the next reading.
THEOREM DrainedNodesAgree ==
  ASSUME ColonFree, StampsHold
  PROVE  Spec => []QuiescentAgreement
<1>1. IndInv => QuiescentAgreement
  <2>1. SUFFICES ASSUME IndInv, Quiescent, NEW n \in Nodes, NEW m \in Nodes,
                        NEW s \in Sensors, state[n][s] # NoRecord,
                        newer(state[n][s], lost[s])
                 PROVE  state[m][s] = state[n][s]
    BY DEF QuiescentAgreement
  <2>2. lost[s] \in Slot
    BY <2>1 DEF IndInv, DeliveryInv, TypeOK, Map
  <2>3. ASSUME NEW i \in Nodes, NEW j \in Nodes, state[i][s] # NoRecord,
               ~covers(lost[s], state[i][s])
        PROVE  state[i][s] \in Record /\ covers(state[j][s], state[i][s])
    <3>1. state[i][s] \in Record /\ <<s, state[i][s]>> \in issued
      BY <2>1, <2>3 DEF IndInv, DeliveryInv, TypeOK, Map, Slot, Known
    <3>2. ~OnItsWay(j, s, state[i][s])
      BY <2>1 DEF Quiescent, OnItsWay
    <3>3. Reaches(j, s, state[i][s])
      BY <2>1, <3>1 DEF IndInv, DeliveryInv, NoReadingLost
    <3> QED
      BY <2>3, <3>1, <3>2, <3>3 DEF Reaches
  <2>4. /\ state[n][s] \in Record /\ ~covers(lost[s], state[n][s])
        /\ covers(state[m][s], state[n][s])
    BY <2>1, <2>3 DEF covers
  <2>5. state[m][s] \in Record /\ state[m][s] # NoRecord
    BY <2>1, <2>4, EmptyCoversNothing DEF IndInv, DeliveryInv, TypeOK, Map, Slot
  <2>6. ~covers(lost[s], state[m][s])
    BY <2>2, <2>4, <2>5, CoversTransitive
  <2>7. covers(state[n][s], state[m][s])
    BY <2>3, <2>5, <2>6
  <2>8. SameStamp(state[m][s], state[n][s])
    BY <2>4, <2>5, <2>7, CoversBothWays
  <2>9. <<s, state[n][s]>> \in issued /\ <<s, state[m][s]>> \in issued
    BY <2>1, <2>5 DEF IndInv, DeliveryInv, Known
  <2>10. <<s, state[m][s]>> = <<s, state[n][s]>>
    BY <2>1, <2>8, <2>9 DEF IndInv, StampInv, UniqueStamps
  <2> QED
    BY <2>10
<1> QED
  BY <1>1, Inductive, PTL

-----------------------------------------------------------------------------
\* Every behaviour of the cluster, seen through its nodes' states, is one of
\* the abstract store: a stamp is issued once, nodes only learn what was
\* issued and only move forward.
THEOREM ClusterImplementsStore ==
  ASSUME ColonFree, StampsHold
  PROVE  Spec => ImplementsStore
<1>1. Init => Store!Init
  BY DEF Init, Store!Init, Store!NoRecords, NoRecords
<1>2. ASSUME IndInv, [Next]_vars
      PROVE  [Store!Next]_(Store!storeVars)
  <2>1. TypeOK /\ Known /\ Timely /\ OwnHeld
    BY <1>2 DEF IndInv, DeliveryInv, StampInv
  <2>2. ASSUME NEW n \in Nodes, NEW s \in Sensors, NEW u \in Record,
               merge_update(n, s, u), newer(u, state[n][s])
        PROVE  state' = [state EXCEPT ![n][s] = u]
    BY <2>2 DEF merge_update
  <2>3. ASSUME NEW n \in Nodes, handle_sensor_event(n)
        PROVE  Store!Next \/ UNCHANGED <<issued, state>>
    <3>1. PICK s \in Sensors, u \in Record :
             /\ u.origin = n /\ u.ts_ms = event_queue[n][1].ts_ms
             /\ merge_update(n, s, u)
             /\ newer(u, state[n][s]) => issued' = issued \cup {<<s, u>>}
             /\ ~newer(u, state[n][s]) => issued' = issued
      BY <2>1, <2>3, EventEffect
    <3>2. CASE newer(u, state[n][s])
      <4>1. event_queue[n] # <<>>
        BY <2>3 DEF handle_sensor_event
      <4>2. \A e \in issued : ~(e[1] = s /\ SameStamp(e[2], u))
        BY <2>1, <3>1, <3>2, <4>1, FreshStamp
      <4>3. Store!Issue(n, s, u)
        BY <2>2, <3>1, <3>2, <4>2 DEF Store!Issue, Store!newer, Store!SameStamp,
             newer, SameStamp
      <4> QED
        BY <4>3 DEF Store!Next, Store!Record, Record, Store!Time, Time
    <3>3. CASE ~newer(u, state[n][s])
      BY <2>1, <3>1, <3>3, MergeOutcome
    <3> QED
      BY <3>2, <3>3
  <2>4. ASSUME NEW m \in net, handle_sensor_update(m)
        PROVE  Store!Next \/ UNCHANGED <<issued, state>>
    <3> DEFINE n == Reach[m.via]
    <3>1. /\ n \in Nodes /\ m.sensor_id \in Sensors /\ m.rec \in Record
          /\ merge_update(n, m.sensor_id, m.rec)
          /\ <<m.sensor_id, m.rec>> \in issued /\ UNCHANGED issued
      BY <2>1, <2>4, FrameFields DEF handle_sensor_update, Known, history
    <3>2. CASE newer(m.rec, state[n][m.sensor_id])
      <4>1. Store!Learn(n, m.sensor_id, m.rec)
        BY <2>2, <3>1, <3>2 DEF Store!Learn, Store!newer, newer
      <4>2. \E e \in issued : Store!Learn(n, e[1], e[2])
        BY <3>1, <4>1
      <4> QED
        BY <3>1, <4>2 DEF Store!Next
    <3>3. CASE ~newer(m.rec, state[n][m.sensor_id])
      BY <2>1, <3>1, <3>3, MergeOutcome
    <3> QED
      BY <3>2, <3>3
  <2>5. ASSUME NEW n \in Nodes, crash(n)
        PROVE  Store!Next
    BY <2>5 DEF crash, Store!Next, Store!Forget, Store!NoRecords, NoRecords
  <2>6. ASSUME NEW n \in Nodes,
               \/ clock_step(n) \/ get_updates_snapshot(n) \/ pop_replication_updates(n)
               \/ \E s \in Produces[n], v \in Values : sensor_loop(n, s, v)
               \/ publish(n) \/ \E p \in PeerIds : add_peer(n, p)
        PROVE  UNCHANGED <<issued, state>>
    BY <2>6 DEF clock_step, sensor_loop, get_updates_snapshot,
         pop_replication_updates, publish, add_peer, history, store
  <2>7. ASSUME NEW m \in net, lose(m)
        PROVE  UNCHANGED <<issued, state>>
    BY <2>7 DEF lose, store
  <2>8. CASE UNCHANGED vars
    BY <2>8 DEF vars, history, store, Store!storeVars
  <2> QED
    BY <1>2, <2>3, <2>4, <2>5, <2>6, <2>7, <2>8 DEF Next, Store!storeVars
<1> QED
  BY <1>1, <1>2, Inductive, PTL DEF Spec, ImplementsStore, Store!Spec
=============================================================================
