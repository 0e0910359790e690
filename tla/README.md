# Distributed Sensor Hub: specifications and proofs

A cluster of Python processes. Each reads its sensors, keeps a
last-writer-wins map of the newest reading of every sensor in the cluster,
broadcasts its own readings to the peers it knows, and finds peers by
exchanging `JOIN_REQUEST` and `PEER_LIST`. There is no coordinator and nothing
is stored on disk. Everything hard is in threads and messages: each process
runs a thread per sensor, a state worker, a publisher, a thread per outbound
peer, an accept thread, a thread per inbound connection and one per HTTP
request.

Paths below are relative to the repository.

## 1. The system

| Part | State | Operations | Must hold |
|---|---|---|---|
| `state/node_state_worker.py` | `_state`, `_updates_ui`, `_updates_replication` behind one lock; `event_queue` | `merge_update`, `_handle_sensor_event`, `get_updates_snapshot`, `pop_replication_updates` | readings that arrive late or out of order do no harm; the two streams never serve or lose what they should not; what was lost is made good by the next reading; all nodes end up equal |
| `state/sensor_update_publisher.py` | the popped batch | `_publish_once`, `_send_to_peer` | every local reading, or a newer one, reaches every peer; nothing is re-broadcast |
| `protocol/handlers.py` | none | `handle_sensor_update` | a delayed, repeated or reordered update is harmless |
| `membership/*`, wiring in `node.py` | `PeerTable._peers`, `TcpClient._workers` | `bootstrap`, `handle_join_request`, `handle_peer_list`, `on_peer_discovered` | a listed peer can be sent to; the exchange ends, and ends with everyone knowing everyone |
| `networking/tcp_client.py` | per peer: queue, socket, back-off | `send_json`, `_run`, `stop` | no frame twice or out of order on a connection, no leaked socket, recovery after outages, `stop()` ends |
| `networking/tcp_server.py` | sets of connections and threads, stop flag | `start`, `stop`, `_accept_loop`, `_connection_loop` | nothing is left open or running after `stop()`; what is sent is read |
| `sensors/*` | threads | `load_from_env`, `start_all`, `_loop`, `stop_all` | one event per period, stamped with the wall clock in ms; ids are distinct |
| `webapi/http_api.py` | the server thread | `GET /api/state`, `GET /api/updates`, `stop` | reads do not disturb replication; `stop()` ends |
| `web/index.html` | rows, log, polls in flight | `poll`, `renderState`, `pushLog`, `start` | the page comes to show what the node holds; no reading is hidden from the log |
| `protocol/dispatcher.py`, `message.py`, `setup.py` | handler table | `dispatch`, `decode` | a bad message or a raising handler costs only that message; nothing a node sends is refused |
| `utils/config.py` | none | `load_config` | |
| `node.py` `main` | start-up and clean-up order | | clean-up ends, and nothing talks to peers after it |

Interaction: sensors put events on a queue; the state worker merges them; the
publisher pops, filters by origin and hands frames to `TcpClient`; the peer's
`TcpServer` threads decode and dispatch to `handle_sensor_update`, which merges
under the same lock. The membership handlers run on the same server threads and
call back into `TcpClient`. `fd/` and `gossip/` are empty packages;
`update_heartbeat`, `phi` and `status` have no caller.

## 2. Modules

| Module | Models | State and actions |
|---|---|---|
| `LWW` | records, the decision of `merge_update`, the key `origin:sensor_id` and how it is cut again | operators |
| `LWWStore` | what the replicated state promises | `issued`, `view`; Issue, Learn, Forget |
| `Replication` | worker, publisher, handler and sensors of every node over a lossy, reordering network | one variable per field of the code, plus `net`; one action per critical section |
| `Membership` | start-up, JOIN/LIST handlers split at every point where another thread can step in, discovery, the publisher's add-on-the-fly | `table`, `workers`, `chan`, and for each connection the thread that serves it |
| `Link` | what an outbound worker promises | `pending`, `delivered`, `lost` |
| `PeerWorker` | `_PeerWorker`: its thread, `enqueue`, `stop()`, and a server that comes and goes | the thread's program counter, `_queue`, `_sock`, both ends of every connection |
| `Codec` | `Message`: validation, encoding, decoding; the handler table of `setup_protocol`; the payload checks of all handlers; the messages nodes build | operators on JSON values |
| `TcpServer` | `start`, `stop`, accept thread, connection threads, clients that send frames of every kind | program counters, the two tracked sets, the flag |
| `Config` | `load_config`, the default Web API port, `SensorManager.load_from_env` | operators on an environment |
| `Node` | one process: `main` from start-up to clean-up, every thread it starts, `TcpClient._workers` | where `main` and each thread are, stop flags, `table`, `workers` |
| `Web` | the Web API of two nodes and a page that polls one | `_state`, `_updates_ui`, polls in flight, rows, log |
| `MCReplication`, `MCMembership`, `MCTcpServer`, `MCNode`, `MCWeb` | instances for TLC | |
| `LWW_proofs` | lemmas about the last-writer-wins order and the key conversion, for `Replication_proofs` and `Web_proofs` | |
| `Replication_proofs`, `PeerWorker_proofs`, `TcpServer_proofs`, `Membership_proofs`, `Node_proofs`, `Web_proofs` | inductive invariants, lemmas and theorems about the module they extend (section 4); those of `Codec` are in `TcpServer_proofs`, those of `Config` in `Node_proofs` | |
| `Reintegration_proofs` | extends `Membership_proofs`: what holds of membership after crashes, and in a star | |

How they fit together: `PeerWorker` implements `Link` (proved); `Replication`
works over a network that is a `Link` per peer (at most once, no order, losses
when `Lossy`), and implements `LWWStore` (proved); `Membership` is what drives
`Replication`'s `add_peer`. `PeerWorker`'s server steps are the client's view of
`TcpServer`, which decides by `Codec` what becomes of a frame. `Node` is the
frame around all of them: it has one step where the others have many (a worker
is connected or not, a stream has something in it or not), and `Config` decides
how far it gets. `Web` reads what `Replication` merges, with the decision of
`LWW`.

### Abstractions

* A node id is a natural number in the order of the `NODE_ID` strings; only
  their order matters to the tie-break. A string is the sequence of its
  `:`-separated parts, so that formatting `origin:sensor_id` and splitting it at
  the first `:` are what they are in the code. `meta` is part of a value.
  `pop_replication_updates` keys its dict by `origin:sensor_id`, the model by
  `sensor_id`: the strings of two sensors are equal only if a `NODE_ID` has a `:`.
* `merge_update`, `get_updates_snapshot` and `pop_replication_updates` hold the
  lock throughout and are one action each. `_publish_once` is two: the pop, and
  the rest. Sending its frames one by one adds nothing: a frame not yet queued
  cannot be told from one queued and not delivered. The check that a worker exists is in `Membership`, not here.
* `Membership` keeps no addresses: an id determines its address. `0.0.0.0`
  becomes the node id in `_ensure_client_peer` (a name that resolves, as the
  compose files' `container_name` makes it) and is used as it is by the publisher, where
  it ends at the publisher's own host (`Unreachable`: the ports differ).
  Frames are lost there only with the process at either end; it is started
  again when its peers have read what it had sent.
* `Codec` keeps a JSON value's Python type, so that `isinstance`, `or {}` and
  `not x` do what they do in Python (a bool is an int, an empty list is an empty
  payload), and of numbers and strings only what these tests can tell apart.
* An environment in `Config` is a function from the variables that are set; a
  value is a number, a word, `Junk` or `Blank`. Lists are cut at their commas
  and colons, ids at their `@`. `LOG_LEVEL` is as `.upper()` leaves it. The default
  name `sensor_i` is written as two parts, one name for each `i` as in the code.
* In `Node` a failure is possible in every start-up step whatever the
  environment (a port that is taken, a log file that cannot be opened), and
  certain where the environment is bad. `server.stop()`, and `client.stop()` for
  each worker, wait for a limited time and may go on earlier; a sensor only ever
  waits for its stop event, so the 2 s of its `join` are never used up.
* In `Web` time is left out: the timer may fire whenever one of `Polls` is free.
  The level of the local node's id, which every answer has around it, is left
  out: `normalizeGroupedByOrigin` removes it again. The keys of rows and log lines
  are records where the page joins the fields with `|` (`index.html:252`, `:348`): two
  keys that differ here could be one string if an id contained a `|`.
  `splitGlobalSensorId` returns null for an id that begins with `:` and the entry is
  skipped; only a `NODE_ID` that begins with `:` makes one, and none here does.
* `PeerWorker` and `TcpServer` have no time: a sleep, a connect, a `sendall` or
  a handler takes as long as it likes. A frame cut off by a closing connection
  is no frame. `send_json` and `_send_frame` both reject payloads above the
  limit; frames are below it. In `PeerWorker` `join(timeout=5.0)` may end while
  the thread is in `connect` or `sendall`, in `TcpServer` while it is in a
  handler. The accept thread never needs that long (`accept_timeout_s` is 1 s).
  A `start()` that raises, because the port is taken, has lowered the stop flag
  by then (`start_fails`).
* History variables: `issued`, `booted`, `lost` (`Replication`), `broken`,
  `dispatched` (`PeerWorker`), `born`, `late` (`TcpServer`), `served` (`Node`). No
  guard reads one.

## 3. What the runs show

| Run | Shows |
|---|---|
| `replication` | `PendingIsCurrent`, `NoReadingLost`, `QuiescentAgreement`, `Convergence`: two nodes writing the same sensor id, ties and clocks that step back included. A remote update may replace a local one in the replication stream and is then filtered out: nothing is lost, as the remote one is newer and its origin broadcasts it |
| `replication_crash` | `SameStampSameRecord`, `NoReadingLost`, `QuiescentAgreement`, `ImplementsStore`: a restart, lost frames, a publisher that pops readings before any peer is listed, a node known by two ids and meeting its own alias. Losses heal: a reading newer than the lost ones of its sensor still reaches every node, and drained nodes agree on it |
| `replication_keys` (violated) | state is not keyed by origin |
| `replication_colon` (violated) | a `:` in `NODE_ID` splits the key in the wrong place |
| `membership` | `WiredOrPending`, `GossipCloses`, `GossipSettles`: any number of handlers and both publishers racing on two nodes that name each other, replies lost to missing workers included |
| `membership_star` | `GossipCloses`, `Reintegrates`: two nodes that know only a third meet through it; one of them may die at any moment, with what it sent and what was sent to it, and is started again: all reach all |
| `membership_host` (violated) | a worker may connect to the wrong host for ever |
| `membership_restart` (violated) | a node without `BOOTSTRAP_PEERS` does not come back after a restart |
| `peer_worker` | `NoSocketLeak`, `NothingMissing`, `WiresOrdered`, `ImplementsLink`; `StopCompletes`, `QueueDrains` |
| `tcp_server` | `NothingLeft`, `JoinsStarted`, `StaleNeverDispatch`; `StopReturns`, `Served`; and `SentIsHandled`: what nodes build survives `to_dict`, `from_json` and every handler's checks |
| `node` | `SilentAfterExit`, `DistinctSensors`; `CleanUpEnds`, `PeersServed`: the publisher is told to stop and not waited for, so it may add a peer to a client that has already been stopped; the worker started then sees the client's flag before it connects |
| `web` | `LogConsistent`, `ReadingsReachLog`; `UiCatchesUp`: updates that were read and did not arrive are missing from the log, never from the rows, because each poll renders the whole state. `ReadingsReachLog` holds until the log is full and while no answer is lost and the page stays with one node. `UiCatchesUp` says that the page shows all the node holds; rows that a late answer of another node left are not removed and not excluded |

### Where code and documents disagree

1. `README.md:94` and `:202` say the state key is `{origin}:{sensor_id}`. It is
   `sensor_id` (`node_state_worker.py:241`, as its own docstring says), so
   sensors of the same id on two nodes compete.
2. A `NODE_ID` with a `:` makes `sensor_update_publisher.py:66` cut inside the
   id; peers file the reading under another key and never agree with its origin.
3. When the publisher finds a listed peer without a worker, it adds one with the
   advertised host, without the `0.0.0.0` rule of `_ensure_client_peer`; the
   handler's own attempt then fails silently.
4. `README.md:388` expects a restarted node to re-integrate. One that is
   configured without `BOOTSTRAP_PEERS` sends no `JOIN_REQUEST`, and its peers,
   which still list it, send none to it: its peer table stays empty and its
   readings go nowhere (run `membership_restart`). Nodes that name a bootstrap
   peer that stays up do come back (run `membership_star`; proved for the two
   nodes of `docker-compose-base.yml`, which name each other and may both die, and
   for a star of any size).

Seen on the way and not made a run:

* A bootstrap peer has two workers and two connections, one under
  `bootstrap@host:port` and one under its id (`README.md:133` says one per peer),
  and gets every update twice, which `merge_update` absorbs.
* The reply to a `JOIN_REQUEST` (`membership/handlers.py:81`) raises `KeyError`
  when another thread has listed the sender and not created its worker yet. A
  thread that listed it from a `JOIN_REQUEST` replies itself; one that listed it
  from a `PEER_LIST` does not. `GossipCloses` holds all the same where of any two
  nodes one names the other, and for stars (both proved). With four nodes that
  start as a chain (2 names 1, 3 names 2, 4 names 3) TLC in simulation mode finds behaviours that go quiet while 1 and 4 do not list
  each other: 2 and 3 know both, and the replies that would have introduced them
  were lost in this way or written before the other had joined. No further
  `JOIN_REQUEST` follows. `README.md:102` says that the exchange "achieves
  transitive closure across the cluster". The state space of four nodes is too
  large for a run that searches it breadth first. No such behaviour was found
  for the ring of four (2 to 4 million simulated states), nor for the chain of three
  that `README.md:384` describes (all states with one thread inside a handler at a
  time, simulation without that limit).
* `node.py:132` predeclares subsystems "for safe cleanup", but a failure of any
  start-up step is re-raised before the `try` whose `finally` cleans up. The
  process just ends; by then it may have joined the cluster and sent readings.
  A `SIGTERM` (`docker stop`) skips the clean-up as well.
* Apply with an unchanged URL adds a second interval timer that nothing clears.
  Rows of origins that a node no longer holds stay on the page. Two pages on one
  node share its updates: each log has a part of them.

### Bounds

* `Replication`: two nodes and one shared sensor id suffice for every race
  between two writers, ties included (the theorems cover any number); clocks 0..1 allow equal, newer and
  older stamps, and a lost reading with a newer one after it; queues hold one event
  (`MaxQueue`), a second only waits, or two with a restart, so that two readings of one
  millisecond wait together. Readings are symmetric.
* `Membership`: a table never shrinks and every new entry costs one JOIN, so
  behaviours are finite; `MaxBusy` limits the threads inside a handler at the same time
  (no limit in effect for two nodes, 1 for three). One crash, of a node that may
  be at any point of start-up or exchange.
* `PeerWorker`: `MaxFrames`, `MaxFailures`, and one more connection than
  failures, so that a worker never runs out of connections.
* `TcpServer`: two connections, two frames in all, two calls of `start()`: one old
  and one new connection, and a frame left after the handler that outlives
  `stop()`; a frame of every way to be a message, no message, or too long.
* `Node`: one bootstrap peer and one that joins: one peer with a worker before
  the publisher starts and one whose worker handler and publisher race to add.
  27 environments, each wrong in one way; one of them gets to the main loop.
* `Web`: two nodes, two polls in flight at once, `LogMax` 2 with three readings,
  one answer lost, one change of node: overlaps, trims and an answer of the old
  node after the change all occur.

`CHECK_DEADLOCK FALSE` where the system may come to rest (membership has
settled, the process has ended, the worker or server is stopped and the bounds
are used up).

### Fairness

Weak fairness of the threads' steps: they loop until stopped and none waits
for another for ever. In `Membership` the weakest form is enough: as long as some
thread can go on, one does. `connect_succeeds` is strongly fair: while a server is up
a retrying client gets through sooner or later; and an outage ends
(`server_starts`). In `Web` the timer fires, the node's threads answer and answers
arrive or fail. In `Node` sensors produce and the state worker merges what they
produce; `interrupt` and `raise` are not fair. Nothing else is assumed of
clients, clocks, `stop()` being called, crashes or losses.

## 4. What is proved

Every theorem below is checked by TLAPS and holds for every value of the
constants that satisfies the module's assumptions: any number of nodes, peers,
connections, frames, polls, crashes. A safety property is proved from an
inductive invariant, whose parts are named in the proof module; each was
model-checked on the instance of the module's run before it was proved.

### Replication

For any nodes, sensors, topology, queue and crash bounds:

| Theorem | Under | States |
|---|---|---|
| `TypeCorrect` | `ColonFree` | `Spec => []TypeOK` |
| `StreamsCurrent`, `NothingLost` | `ColonFree` | `[]PendingIsCurrent`, `[]NoReadingLost` |
| `StampsIdentifyReadings` | `ColonFree`, `StampsHold` | `[]SameStampSameRecord` |
| `DrainedNodesAgree` | `ColonFree`, `StampsHold` | `[]QuiescentAgreement` |
| `ClusterImplementsStore` | `ColonFree`, `StampsHold` | `Spec => Store!Spec` |

`ColonFree` is needed: run `replication_colon` is the counterexample.
`StampsHold` says that clocks never step back or processes never restart;
with both, an origin may issue two readings under one stamp.

The history variable `lost` holds, for each sensor, the newest reading that some
node was never sent or lost again: popped while a peer was not listed, dropped by
a connection, forgotten by a process that died. `NoReadingLost` and
`QuiescentAgreement` speak of every reading newer than that, so they say more than
that nothing else is lost: one loss does not spoil what comes after it.

The argument. `NoReadingLost` alone is not inductive: when a pending local
update is replaced in the replication stream, one must know that what replaces
it is newer (`PendingIsCurrent`: the stream holds what the state holds), that it
was issued by its origin and is therefore itself held or on its way (`Known`),
and that a popped batch is no newer than the state (`BatchOutdated`), nor is a
frame a node sent to its own alias (`SelfHeld`: it may die in a restart without being
counted, as what the state held is). Together with `TypeOK` these are
`DeliveryInv`. A loss or a crash keeps it because `lost` only grows and then covers
what is gone; `covers` is transitive. For the identity of readings: an origin accepts a reading
only if it is newer than what it holds, and it holds all it ever issued
(`OwnHeld`) or, after a restart, has forgotten only readings older than the
running process (`Timely`); hence no stamp is issued twice (`UniqueStamps`).
`IndInv` is the conjunction. Agreement follows: in a drained state every node
covers every issued reading newer than the lost ones, two nodes cover each other's, `newer` is a strict
order on stamps, and equal stamps mean equal readings. The refinement maps
`view` to `state`; a local merge is Issue or a stutter, a remote one Learn or a
stutter, a crash Forget.

### PeerWorker

| Theorem | States |
|---|---|
| `Typed`, `SocketsClosed` | `[]TypeOK`, `[]NoSocketLeak` |
| `NeverReordered`, `NothingLost` | `[]WiresOrdered`, `[]NothingMissing` |
| `Refinement` | `Spec => ImplementsLink` |

`Control` says what the thread holds at each of its program counters, and that a
`stop()` which has closed the socket never sees another one in `_sock`: the
window is between `connect` and publishing the socket, and `_connect` looks at
the flag there. `Ends` says that connections are made one after the other and
that only the latest is open. Frames are numbered as they are enqueued; `Ordered`
compares all that are on their way (the wires in the order of their connections, the frame in
the thread's hand, the queue), `Carried` and `Once` say where frames can be.
The refinement maps `pending` to these frames and `lost` to what is neither there
nor dispatched. `NothingMissing` is about concatenation, not order: it needs
`Unbroken`, that until something fails there is one connection and it stays.

### TcpServer and Codec

| Theorem | States |
|---|---|
| `Typed`, `StopLeavesNothing`, `JoinsOnlyStarted` | `[]TypeOK`, `[]NothingLeft`, `[]JoinsStarted` |
| `NoStaleDispatch` | `Spec => StaleNeverDispatch` |
| `MessagesUnderstood`, `AllSentHandled` | `Understood` for all ids; `[]SentIsHandled` |

`Stops` lists what `stop()` has achieved at each stage. It depends on the accept
thread: a connection accepted while `stop()` runs is in the copy, or its thread
sees the flag before it reads (`Tracked`, `Phases`). `Life` follows a connection
from the listen queue to its thread's end and says that one of an earlier
`start()` is closed, which is why it cannot give a frame to the dispatcher.
`MessagesUnderstood` follows the three messages nodes build through encoding,
validation and every check of the handler that gets them.

### Membership

| Theorem | Under | States |
|---|---|---|
| `Typed`, `Wired` | | `[]TypeOK`, `[]WiredOrPending` |
| `MissesOnlyBindAll` | `BindAll = {}` | `[]ConnectsToPeer` |
| `Greeting` | | `[]Greets` |
| `QuietIsMutual` | | `[](Quiet /\ crashes = 0 => Mutual)` |
| `MeshCloses` | `Meshed` | `[]GossipCloses` |

`Wiring` is the heart: the thread that lists a peer is the only one that wires
it, since `add_peer` tells it apart from all that come later; the publisher may
be faster and the thread then finds the worker. `Hosted` ties a thread to a
process that is up, so that a crash takes threads and table together; `Queued`
says that frames wait only where there is a worker. `MissesOnlyBindAll` is the
other side of run `membership_host`: without a node that advertises `0.0.0.0`
every worker connects to its peer.

`Greets` is the invariant of the exchange before any crash. A listed node has
listed its peer in turn, or a `JOIN_REQUEST` to it waits in its worker's
queue, or a handler thread is about to create that worker and send it;
and once the bootstrap `JOIN_REQUEST` was sent, it waits or its sender is
listed. When nothing waits and no thread is inside a handler only the first case
is left: "lists" is symmetric (`QuietIsMutual`) for every topology. `Meshed` (of
any two nodes one names the other, as in `docker-compose-base.yml`) then gives
the whole of `GossipCloses`. For sparser addresses more is needed: see the chain of
four in section 3, and the star below.

`Reintegration_proofs` goes on from there, with crashes:

| Theorem | Under | States |
|---|---|---|
| `Stands` | | `[]Standing` |
| `MeshReintegrates` | `Anchored` | `[]Reintegrates` |
| `HubTells` | `Star(h)` | `[]Hubbed(h)` |
| `StarCloses` | `Star(h)` | `[]GossipCloses` |
| `StarReintegrates` | `Star(h)`, `h \notin CrashProne` | `[]Reintegrates` |

`Greets` does not survive a crash: entries of a restarted process are about an
earlier run of its peers, and what was sent to a process that died is gone.
`Standing` is what does. `Reached`: a listed node has a worker that connects to it,
or a `JOIN_REQUEST` waits there or is about to be sent (the publisher may have
made a worker that connects nowhere, but then nothing is ever quiet: that
`JOIN_REQUEST` stays). `Met`: a node that has not died (`Lasting`) lists everyone
that has sent it a start-up `JOIN_REQUEST`, unless that still waits. `Anchored` says
that a node that may die names every other one, and that of two that do not one names
the other; then every pair is covered by a worker made at start-up or by `Met`. Without
it run `membership_restart` is the counterexample.

Each step is taken apart once, into what it does to lists, workers, threads and
frames (`Follows`, `Spreads`); the invariants are then kept by these, not by the
actions.

In a star (every other node names `h`, nobody names another) the reply that can be
lost, of a thread that listed nobody itself, is never lost at the hub. `First`: as
long as the hub does not list a node, nobody has heard of it, and it has sent frames
to the hub's address only. So the hub lists it on reading its `JOIN_REQUEST`, in the
thread that reads all of them, and that thread wires it before it replies
(`Direct`). `Told(h, a, b)` follows the news of `b` to `a`: `a` has still to send its
first `JOIN_REQUEST`, or one waits or is being answered, or a list with `b` is on its
way or being integrated, or `a` lists `b`. It holds from the moment it first does:
when `a` dies it starts again, and asks again. Of two nodes the hub lists, the later
one is told of the other (`Pairs`); and one that lists another has it told in turn
(`Back`), by its `JOIN_REQUEST` or, if that died with the receiver, by the hub.

### Node and Config

| Theorem | States |
|---|---|
| `Typed`, `SilentOnceExited` | `[]TypeOK`, `[]SilentAfterExit` |
| `SensorsDistinct` | `[]DistinctSensors` |

`Shut`: a worker object that is made after `TcpClient.stop` took the others out
is made with the flag raised and so never connects, and those it took out are
closed before clean-up ends. `SensorsDistinct` uses `Configured` (how far `main`
got says what its environment is like) and that the last part of an id is the
sensor's index. `NodeAssumption` states what kind of values an environment has:
addresses come from `Addresses`, a name is the list of its parts.

### Web

| Theorem | Under | States |
|---|---|---|
| `LogStaysConsistent` | | `[]LogConsistent` |
| `Typed` | `ColonFree` | `[]TypeOK` |
| `ReadingsArrive` | `ColonFree`, `DistinctIds` | `[]ReadingsReachLog` |

A poll pushes the updates of an answer one by one, in any order. What the whole
loop does (`PushAllEffect`) is proved by taking the least position at which it
would fail; the sensors of a node are finitely many (`WebAssumption`), so there
is an order. `AnswerAssumption` keeps the two markers for missing answers apart
from answers. With a `:` in a `NODE_ID` two sensors may share a row.
`ReadingsReachLog`, under the conditions it states (no loss, no switch, a log that is not
full), is not inductive: `pushLog` drops an update whose key is
there already, and one must know that the line with that key is the same reading
(`Coherent`: the node's record makes redundant all that was ever on its way to
the page, and no two of these have the same stamp). `Loyal` says which polls ask
which node and why an answer may be missing.

### Only model-checked

* Liveness: `Convergence`, `GossipSettles`, `StopCompletes`, `QueueDrains`,
  `StopReturns`, `Served`, `CleanUpEnds`, `PeersServed`, `UiCatchesUp`. It is
  out of the prover's reach.

`GossipCloses` and `Reintegrates` depend on the topology. They are proved for the
ones above and not claimed for others: the first fails for a chain of four (section
3), the second for a node without a bootstrap peer (run `membership_restart`).

## 5. Not modelled

* The values sensors draw: random numbers that nothing else looks at. (The
  incremental sensor draws its step from both signs.)
* `utils/logging.py`, log lines and the state worker's debug dump.
* The JSON text, UTF-8, and the layout and status line of the page.
* `PING`, `PONG`, `GOSSIP_STATE`, `FULL_SYNC_*`, `ERROR` and `ACK` have handlers
  that only raise: in `Codec` they do, and the frame has no effect.
* `remove_peer`, `get_peer` and `update_heartbeat` have no caller in the program.
* `fd/` and `gossip/` are empty; `docker/` is configuration, whose base file is
  the instance `Pair` of `Membership`.
* A `JOIN_REQUEST` lost between two running processes. It is not repeated and
  the code promises nothing; `Membership` loses frames only with a process.

## 6. Plan

All parts of the program that have state are modelled, and every invariant, action
property and refinement that a passing run checks is proved. What is left:

1. `GossipCloses` for topologies between a star and the chain of four, such as a chain
   of three, where the middle node names one of the ends: there an end may be listed
   from a `JOIN_REQUEST` that answers the middle's own, so `First` and `Direct` do
   not hold as they stand.
2. Should the code repeat a `JOIN_REQUEST` or keep its peers across a restart: the
   same theorems without assumptions about the topology.
