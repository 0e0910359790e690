----------------------------- MODULE Membership -----------------------------
(***************************************************************************)
(* How nodes find each other: start-up in main(), the JOIN_REQUEST and     *)
(* PEER_LIST handlers run by connection threads, the discovery callback    *)
(* on_peer_discovered, and the publisher's add-on-the-fly, over the peer   *)
(* table and the workers of TcpClient.                                     *)
(*                                                                         *)
(* A peer id is a node's NODE_ID or the alias bootstrap@host:port under    *)
(* which a configured address is known before (and after) its owner joins. *)
(* An id determines the address stored with it.  Frames wait until the     *)
(* other end listens (the worker reconnects) and are lost only when a      *)
(* process dies: it forgets everything and may be started again.           *)
(***************************************************************************)
EXTENDS Integers, Sequences, FiniteSets

CONSTANTS
  Nodes,        \* the processes
  Bootstrap,    \* Bootstrap[n]: owners of n's BOOTSTRAP_PEERS, in order
  BindAll,      \* the nodes configured with HOST=0.0.0.0
  Producers,    \* the nodes whose publisher has updates to send
  MaxBusy,      \* bound: threads inside a handler at the same time
  CrashProne,   \* the nodes that may die
  MaxCrashes,   \* bound: how often they do
  NoWorker,     \* TcpClient._workers has no such key
  Unreachable,  \* a worker whose address nobody listens on
  Nobody        \* the publisher is between two peers

ASSUME MembershipAssumption ==
  /\ Bootstrap \in [Nodes -> Seq(Nodes)]
  /\ BindAll \subseteq Nodes /\ Producers \subseteq Nodes /\ MaxBusy \in Nat \ {0}
  /\ CrashProne \subseteq Nodes /\ MaxCrashes \in Nat
  /\ NoWorker \notin Nodes /\ Unreachable \notin Nodes /\ NoWorker # Unreachable

node(m) == [kind |-> "node", of |-> m]
alias(m) == [kind |-> "bootstrap@", of |-> m]

Listed == {m \in Nodes : \E n \in Nodes : \E i \in 1..Len(Bootstrap[n]) :
                            Bootstrap[n][i] = m}
PeerIds == {node(m) : m \in Nodes} \cup {alias(m) : m \in Listed}

ASSUME NobodyAssumption == Nobody \notin PeerIds

\* Where a worker connects to: 0.0.0.0 becomes the node id, a name that
\* resolves; the publisher skips this and connects to its own host, where the
\* peer's port is closed.
try_host(p) == p.of
raw_host(p) == IF p.kind = "node" /\ p.of \in BindAll THEN Unreachable ELSE p.of

VARIABLES
  step,       \* step[n]: how far main() of n has come, -1 when it is dead
  table,      \* table[n]: keys of n's PeerTable
  workers,    \* workers[n][p]: where the worker of n for p connects to
  chan,       \* chan[n][p]: frames sent by that worker, not yet read
  handler,    \* handler[n][p]: the connection thread at its other end
  publisher,  \* publisher[n]: the peer id send_json just raised KeyError for
  crashes     \* how many processes have died

vars == <<step, table, workers, chan, handler, publisher, crashes>>

Join(n) == [type |-> "JOIN_REQUEST", sender |-> n, peers |-> {}]
PeerList(n, ps) == [type |-> "PEER_LIST", sender |-> n, peers |-> ps]
Message == [type : {"JOIN_REQUEST", "PEER_LIST"}, sender : Nodes,
            peers : SUBSET PeerIds]

\* A thread: what it does next, for which JOIN's sender (or which list's), the
\* peer it is wiring, and the entries left to integrate or to send.
Thread == [pc : {"read", "entries", "ensure", "discover", "list", "reply"},
           msg : {"JOIN_REQUEST", "PEER_LIST"}, sender : Nodes,
           peer : PeerIds, peers : SUBSET PeerIds]

\* A thread between two frames.
Idle(n, p) == [pc |-> "read", msg |-> "JOIN_REQUEST", sender |-> n, peer |-> p,
               peers |-> {}]

\* The last start-up step of n: server, one seed and one JOIN per address.
Running(n) == 1 + 2 * Len(Bootstrap[n])

\* The workers main() creates before it starts the server.
bootstrap_workers(n) ==
  [p \in PeerIds |-> IF \E i \in 1..Len(Bootstrap[n]) : p = alias(Bootstrap[n][i])
                       THEN p.of ELSE NoWorker]

Init ==
  /\ step = [n \in Nodes |-> 0]
  /\ table = [n \in Nodes |-> {}]
  /\ workers = [n \in Nodes |-> bootstrap_workers(n)]
  /\ chan = [n \in Nodes |-> [p \in PeerIds |-> <<>>]]
  /\ handler = [n \in Nodes |-> [p \in PeerIds |-> Idle(n, p)]]
  /\ publisher = [n \in Nodes |-> Nobody]
  /\ crashes = 0

send_json(n, p, m) == chan' = [chan EXCEPT ![n][p] = Append(@, m)]

-----------------------------------------------------------------------------
\* main(): workers for the bootstrap addresses exist; the server starts.
start_server(n) ==
  /\ step[n] = 0
  /\ step' = [step EXCEPT ![n] = 1]
  /\ UNCHANGED <<table, workers, chan, handler, publisher, crashes>>

\* main() puts the next bootstrap alias into the peer table.
seed(n) ==
  /\ step[n] \in 1..Len(Bootstrap[n])
  /\ table' = [table EXCEPT ![n] = @ \cup {alias(Bootstrap[n][step[n]])}]
  /\ step' = [step EXCEPT ![n] = @ + 1]
  /\ UNCHANGED <<workers, chan, handler, publisher, crashes>>

\* bootstrap() sends the next JOIN_REQUEST.
bootstrap(n) ==
  LET L == Len(Bootstrap[n])
  IN /\ step[n] \in (L + 1)..(2 * L)
     /\ send_json(n, alias(Bootstrap[n][step[n] - L]), Join(n))
     /\ step' = [step EXCEPT ![n] = @ + 1]
     /\ UNCHANGED <<table, workers, handler, publisher, crashes>>

-----------------------------------------------------------------------------
\* The connection of n's worker p ends at k and k's thread for it is at pc.
At(n, p, k, pc) ==
  workers[n][p] = k /\ k \in Nodes /\ handler[n][p].pc = pc

Busy == {c \in Nodes \X PeerIds : handler[c[1]][c[2]].pc # "read"}

\* The thread reads the next frame (k has to be listening).
Reads(n, p, k, type) ==
  /\ At(n, p, k, "read") /\ step[k] > 0 /\ Cardinality(Busy) < MaxBusy
  /\ chan[n][p] # <<>> /\ Head(chan[n][p]).type = type

\* The peer table takes the node itself as a peer.
AddsSelf(n, p, k, peer, t) ==
  /\ peer \notin table[k]
  /\ table' = [table EXCEPT ![k] = @ \cup {peer}]
  /\ handler' = [handler EXCEPT ![n][p] =
                   [t EXCEPT !.pc = "ensure", !.peer = peer]]

\* peer_table.add_peer succeeds and on_peer_discovered is called.
add_new_peer(n, p, k, peer, t) ==
  /\ peer \notin table[k] \cup {node(k)}
  /\ table' = [table EXCEPT ![k] = @ \cup {peer}]
  /\ handler' = [handler EXCEPT ![n][p] =
                   [t EXCEPT !.pc = "ensure", !.peer = peer]]

\* A JOIN is answered, but its sender is not added to the table.
JoinOnlyAnswers(n, p, k) ==
  LET j == Head(chan[n][p]).sender
      t == [handler[n][p] EXCEPT !.pc = "list", !.msg = "JOIN_REQUEST", !.sender = j]
  IN /\ Reads(n, p, k, "JOIN_REQUEST")
     /\ chan' = [chan EXCEPT ![n][p] = Tail(@)]
     /\ handler' = IF j = k THEN handler ELSE [handler EXCEPT ![n][p] = t]
     /\ UNCHANGED <<step, table, workers, publisher, crashes>>

\* A JOIN from a peer already in the table is not answered.
JoinIgnoresKnown(n, p, k) ==
  LET j == Head(chan[n][p]).sender
      t == [handler[n][p] EXCEPT !.pc = "list", !.msg = "JOIN_REQUEST", !.sender = j]
  IN /\ Reads(n, p, k, "JOIN_REQUEST")
     /\ chan' = [chan EXCEPT ![n][p] = Tail(@)]
     /\ \/ node(j) \in table[k] \cup {node(k)} /\ UNCHANGED <<table, handler>>
        \/ add_new_peer(n, p, k, node(j), t)
     /\ UNCHANGED <<step, workers, publisher, crashes>>

\* handle_join_request up to add_peer; a JOIN from the node itself is ignored.
handle_join_request(n, p, k) ==
  LET j == Head(chan[n][p]).sender
      t == [handler[n][p] EXCEPT !.pc = "list", !.msg = "JOIN_REQUEST", !.sender = j]
  IN /\ Reads(n, p, k, "JOIN_REQUEST")
     /\ chan' = [chan EXCEPT ![n][p] = Tail(@)]
     /\ \/ j = k /\ UNCHANGED <<table, handler>>
        \/ add_new_peer(n, p, k, node(j), t)
        \/ /\ j # k /\ node(j) \in table[k]
           /\ handler' = [handler EXCEPT ![n][p] = t]
           /\ UNCHANGED table
     /\ UNCHANGED <<step, workers, publisher, crashes>>

\* handle_peer_list starts on its entries.
handle_peer_list(n, p, k) ==
  /\ Reads(n, p, k, "PEER_LIST")
  /\ chan' = [chan EXCEPT ![n][p] = Tail(@)]
  /\ handler' = [handler EXCEPT ![n][p] =
        [@ EXCEPT !.pc = "entries", !.msg = "PEER_LIST",
                  !.sender = Head(chan[n][p]).sender,
                  !.peers = Head(chan[n][p]).peers]]
  /\ UNCHANGED <<step, table, workers, publisher, crashes>>

\* The loop of handle_peer_list integrates an entry not known yet, or ends.
\* Entries already known, and the node itself, are passed over: that has no
\* effect, and an entry known once stays known.
integrate(n, p, k) ==
  /\ At(n, p, k, "entries")
  /\ \/ \E e \in handler[n][p].peers :
           add_new_peer(n, p, k, e, [handler[n][p] EXCEPT !.peers = @ \ {e}])
     \/ /\ handler[n][p].peers \subseteq table[k] \cup {node(k)}
        /\ handler' = [handler EXCEPT ![n][p] = Idle(n, p)]
        /\ UNCHANGED table
  /\ UNCHANGED <<step, workers, chan, publisher, crashes>>

\* A bootstrap@ id is taken to have its worker since start-up.
EnsureSkipsAlias(n, p, k) ==
  /\ At(n, p, k, "ensure")
  /\ LET q == handler[n][p].peer
     IN workers' = IF workers[k][q] = NoWorker /\ q.kind = "node"
                     THEN [workers EXCEPT ![k][q] = try_host(q)] ELSE workers
  /\ handler' = [handler EXCEPT ![n][p].pc = "discover"]
  /\ UNCHANGED <<step, table, chan, publisher, crashes>>

\* _ensure_client_peer: TcpClient.add_peer, whose RuntimeError is swallowed.
ensure_client_peer(n, p, k) ==
  /\ At(n, p, k, "ensure")
  /\ LET q == handler[n][p].peer
     IN workers' = IF workers[k][q] = NoWorker
                     THEN [workers EXCEPT ![k][q] = try_host(q)] ELSE workers
  /\ handler' = [handler EXCEPT ![n][p].pc = "discover"]
  /\ UNCHANGED <<step, table, chan, publisher, crashes>>

\* on_peer_discovered sends the new peer a JOIN_REQUEST.
discovery_join(n, p, k) ==
  /\ At(n, p, k, "discover")
  /\ send_json(k, handler[n][p].peer, Join(k))
  /\ handler' = [handler EXCEPT ![n][p].pc =
        IF handler[n][p].msg = "JOIN_REQUEST" THEN "list" ELSE "entries"]
  /\ UNCHANGED <<step, table, workers, publisher, crashes>>

\* The reply lists only the node that answers.
ListsItself(n, p, k) ==
  /\ At(n, p, k, "list")
  /\ handler' = [handler EXCEPT ![n][p] = [@ EXCEPT !.pc = "reply",
                                                    !.peers = {node(k)}]]
  /\ UNCHANGED <<step, table, workers, chan, publisher, crashes>>

\* handle_join_request takes its snapshot of the table.
list_peers(n, p, k) ==
  /\ At(n, p, k, "list")
  /\ handler' = [handler EXCEPT ![n][p] = [@ EXCEPT !.pc = "reply",
                                                    !.peers = table[k]]]
  /\ UNCHANGED <<step, table, workers, chan, publisher, crashes>>

\* The reply goes to the JOIN's sender; without a worker for it send_json
\* raises KeyError, the dispatcher re-raises and the thread reads on.
reply(n, p, k) ==
  LET q == node(handler[n][p].sender)
  IN /\ At(n, p, k, "reply")
     /\ IF workers[k][q] = NoWorker THEN UNCHANGED chan
        ELSE send_json(k, q, PeerList(k, handler[n][p].peers))
     /\ handler' = [handler EXCEPT ![n][p] = Idle(n, p)]
     /\ UNCHANGED <<step, table, workers, publisher, crashes>>

-----------------------------------------------------------------------------
\* _send_to_peer: the publisher has a listed peer without a worker.
publisher_miss(n, p) ==
  /\ n \in Producers /\ step[n] = Running(n) /\ publisher[n] = Nobody
  /\ p \in table[n] /\ workers[n][p] = NoWorker
  /\ publisher' = [publisher EXCEPT ![n] = p]
  /\ UNCHANGED <<step, table, workers, chan, handler, crashes>>

\* It adds a worker with the address as it was advertised; when a handler was
\* quicker, add_peer raises and this update is not sent.
publisher_add(n) ==
  /\ publisher[n] # Nobody
  /\ LET p == publisher[n]
     IN workers' = IF workers[n][p] = NoWorker
                     THEN [workers EXCEPT ![n][p] = raw_host(p)] ELSE workers
  /\ publisher' = [publisher EXCEPT ![n] = Nobody]
  /\ UNCHANGED <<step, table, chan, handler, crashes>>

-----------------------------------------------------------------------------
\* The process of n dies, after it began to listen (before, nobody notices).
crash(n) ==
  /\ n \in CrashProne /\ crashes < MaxCrashes /\ step[n] > 0
  /\ crashes' = crashes + 1
  /\ step' = [step EXCEPT ![n] = -1]
  /\ table' = [table EXCEPT ![n] = {}]
  /\ publisher' = [publisher EXCEPT ![n] = Nobody]
  /\ handler' = [m \in Nodes |-> [p \in PeerIds |->
        IF workers[m][p] = n THEN Idle(m, p) ELSE handler[m][p]]]
  /\ UNCHANGED <<workers, chan>>

\* A frame dies with it: written to its connection and not read, or still in
\* the queue of its own worker.
lose(n, p) ==
  /\ chan[n][p] # <<>>
  /\ \/ /\ step[n] = -1
        /\ chan' = [chan EXCEPT ![n][p] = SubSeq(@, 1, Len(@) - 1)]
     \/ /\ \E k \in Nodes : workers[n][p] = k /\ step[k] = -1
        /\ chan' = [chan EXCEPT ![n][p] = Tail(@)]
  /\ UNCHANGED <<step, table, workers, handler, publisher, crashes>>

\* It is started again, once its peers have read what it had sent (a container
\* takes seconds to restart).
restart(n) ==
  /\ step[n] = -1
  /\ \A p \in PeerIds : chan[n][p] = <<>> /\ handler[n][p].pc = "read"
  /\ step' = [step EXCEPT ![n] = 0]
  /\ workers' = [workers EXCEPT ![n] = bootstrap_workers(n)]
  /\ UNCHANGED <<table, chan, handler, publisher, crashes>>

main(n) == start_server(n) \/ seed(n) \/ bootstrap(n)

connection_thread(n, p) ==
  \E k \in Nodes :
     \/ handle_join_request(n, p, k) \/ handle_peer_list(n, p, k)
     \/ integrate(n, p, k) \/ ensure_client_peer(n, p, k)
     \/ discovery_join(n, p, k) \/ list_peers(n, p, k) \/ reply(n, p, k)

Next ==
  \E n \in Nodes :
     \/ main(n)
     \/ \E p \in PeerIds : connection_thread(n, p) \/ publisher_miss(n, p) \/ lose(n, p)
     \/ publisher_add(n)
     \/ crash(n) \/ restart(n)

Spec == Init /\ [][Next]_vars

\* What has begun goes on: start-up, frames that wait, handlers, a send of the
\* publisher, a restart.
progress ==
  \E n \in Nodes :
     \/ main(n) \/ publisher_add(n) \/ restart(n)
     \/ \E p \in PeerIds : connection_thread(n, p)

\* As long as some thread can go on, one does.
FairSpec == Spec /\ WF_vars(progress)

-----------------------------------------------------------------------------
\* Tables hold known ids, never a node's own; a worker connects to a node or
\* to nobody; threads and frames are well formed.
TypeOK ==
  /\ \A n \in Nodes : step[n] \in -1..Running(n)
  /\ table \in [Nodes -> SUBSET PeerIds]
  /\ \A n \in Nodes : node(n) \notin table[n]
  /\ workers \in [Nodes -> [PeerIds -> Nodes \cup {NoWorker, Unreachable}]]
  /\ chan \in [Nodes -> [PeerIds -> Seq(Message)]]
  /\ handler \in [Nodes -> [PeerIds -> Thread]]
  /\ publisher \in [Nodes -> PeerIds \cup {Nobody}]
  /\ crashes \in 0..MaxCrashes

\* The threads of node k: connections that end there.
ThreadsOf(k) == {c \in Nodes \X PeerIds : workers[c[1]][c[2]] = k}

\* A listed peer has a worker, or exactly the thread that listed it is about to
\* create one: whatever the threads and the publisher do in between, no peer
\* stays listed and unsendable, and a frame is only queued on a worker.
WiredOrPending ==
  /\ \A k \in Nodes, q \in PeerIds :
        q \in table[k] /\ workers[k][q] = NoWorker
        => Cardinality({c \in ThreadsOf(k) :
              /\ handler[c[1]][c[2]].pc = "ensure"
              /\ handler[c[1]][c[2]].peer = q}) = 1
  /\ \A k \in Nodes, q \in PeerIds : workers[k][q] = NoWorker => chan[k][q] = <<>>

\* Node k lists every other node by its own id and connects to it there.
Knows(k) ==
  \A m \in Nodes \ {k} : node(m) \in table[k] /\ workers[k][node(m)] = m

\* Every process runs, and no thread has anything left to read or to do.
Quiet ==
  /\ \A n \in Nodes : step[n] = Running(n)
  /\ \A n \in Nodes, p \in PeerIds :
        chan[n][p] = <<>> /\ handler[n][p].pc = "read"

\* When the JOIN_REQUEST / PEER_LIST exchange has died down, it has reached the
\* transitive closure: everyone knows everyone, also when replies were lost to
\* a missing worker.
GossipCloses == Quiet /\ crashes = 0 => \A k \in Nodes : Knows(k)

\* Node k lists every other node, under its own id or an alias, with a worker
\* that connects to it: k's updates reach everyone.
Reaches(k) ==
  \A m \in Nodes \ {k} : \E p \in table[k] : workers[k][p] = m

\* A node that dies at any moment and is started again re-integrates: when the
\* exchange has died down every node reaches every other one, although peers
\* that knew it before do not send it a JOIN_REQUEST again and frames were lost.
Reintegrates == Quiet => \A k \in Nodes : Reaches(k)

\* The exchange does die down and leaves full membership behind: every JOIN is
\* answered by a list, every new entry by a JOIN, yet this does not go on for
\* ever.
GossipSettles == <>[](Quiet /\ \A k \in Nodes : Knows(k))

\* A worker connects to the peer it was created for.
ConnectsToPeer ==
  \A k \in Nodes, q \in PeerIds : workers[k][q] \in {NoWorker, q.of}
=============================================================================
