------------------------ MODULE Reintegration_proofs ------------------------
(***************************************************************************)
(* Proofs about membership when processes die and are started again, and   *)
(* when nodes meet only through a third one: what Membership_proofs says   *)
(* of an exchange without a crash, for every number of crashes.            *)
(***************************************************************************)
EXTENDS Membership_proofs

\* The frames that wait on k's worker q, in whatever order.
Frames(k, q) == {chan[k][q][i] : i \in 1..Len(chan[k][q])}

\* Node m has not died.
Lasting(m) == m \notin CrashProne \/ crashes = 0

\* Workers connect to their peer or to nobody and carry their node's frames, those
\* for a bootstrap address only JOIN_REQUESTs; the thread at the other end deals
\* with one of these, or is between two.
Posted ==
  \A n \in Nodes, p \in PeerIds :
     /\ workers[n][p] \in {NoWorker, Unreachable, p.of}
     /\ \A x \in Frames(n, p) :
           x.sender = n /\ (p.kind = "bootstrap@" => x.type = "JOIN_REQUEST")
     /\ handler[n][p].sender = n
     /\ p.kind = "bootstrap@" => handler[n][p].msg = "JOIN_REQUEST"
     /\ handler[n][p].pc = "read" => handler[n][p] = Idle(n, p)

\* A bootstrap address has its worker while the process lives, and an entry in the
\* peer table once it was seeded; the publisher adds listed peers; a node that has
\* not died runs.
Started ==
  \A n \in Nodes :
     /\ \A i \in 1..Len(Bootstrap[n]) :
           /\ workers[n][alias(Bootstrap[n][i])] = Bootstrap[n][i]
           /\ step[n] > i => alias(Bootstrap[n][i]) \in table[n]
     /\ publisher[n] = Nobody \/ publisher[n] \in table[n]
     /\ Lasting(n) => step[n] # -1

\* A listed node has a worker that connects to it, or a JOIN_REQUEST for it waits
\* or is about to.
Reached ==
  \A k \in Nodes, q \in PeerIds : q.kind = "node" /\ q \in table[k] =>
     Underway(k, q) \/ Join(k) \in Frames(k, q) \/ workers[k][q] = q.of

\* Whoever lasts and was sent a JOIN_REQUEST at start-up lists its sender, or will.
Met ==
  \A k \in Nodes, q \in PeerIds : \A i \in 1..Len(Bootstrap[k]) :
     /\ q = alias(Bootstrap[k][i]) /\ q.of # k
     /\ Lasting(q.of) /\ step[k] > Len(Bootstrap[k]) + i
     => Join(k) \in Frames(k, q) \/ node(k) \in table[q.of]

\* What every step does for these: a process that lives keeps its list and its
\* workers, a new entry makes a thread send a JOIN_REQUEST, one that is about to be
\* sent is sent, and one that is gone has put its sender on a list, or was lost with
\* the process it was sent to.
Follows ==
  /\ \A k \in Nodes : Lasting(k)' => Lasting(k)
  /\ \A k \in Nodes : step[k] # -1 /\ step'[k] # -1 => table[k] \subseteq table'[k]
  /\ \A k \in Nodes, q \in PeerIds :
        q.kind = "node" /\ q \in table'[k] => q \in table[k] \/ Underway(k, q)'
  /\ \A k \in Nodes, q \in PeerIds :
        step[k] # -1 /\ workers[k][q] # NoWorker => workers'[k][q] = workers[k][q]
  /\ \A k \in Nodes, q \in PeerIds :
        step'[k] # -1 /\ Underway(k, q) => Underway(k, q)' \/ Join(k) \in Frames(k, q)'
  /\ \A k \in Nodes, q \in PeerIds :
        step'[k] # -1 /\ q.of # k /\ Join(k) \in Frames(k, q) =>
           \/ Join(k) \in Frames(k, q)'
           \/ workers[k][q] = q.of /\ (node(k) \in table'[q.of] \/ step[q.of] = -1)
  /\ \A k \in Nodes, q \in PeerIds : \A i \in 1..Len(Bootstrap[k]) :
        q = alias(Bootstrap[k][i]) /\ step'[k] > Len(Bootstrap[k]) + i =>
           step[k] > Len(Bootstrap[k]) + i \/ Join(k) \in Frames(k, q)'

-----------------------------------------------------------------------------
\* An empty queue has no frames, and only it.
LEMMA NoFrame ==
  ASSUME TypeOK, NEW n \in Nodes, NEW p \in PeerIds
  PROVE  chan[n][p] = <<>> <=> Frames(n, p) = {}
<1>1. chan[n][p] \in Seq(Message) /\ Len(chan[n][p]) \in Nat
  BY LenProperties DEF TypeOK
<1>2. chan[n][p] = <<>> <=> Len(chan[n][p]) = 0
  BY <1>1, EmptySeq
<1>3. Len(chan[n][p]) # 0 => chan[n][p][1] \in Frames(n, p)
  BY <1>1 DEF Frames
<1>4. Len(chan[n][p]) = 0 => Frames(n, p) = {}
  BY <1>1 DEF Frames
<1> QED
  BY <1>2, <1>3, <1>4

\* Frames are messages.
LEMMA FramesTyped ==
  ASSUME TypeOK, NEW n \in Nodes, NEW p \in PeerIds
  PROVE  Frames(n, p) \subseteq Message
<1>1. chan[n][p] \in Seq(Message)
  BY DEF TypeOK
<1> QED
  BY <1>1, ElementOfSeq DEF Frames

\* A step that leaves the queues alone leaves the frames.
LEMMA SameFrames ==
  ASSUME UNCHANGED chan
  PROVE  \A k \in Nodes, q \in PeerIds : Frames(k, q)' = Frames(k, q)
BY DEF Frames

\* A frame is queued.
LEMMA FrameSent ==
  ASSUME TypeOK, NEW n \in Nodes, NEW p \in PeerIds, NEW m \in Message, send_json(n, p, m)
  PROVE  \A k \in Nodes, q \in PeerIds :
            Frames(k, q)' = IF k = n /\ q = p THEN Frames(k, q) \cup {m} ELSE Frames(k, q)
<1> DEFINE s == chan[n][p]
<1>1. s \in Seq(Message) /\ Len(s) \in Nat
  BY LenProperties DEF TypeOK
<1>2. /\ chan'[n][p] = Append(s, m)
      /\ \A k \in Nodes, q \in PeerIds : k # n \/ q # p => chan'[k][q] = chan[k][q]
  BY DEF send_json, TypeOK
<1>3. /\ Len(Append(s, m)) = Len(s) + 1 /\ Append(s, m)[Len(s) + 1] = m
      /\ \A i \in 1..Len(s) : Append(s, m)[i] = s[i]
  BY <1>1, AppendProperties
<1>4. {Append(s, m)[i] : i \in 1..(Len(s) + 1)} = {s[i] : i \in 1..Len(s)} \cup {m}
  <2>1. 1..(Len(s) + 1) = 1..Len(s) \cup {Len(s) + 1}
    BY <1>1
  <2> HIDE DEF s
  <2> QED
    BY <1>3, <2>1
<1>5. Frames(n, p)' = Frames(n, p) \cup {m}
  BY <1>2, <1>3, <1>4 DEF Frames
<1>6. \A k \in Nodes, q \in PeerIds : k # n \/ q # p => Frames(k, q)' = Frames(k, q)
  BY <1>2 DEF Frames
<1> QED
  BY <1>5, <1>6

\* At most the frame x of n's worker p goes.
Drops(n, p, x) ==
  \A k \in Nodes, q \in PeerIds :
     /\ Frames(k, q)' \subseteq Frames(k, q)
     /\ Frames(k, q) \subseteq Frames(k, q)' \cup {x}
     /\ k # n \/ q # p => Frames(k, q)' = Frames(k, q)

\* A frame is read.
LEMMA FrameRead ==
  ASSUME TypeOK, NEW n \in Nodes, NEW p \in PeerIds, chan[n][p] # <<>>,
         chan' = [chan EXCEPT ![n][p] = Tail(@)]
  PROVE  Head(chan[n][p]) \in Frames(n, p) /\ Drops(n, p, Head(chan[n][p]))
<1> DEFINE s == chan[n][p]
           u == Tail(s)
<1>1. s \in Seq(Message) /\ Len(s) \in Nat /\ s # <<>>
  BY LenProperties DEF TypeOK
<1>2. /\ chan'[n][p] = u
      /\ \A k \in Nodes, q \in PeerIds : k # n \/ q # p => chan'[k][q] = chan[k][q]
  BY DEF TypeOK
<1>3. Len(s) > 0 /\ Head(s) = s[1]
  BY <1>1, EmptySeq
<1>4. Len(u) = Len(s) - 1 /\ \A i \in 1..Len(u) : u[i] = s[i + 1]
  BY <1>1, HeadTailProperties
<1> HIDE DEF u
<1>5. Frames(n, p)' = {u[i] : i \in 1..Len(u)} /\ Frames(n, p) = {s[i] : i \in 1..Len(s)}
  BY <1>2 DEF Frames
<1> HIDE DEF s
<1>6. ASSUME NEW i \in 1..Len(u) PROVE u[i] \in {s[j] : j \in 1..Len(s)}
  <2>1. i + 1 \in 1..Len(s) /\ u[i] = s[i + 1]
    BY <1>1, <1>3, <1>4
  <2> QED
    BY <2>1
<1>7. ASSUME NEW j \in 1..Len(s), j # 1 PROVE s[j] \in {u[i] : i \in 1..Len(u)}
  <2>1. j - 1 \in 1..Len(u) /\ (j - 1) + 1 = j
    BY <1>1, <1>3, <1>4, <1>7
  <2>2. u[j - 1] = s[j]
    BY <1>4, <2>1
  <2> QED
    BY <2>1, <2>2
<1>8. /\ Frames(n, p)' \subseteq Frames(n, p) /\ Head(s) \in Frames(n, p)
      /\ Frames(n, p) \subseteq Frames(n, p)' \cup {Head(s)}
  <2>1. 1 \in 1..Len(s)
    BY <1>1, <1>3
  <2> QED
    BY <1>3, <1>5, <1>6, <1>7, <2>1
<1>9. \A k \in Nodes, q \in PeerIds : k # n \/ q # p => Frames(k, q)' = Frames(k, q)
  BY <1>2 DEF Frames
<1> QED
  BY <1>8, <1>9 DEF Drops, s

\* A frame is lost.
LEMMA FrameLost ==
  ASSUME TypeOK, NEW n \in Nodes, NEW p \in PeerIds, lose(n, p)
  PROVE  \A k \in Nodes, q \in PeerIds :
            /\ Frames(k, q)' \subseteq Frames(k, q)
            /\ k # n \/ q # p => Frames(k, q)' = Frames(k, q)
<1>1. \A k \in Nodes, q \in PeerIds : k # n \/ q # p => chan'[k][q] = chan[k][q]
  BY DEF lose, TypeOK
<1>2. \A k \in Nodes, q \in PeerIds : k # n \/ q # p => Frames(k, q)' = Frames(k, q)
  BY <1>1 DEF Frames
<1>3. CASE chan' = [chan EXCEPT ![n][p] = Tail(@)]
  BY <1>2, <1>3, FrameRead DEF lose, Drops
<1>4. CASE chan' = [chan EXCEPT ![n][p] = SubSeq(@, 1, Len(@) - 1)]
  <2> DEFINE s == chan[n][p]
             u == SubSeq(s, 1, Len(s) - 1)
  <2>1. s \in Seq(Message) /\ Len(s) \in Nat /\ s # <<>> /\ chan'[n][p] = u
    BY <1>4, LenProperties DEF TypeOK, lose
  <2>2. Len(s) > 0
    BY <2>1, EmptySeq
  <2>3. Len(u) = Len(s) - 1 /\ \A i \in 1..Len(u) : u[i] = s[i]
    BY <2>1, <2>2
  <2>4. Frames(n, p)' = {u[i] : i \in 1..Len(u)} /\ Frames(n, p) = {s[i] : i \in 1..Len(s)}
    BY <2>1 DEF Frames
  <2> HIDE DEF s, u
  <2>5. \A i \in 1..Len(u) : i \in 1..Len(s)
    BY <2>1, <2>2, <2>3
  <2>6. Frames(n, p)' \subseteq Frames(n, p)
    BY <2>3, <2>4, <2>5
  <2> QED
    BY <1>2, <2>6
<1> QED
  BY <1>3, <1>4 DEF lose

-----------------------------------------------------------------------------
\* What stays when a thread of k does something for n's worker p.
Serves(n, p, k, pc) ==
  /\ workers[n][p] = k /\ p.of = k /\ step[k] > 0
  /\ handler[n][p].pc = pc /\ handler[n][p] \in Thread /\ handler[n][p].sender = n
  /\ step' = step /\ publisher' = publisher /\ crashes' = crashes

\* A thread that is at work, or reads, has been connected to its process.
LEMMA ServesFacts ==
  ASSUME IInv, Posted, NEW n \in Nodes, NEW p \in PeerIds, NEW k \in Nodes, NEW pc,
         At(n, p, k, pc), pc = "read" => step[k] > 0,
         UNCHANGED <<step, publisher, crashes>>
  PROVE  Serves(n, p, k, pc)
<1>1. handler[n][p] \in Thread /\ handler[n][p].sender = n
  BY DEF IInv, TypeOK, Posted
<1>2. workers[n][p] = k /\ k # NoWorker /\ k # Unreachable
  BY MembershipAssumption DEF At
<1>3. p.of = k
  BY <1>2 DEF Posted
<1>4. handler[n][p].pc = pc /\ step[k] > 0
  BY <1>2 DEF At, IInv, Hosted
<1> QED
  BY <1>1, <1>2, <1>3, <1>4 DEF Serves

\* The thread t after add_peer: it wires the sender, or knows it, or ignores itself.
Admits(n, p, k, t) ==
  /\ Becomes(n, p, t) /\ t.sender = n /\ t.msg = "JOIN_REQUEST" /\ t.peers = {}
  /\ n = k => t = Idle(n, p)
  /\ n # k => /\ t.pc = IF node(n) \in table[k] THEN "list" ELSE "ensure"
              /\ t.pc = "ensure" => t.peer = node(n)

\* handle_join_request reads a JOIN_REQUEST; its sender is listed then, unless it is
\* the node itself.
LEMMA JoinDoes ==
  ASSUME IInv, Posted, NEW n \in Nodes, NEW p \in PeerIds, NEW k \in Nodes,
         handle_join_request(n, p, k)
  PROVE  /\ Serves(n, p, k, "read") /\ workers' = workers
         /\ \E x \in Frames(n, p) : x.type = "JOIN_REQUEST" /\ Drops(n, p, x)
         /\ \A j \in Nodes :
               table'[j] = IF j = k /\ n # k THEN table[k] \cup {node(n)} ELSE table[j]
         /\ \E t \in Thread : Admits(n, p, k, t)
<1> DEFINE x == Head(chan[n][p])
           t == [handler[n][p] EXCEPT !.pc = "list", !.msg = "JOIN_REQUEST", !.sender = x.sender]
           u == [t EXCEPT !.pc = "ensure", !.peer = node(x.sender)]
<1> USE DEF IInv
<1>1. Serves(n, p, k, "read") /\ workers' = workers
  BY ServesFacts DEF handle_join_request, Reads, At
<1>2. x \in Frames(n, p) /\ x.type = "JOIN_REQUEST" /\ Drops(n, p, x)
  BY FrameRead DEF handle_join_request, Reads
<1>3. x.sender = n
  BY <1>2 DEF Posted
<1>4. handler[n][p] = Idle(n, p) /\ node(n) \in PeerIds
  BY <1>1, PeerIdFacts DEF Posted, Serves
<1>5. /\ t = [Idle(n, p) EXCEPT !.pc = "list", !.msg = "JOIN_REQUEST", !.sender = n]
      /\ u = [t EXCEPT !.pc = "ensure", !.peer = node(n)]
  BY <1>3, <1>4
<1>6. /\ t \in Thread /\ t.sender = n /\ t.msg = "JOIN_REQUEST" /\ t.peers = {} /\ t.pc = "list"
      /\ u \in Thread /\ u.sender = n /\ u.msg = "JOIN_REQUEST" /\ u.peers = {} /\ u.pc = "ensure"
      /\ u.peer = node(n)
  BY <1>4, <1>5 DEF Idle, Thread
<1>7. \/ n = k /\ UNCHANGED <<table, handler>>
      \/ /\ node(n) \notin table[k] \cup {node(k)}
         /\ table' = [table EXCEPT ![k] = @ \cup {node(n)}]
         /\ handler' = [handler EXCEPT ![n][p] = u]
      \/ /\ n # k /\ node(n) \in table[k]
         /\ handler' = [handler EXCEPT ![n][p] = t] /\ UNCHANGED table
  BY <1>3 DEF handle_join_request, add_new_peer
<1>8. table \in [Nodes -> SUBSET PeerIds]
  BY DEF TypeOK
<1> HIDE DEF x, t, u
<1>9. CASE n = k /\ UNCHANGED <<table, handler>>
  <2>1. Becomes(n, p, Idle(n, p)) /\ Idle(n, p) \in Thread
    BY <1>4, <1>9, RecordsTyped DEF Becomes
  <2>2. Idle(n, p).sender = n /\ Idle(n, p).msg = "JOIN_REQUEST" /\ Idle(n, p).peers = {}
    BY DEF Idle
  <2> QED
    BY <1>1, <1>2, <1>9, <2>1, <2>2 DEF Admits
<1>10. CASE /\ node(n) \notin table[k] \cup {node(k)}
            /\ table' = [table EXCEPT ![k] = @ \cup {node(n)}]
            /\ handler' = [handler EXCEPT ![n][p] = u]
  <2>1. Becomes(n, p, u) /\ n # k
    BY <1>6, <1>10, BecomesTyped
  <2>2. \A j \in Nodes : table'[j] = IF j = k THEN table[k] \cup {node(n)} ELSE table[j]
    BY <1>8, <1>10
  <2> QED
    BY <1>1, <1>2, <1>6, <1>10, <2>1, <2>2 DEF Admits
<1>11. CASE /\ n # k /\ node(n) \in table[k]
            /\ handler' = [handler EXCEPT ![n][p] = t] /\ UNCHANGED table
  <2>1. Becomes(n, p, t)
    BY <1>6, <1>11, BecomesTyped
  <2>2. \A j \in Nodes : table'[j] = IF j = k THEN table[k] \cup {node(n)} ELSE table[j]
    BY <1>11
  <2> QED
    BY <1>1, <1>2, <1>6, <1>11, <2>1, <2>2 DEF Admits
<1> QED
  BY <1>7, <1>9, <1>10, <1>11

\* handle_peer_list reads a PEER_LIST.
LEMMA ListDoes ==
  ASSUME IInv, Posted, NEW n \in Nodes, NEW p \in PeerIds, NEW k \in Nodes,
         handle_peer_list(n, p, k)
  PROVE  /\ Serves(n, p, k, "read") /\ workers' = workers /\ table' = table
         /\ \E x \in Frames(n, p), t \in Thread :
               /\ x.type = "PEER_LIST" /\ Drops(n, p, x) /\ Becomes(n, p, t)
               /\ t.pc = "entries" /\ t.sender = n /\ t.msg = "PEER_LIST" /\ t.peers = x.peers
<1> DEFINE x == Head(chan[n][p])
           t == [handler[n][p] EXCEPT !.pc = "entries", !.msg = "PEER_LIST",
                                      !.sender = x.sender, !.peers = x.peers]
<1> USE DEF IInv
<1>1. Serves(n, p, k, "read") /\ workers' = workers /\ table' = table
  BY ServesFacts DEF handle_peer_list, Reads, At
<1>2. x \in Frames(n, p) /\ x.type = "PEER_LIST" /\ Drops(n, p, x)
  BY FrameRead DEF handle_peer_list, Reads
<1>3. x.sender = n /\ x \in Message
  BY <1>2, FramesTyped DEF Posted
<1>4. /\ t \in Thread /\ t.pc = "entries" /\ t.sender = n /\ t.msg = "PEER_LIST"
      /\ t.peers = x.peers
  BY <1>1, <1>3 DEF Serves, Thread, Message
<1>5. handler' = [handler EXCEPT ![n][p] = t]
  BY DEF handle_peer_list, TypeOK
<1> HIDE DEF x, t
<1>6. Becomes(n, p, t)
  BY <1>4, <1>5, BecomesTyped
<1> QED
  BY <1>1, <1>2, <1>4, <1>6

\* k lists e, and the thread t wires it.
Enlists(n, p, k, e, t) ==
  /\ e \notin table[k] /\ e # node(k)
  /\ \A j \in Nodes : table'[j] = IF j = k THEN table[k] \cup {e} ELSE table[j]
  /\ Becomes(n, p, t) /\ t.pc = "ensure" /\ t.sender = n /\ t.peer = e
  /\ t.msg = handler[n][p].msg /\ t.peers = handler[n][p].peers \ {e}

\* The loop of handle_peer_list lists an entry, or there is none left to list.
LEMMA IntegrateDoes ==
  ASSUME IInv, Posted, NEW n \in Nodes, NEW p \in PeerIds, NEW k \in Nodes,
         integrate(n, p, k)
  PROVE  /\ Serves(n, p, k, "entries") /\ workers' = workers /\ chan' = chan
         /\ \/ \E e \in handler[n][p].peers, t \in Thread : Enlists(n, p, k, e, t)
            \/ /\ table' = table /\ Becomes(n, p, Idle(n, p))
               /\ handler[n][p].peers \subseteq table[k] \cup {node(k)}
<1> USE DEF IInv
<1>1. Serves(n, p, k, "entries") /\ workers' = workers /\ chan' = chan
  BY ServesFacts DEF integrate
<1>2. ASSUME NEW e \in handler[n][p].peers,
             add_new_peer(n, p, k, e, [handler[n][p] EXCEPT !.peers = @ \ {e}])
      PROVE  \E t \in Thread : Enlists(n, p, k, e, t)
  <2> DEFINE t == [[handler[n][p] EXCEPT !.peers = @ \ {e}] EXCEPT !.pc = "ensure", !.peer = e]
  <2>1. /\ t \in Thread /\ t.pc = "ensure" /\ t.sender = n /\ t.peer = e
        /\ t.msg = handler[n][p].msg /\ t.peers = handler[n][p].peers \ {e}
    BY <1>1 DEF Serves, Thread
  <2>2. handler' = [handler EXCEPT ![n][p] = t]
    BY <1>2 DEF add_new_peer
  <2> HIDE DEF t
  <2>3. Becomes(n, p, t)
    BY <2>1, <2>2, BecomesTyped
  <2>4. /\ e \notin table[k] /\ e # node(k)
        /\ \A j \in Nodes : table'[j] = IF j = k THEN table[k] \cup {e} ELSE table[j]
    BY <1>2 DEF add_new_peer, TypeOK
  <2> QED
    BY <2>1, <2>3, <2>4 DEF Enlists
<1>3. ASSUME handler' = [handler EXCEPT ![n][p] = Idle(n, p)]
      PROVE  Becomes(n, p, Idle(n, p))
  BY <1>3, RecordsTyped, BecomesTyped
<1> QED
  BY <1>1, <1>2, <1>3 DEF integrate

\* The thread goes on to pc and is otherwise the same.
MovesTo(n, p, pc) ==
  \E t \in Thread :
     /\ Becomes(n, p, t) /\ t.pc = pc /\ t.sender = n /\ t.msg = handler[n][p].msg
     /\ t.peer = handler[n][p].peer /\ t.peers = handler[n][p].peers

\* Only the pc of a thread changes.
LEMMA MoveEffect ==
  ASSUME TypeOK, NEW n \in Nodes, NEW p \in PeerIds, handler[n][p].sender = n,
         NEW pc \in {"discover", "list", "entries"}, handler' = [handler EXCEPT ![n][p].pc = pc]
  PROVE  MovesTo(n, p, pc)
<1> DEFINE t == [handler[n][p] EXCEPT !.pc = pc]
<1>1. handler[n][p] \in Thread
  BY DEF TypeOK
<1>2. /\ t \in Thread /\ t.pc = pc /\ t.sender = n /\ t.msg = handler[n][p].msg
      /\ t.peer = handler[n][p].peer /\ t.peers = handler[n][p].peers
  BY <1>1 DEF Thread
<1>3. handler' = [handler EXCEPT ![n][p] = t]
  BY DEF TypeOK
<1> HIDE DEF t
<1> QED
  BY <1>2, <1>3, BecomesTyped DEF MovesTo

\* A worker is added where there was none.
Adds(k, q, where) ==
  \A j \in Nodes, r \in PeerIds :
     workers'[j][r] = IF j = k /\ r = q /\ workers[k][q] = NoWorker THEN where ELSE workers[j][r]

\* _ensure_client_peer.
LEMMA EnsureDoes ==
  ASSUME IInv, Posted, NEW n \in Nodes, NEW p \in PeerIds, NEW k \in Nodes,
         ensure_client_peer(n, p, k)
  PROVE  /\ Serves(n, p, k, "ensure") /\ table' = table /\ chan' = chan
         /\ handler[n][p].peer \in table[k]
         /\ Adds(k, handler[n][p].peer, handler[n][p].peer.of) /\ MovesTo(n, p, "discover")
<1> USE DEF IInv
<1>1. Serves(n, p, k, "ensure") /\ table' = table /\ chan' = chan
  BY ServesFacts DEF ensure_client_peer
<1>2. handler[n][p].peer \in table[k]
  BY <1>1 DEF Serves, Wiring, Runs
<1>3. MovesTo(n, p, "discover")
  BY <1>1, MoveEffect DEF ensure_client_peer, Serves
<1>4. handler[n][p].peer \in PeerIds
  BY <1>1 DEF Serves, Thread
<1>5. Adds(k, handler[n][p].peer, handler[n][p].peer.of)
  BY <1>4 DEF ensure_client_peer, try_host, Adds, TypeOK
<1> QED
  BY <1>1, <1>2, <1>3, <1>5

\* on_peer_discovered sends its JOIN_REQUEST.
LEMMA DiscoverDoes ==
  ASSUME IInv, Posted, NEW n \in Nodes, NEW p \in PeerIds, NEW k \in Nodes,
         discovery_join(n, p, k)
  PROVE  /\ Serves(n, p, k, "discover") /\ table' = table /\ workers' = workers
         /\ handler[n][p].peer \in PeerIds
         /\ \A j \in Nodes, q \in PeerIds :
               Frames(j, q)' = IF j = k /\ q = handler[n][p].peer
                                 THEN Frames(j, q) \cup {Join(k)} ELSE Frames(j, q)
         /\ MovesTo(n, p, IF handler[n][p].msg = "JOIN_REQUEST" THEN "list" ELSE "entries")
<1> USE DEF IInv
<1>1. Serves(n, p, k, "discover") /\ table' = table /\ workers' = workers
  BY ServesFacts DEF discovery_join
<1>2. PICK q \in PeerIds : q = handler[n][p].peer
  BY <1>1 DEF Serves, Thread
<1>3. Join(k) \in Message
  BY RecordsTyped
<1>4. send_json(k, q, Join(k))
  BY <1>2 DEF discovery_join
<1>5. \A j \in Nodes, r \in PeerIds :
         Frames(j, r)' = IF j = k /\ r = q THEN Frames(j, r) \cup {Join(k)} ELSE Frames(j, r)
  BY <1>3, <1>4, FrameSent
<1>6. MovesTo(n, p, IF handler[n][p].msg = "JOIN_REQUEST" THEN "list" ELSE "entries")
  BY <1>1, MoveEffect DEF discovery_join, Serves
<1> QED
  BY <1>1, <1>2, <1>5, <1>6

\* handle_join_request takes its snapshot.
LEMMA SnapshotDoes ==
  ASSUME IInv, Posted, NEW n \in Nodes, NEW p \in PeerIds, NEW k \in Nodes,
         list_peers(n, p, k)
  PROVE  /\ Serves(n, p, k, "list") /\ table' = table /\ workers' = workers /\ chan' = chan
         /\ \E t \in Thread :
               /\ Becomes(n, p, t) /\ t.pc = "reply" /\ t.sender = n
               /\ t.msg = handler[n][p].msg /\ t.peers = table[k]
<1> DEFINE t == [handler[n][p] EXCEPT !.pc = "reply", !.peers = table[k]]
<1> USE DEF IInv
<1>1. Serves(n, p, k, "list") /\ table' = table /\ workers' = workers /\ chan' = chan
  BY ServesFacts DEF list_peers
<1>2. table[k] \in SUBSET PeerIds
  BY DEF TypeOK
<1>3. /\ t \in Thread /\ t.pc = "reply" /\ t.sender = n
      /\ t.msg = handler[n][p].msg /\ t.peers = table[k]
  BY <1>1, <1>2 DEF Serves, Thread
<1>4. handler' = [handler EXCEPT ![n][p] = t]
  BY DEF list_peers, TypeOK
<1> HIDE DEF t
<1> QED
  BY <1>1, <1>3, <1>4, BecomesTyped

\* It replies, if the JOIN_REQUEST's sender has a worker.
LEMMA ReplyDoes ==
  ASSUME IInv, Posted, NEW n \in Nodes, NEW p \in PeerIds, NEW k \in Nodes,
         reply(n, p, k)
  PROVE  /\ Serves(n, p, k, "reply") /\ table' = table /\ workers' = workers
         /\ Becomes(n, p, Idle(n, p))
         /\ \A j \in Nodes, q \in PeerIds :
               Frames(j, q)' =
                  IF j = k /\ q = node(n) /\ workers[k][node(n)] # NoWorker
                    THEN Frames(j, q) \cup {PeerList(k, handler[n][p].peers)}
                    ELSE Frames(j, q)
<1> USE DEF IInv
<1>1. Serves(n, p, k, "reply") /\ table' = table /\ workers' = workers
  BY ServesFacts DEF reply
<1>2. Becomes(n, p, Idle(n, p))
  BY RecordsTyped, BecomesTyped DEF reply
<1>3. node(n) \in PeerIds /\ handler[n][p].peers \in SUBSET PeerIds /\ handler[n][p].sender = n
  BY <1>1, PeerIdFacts DEF Serves, Thread
<1>4. PICK m \in Message : m = PeerList(k, handler[n][p].peers)
  BY <1>3, RecordsTyped
<1>5. CASE workers[k][node(n)] = NoWorker
  BY <1>1, <1>2, <1>3, <1>5, SameFrames DEF reply
<1>6. CASE workers[k][node(n)] # NoWorker
  <2>1. send_json(k, node(n), m)
    BY <1>3, <1>4, <1>6 DEF reply
  <2>2. \A j \in Nodes, q \in PeerIds :
           Frames(j, q)' = IF j = k /\ q = node(n) THEN Frames(j, q) \cup {m} ELSE Frames(j, q)
    BY <1>3, <2>1, FrameSent
  <2> QED
    BY <1>1, <1>2, <1>4, <1>6, <2>2
<1> QED
  BY <1>5, <1>6

-----------------------------------------------------------------------------
\* What keeps Posted: a new frame is its node's, a thread goes on with its frame or
\* is done with it.
LEMMA PostedKept ==
  ASSUME Posted,
         \A j \in Nodes, q \in PeerIds :
            /\ workers'[j][q] \in {workers[j][q], NoWorker, Unreachable, q.of}
            /\ \A x \in Frames(j, q)' :
                  \/ x \in Frames(j, q)
                  \/ x.sender = j /\ (q.kind = "bootstrap@" => x.type = "JOIN_REQUEST")
            /\ \/ handler'[j][q] = handler[j][q] \/ handler'[j][q] = Idle(j, q)
               \/ /\ handler'[j][q].sender = j /\ handler'[j][q].pc # "read"
                  /\ q.kind = "bootstrap@" => handler'[j][q].msg = "JOIN_REQUEST"
  PROVE  Posted'
<1> SUFFICES ASSUME NEW n \in Nodes, NEW p \in PeerIds
             PROVE  /\ workers'[n][p] \in {NoWorker, Unreachable, p.of}
                    /\ \A x \in Frames(n, p)' :
                          x.sender = n /\ (p.kind = "bootstrap@" => x.type = "JOIN_REQUEST")
                    /\ handler'[n][p].sender = n
                    /\ p.kind = "bootstrap@" => handler'[n][p].msg = "JOIN_REQUEST"
                    /\ handler'[n][p].pc = "read" => handler'[n][p] = Idle(n, p)
  BY DEF Posted, Idle
<1>1. workers'[n][p] \in {NoWorker, Unreachable, p.of}
  BY DEF Posted
<1>2. \A x \in Frames(n, p)' :
         x.sender = n /\ (p.kind = "bootstrap@" => x.type = "JOIN_REQUEST")
  BY DEF Posted
<1>3. Idle(n, p).sender = n /\ Idle(n, p).msg = "JOIN_REQUEST"
  BY DEF Idle
<1>4. /\ handler'[n][p].sender = n
      /\ p.kind = "bootstrap@" => handler'[n][p].msg = "JOIN_REQUEST"
      /\ handler'[n][p].pc = "read" => handler'[n][p] = Idle(n, p)
  BY <1>3 DEF Posted
<1> QED
  BY <1>1, <1>2, <1>4

\* What keeps Started while no process dies or restarts.
LEMMA StartedKept ==
  ASSUME IInv, Started, crashes' = crashes,
         \A j \in Nodes : table[j] \subseteq table'[j],
         \A j \in Nodes, q \in PeerIds :
            workers[j][q] # NoWorker => workers'[j][q] = workers[j][q],
         \A j \in Nodes : publisher'[j] \in {publisher[j], Nobody} \cup table[j],
         \A j \in Nodes : step'[j] = -1 => step[j] = -1,
         \A j \in Nodes : \A i \in 1..Len(Bootstrap[j]) :
            step'[j] > i => step[j] > i \/ alias(Bootstrap[j][i]) \in table'[j]
  PROVE  Started'
<1> SUFFICES ASSUME NEW n \in Nodes
             PROVE  /\ \A i \in 1..Len(Bootstrap[n]) :
                          /\ workers'[n][alias(Bootstrap[n][i])] = Bootstrap[n][i]
                          /\ step'[n] > i => alias(Bootstrap[n][i]) \in table'[n]
                    /\ publisher'[n] = Nobody \/ publisher'[n] \in table'[n]
                    /\ Lasting(n) => step'[n] # -1
  BY DEF Started, Lasting, alias
<1>1. ASSUME NEW i \in 1..Len(Bootstrap[n])
      PROVE  /\ workers'[n][alias(Bootstrap[n][i])] = Bootstrap[n][i]
             /\ step'[n] > i => alias(Bootstrap[n][i]) \in table'[n]
  <2>1. Bootstrap[n][i] \in Nodes /\ alias(Bootstrap[n][i]) \in PeerIds
    BY BootstrapFacts
  <2>2. workers[n][alias(Bootstrap[n][i])] = Bootstrap[n][i]
    BY DEF Started
  <2>3. workers'[n][alias(Bootstrap[n][i])] = Bootstrap[n][i]
    BY <2>1, <2>2, MembershipAssumption
  <2>4. step[n] > i => alias(Bootstrap[n][i]) \in table[n]
    BY DEF Started
  <2> QED
    BY <2>3, <2>4
<1>2. publisher'[n] = Nobody \/ publisher'[n] \in table'[n]
  <2>1. publisher[n] = Nobody \/ publisher[n] \in table[n]
    BY DEF Started
  <2> QED
    BY <2>1
<1>3. Lasting(n) => step'[n] # -1
  BY DEF Started
<1> QED
  BY <1>1, <1>2, <1>3

\* What every step keeps and does.
Carries == Posted' /\ Started' /\ Follows

\* start_server, seed and bootstrap.
LEMMA MainCarries ==
  ASSUME IInv, Posted, Started, NEW n \in Nodes, main(n)
  PROVE  Carries
<1> USE DEF IInv
<1>1. /\ workers' = workers /\ handler' = handler /\ publisher' = publisher
      /\ crashes' = crashes /\ step \in [Nodes -> Int]
  BY DEF main, start_server, seed, bootstrap, Hosted
<1>2. \A k \in Nodes, q \in PeerIds : Underway(k, q) => Underway(k, q)'
  BY <1>1 DEF Underway
<1>3. \A m \in Nodes : Len(Bootstrap[m]) \in Nat
  BY BootstrapFacts
<1>4. \A k \in Nodes : Lasting(k)' => Lasting(k)
  BY <1>1 DEF Lasting
<1>5. CASE start_server(n) \/ seed(n)
  <2>1. \A k \in Nodes, q \in PeerIds : Frames(k, q)' = Frames(k, q)
    BY <1>5, SameFrames DEF start_server, seed
  <2>2. Posted'
    BY <1>1, <2>1, PostedKept
  <2>3. PICK b : UNCHANGED table \/ table' = [table EXCEPT ![n] = @ \cup {alias(b)}]
    BY <1>5 DEF start_server, seed
  <2>4. \A k \in Nodes : table[k] \subseteq table'[k] /\ table'[k] \subseteq table[k] \cup {alias(b)}
    BY <2>3 DEF TypeOK
  <2>5. \A k \in Nodes, q \in PeerIds : q.kind = "node" /\ q \in table'[k] => q \in table[k]
    BY <2>4, PeerIdFacts
  <2>6. /\ \A m \in Nodes : m # n => step'[m] = step[m]
        /\ step[n] >= 0 /\ step'[n] = step[n] + 1 /\ step'[n] <= Len(Bootstrap[n]) + 1
    BY <1>1, <1>3, <1>5 DEF start_server, seed
  <2>7. ASSUME NEW j \in Nodes, NEW i \in 1..Len(Bootstrap[j]), step'[j] > i
        PROVE  step[j] > i \/ alias(Bootstrap[j][i]) \in table'[j]
    <3>1. CASE step[j] > i
      BY <3>1
    <3>2. CASE ~(step[j] > i)
      <4>1. j = n /\ step[n] = i
        BY <1>1, <1>3, <2>6, <2>7, <3>2
      <4>2. seed(n)
        BY <1>5, <4>1 DEF start_server
      <4> QED
        BY <4>1, <4>2 DEF seed, TypeOK
    <3> QED
      BY <3>1, <3>2
  <2>8. \A j \in Nodes : step'[j] = -1 => step[j] = -1
    BY <1>1, <2>6
  <2>9. Started'
    BY <1>1, <2>4, <2>7, <2>8, StartedKept
  <2>10. ASSUME NEW m \in Nodes, NEW i \in 1..Len(Bootstrap[m]), step'[m] > Len(Bootstrap[m]) + i
         PROVE  step[m] > Len(Bootstrap[m]) + i
    BY <1>1, <1>3, <2>6, <2>10
  <2>11. Follows
    BY <1>1, <1>2, <1>4, <2>1, <2>4, <2>5, <2>10 DEF Follows
  <2> QED
    BY <2>2, <2>9, <2>11 DEF Carries
<1>6. CASE bootstrap(n)
  <2> DEFINE L == Len(Bootstrap[n])
  <2>1. PICK i0 \in 1..L : step[n] = L + i0
    <3>1. step[n] - L \in 1..L /\ step[n] = L + (step[n] - L)
      BY <1>1, <1>3, <1>6 DEF bootstrap
    <3> QED
      BY <3>1
  <2>2. PICK p \in PeerIds : p = alias(Bootstrap[n][i0])
    BY BootstrapFacts
  <2>3. table' = table /\ send_json(n, p, Join(n))
    <3>1. step[n] - L = i0
      BY <1>1, <1>3, <2>1
    <3> QED
      BY <1>6, <2>2, <3>1 DEF bootstrap
  <2>4. step'[n] = step[n] + 1 /\ \A m \in Nodes : m # n => step'[m] = step[m]
    BY <1>1, <1>6 DEF bootstrap
  <2>5. PICK x \in Message : x = Join(n) /\ x.sender = n /\ x.type = "JOIN_REQUEST"
    BY RecordsTyped DEF Join
  <2>6. \A k \in Nodes, q \in PeerIds :
           Frames(k, q)' = IF k = n /\ q = p THEN Frames(k, q) \cup {x} ELSE Frames(k, q)
    BY <2>3, <2>5, FrameSent
  <2>7. Posted'
    BY <1>1, <2>5, <2>6, PostedKept
  <2>8. ASSUME NEW j \in Nodes, NEW i \in 1..Len(Bootstrap[j]), step'[j] > i
        PROVE  step[j] > i
    <3>1. CASE j # n
      BY <2>4, <2>8, <3>1
    <3>2. CASE j = n
      BY <1>1, <1>3, <2>1, <3>2
    <3> QED
      BY <3>1, <3>2
  <2>9. \A j \in Nodes : step'[j] = -1 => step[j] = -1
    BY <1>1, <1>3, <2>1, <2>4
  <2>10. Started'
    BY <1>1, <2>3, <2>8, <2>9, StartedKept
  <2>11. ASSUME NEW m \in Nodes, NEW q \in PeerIds, NEW i \in 1..Len(Bootstrap[m]),
                q = alias(Bootstrap[m][i]), step'[m] > Len(Bootstrap[m]) + i
         PROVE  step[m] > Len(Bootstrap[m]) + i \/ Join(m) \in Frames(m, q)'
    <3>1. CASE m # n
      BY <2>4, <2>11, <3>1
    <3>2. CASE m = n /\ i = i0
      BY <2>2, <2>5, <2>6, <2>11, <3>2
    <3>3. CASE m = n /\ i # i0
      BY <1>1, <1>3, <2>1, <2>4, <2>11, <3>3
    <3> QED
      BY <3>1, <3>2, <3>3
  <2>12. Follows
    BY <1>1, <1>2, <1>4, <2>3, <2>6, <2>11 DEF Follows
  <2> QED
    BY <2>7, <2>10, <2>12 DEF Carries
<1> QED
  BY <1>5, <1>6 DEF main

\* A thread goes on while processes live and no worker is added: what is left to
\* show of the thread and of the frames.
LEMMA ThreadCarries ==
  ASSUME IInv, Posted, Started, NEW n \in Nodes, NEW p \in PeerIds, NEW k \in Nodes,
         NEW pc, Serves(n, p, k, pc), workers' = workers, NEW t, Becomes(n, p, t),
         \/ t = handler[n][p] \/ t = Idle(n, p)
         \/ /\ t.sender = n /\ t.pc # "read"
            /\ p.kind = "bootstrap@" => t.msg = "JOIN_REQUEST",
         \A j \in Nodes, q \in PeerIds : \A x \in Frames(j, q)' :
            \/ x \in Frames(j, q)
            \/ x.sender = j /\ (q.kind = "bootstrap@" => x.type = "JOIN_REQUEST"),
         \A j \in Nodes : table[j] \subseteq table'[j],
         \A j \in Nodes, q \in PeerIds :
            q \in table'[j] => q \in table[j] \/ (j = k /\ t.pc = "ensure" /\ t.peer = q),
         \A q \in PeerIds :
            pc \in {"ensure", "discover"} /\ handler[n][p].peer = q => Join(k) \in Frames(k, q)',
         \A j \in Nodes, q \in PeerIds :
            q.of # j /\ Join(j) \in Frames(j, q) =>
               Join(j) \in Frames(j, q)' \/ (workers[j][q] = q.of /\ node(j) \in table'[q.of])
  PROVE  Carries
<1>1. step' = step /\ publisher' = publisher /\ crashes' = crashes /\ workers[n][p] = k
      /\ handler[n][p].pc = pc
  BY DEF Serves
<1>2. \A m \in Nodes, r \in PeerIds :
         handler'[m][r] = IF m = n /\ r = p THEN t ELSE handler[m][r]
  BY DEF Becomes
<1>3. Posted'
  BY <1>2, PostedKept
<1>4. Started'
  BY <1>1, StartedKept
<1>5. \A j \in Nodes : Lasting(j)' => Lasting(j)
  BY <1>1 DEF Lasting
<1>6. ASSUME NEW j \in Nodes, NEW q \in PeerIds, Underway(j, q)
      PROVE  Underway(j, q)' \/ Join(j) \in Frames(j, q)'
  <2>1. PICK a \in Nodes, r \in PeerIds :
           /\ workers[a][r] = j /\ handler[a][r].pc \in {"ensure", "discover"}
           /\ handler[a][r].peer = q
    BY <1>6 DEF Underway
  <2>2. CASE a = n /\ r = p
    BY <1>1, <2>1, <2>2
  <2>3. CASE ~(a = n /\ r = p)
    <3>1. handler'[a][r] = handler[a][r] /\ workers'[a][r] = workers[a][r]
      BY <1>2, <2>3
    <3> QED
      BY <2>1, <3>1 DEF Underway
  <2> QED
    BY <2>2, <2>3
<1>7. ASSUME NEW j \in Nodes, NEW q \in PeerIds, q \in table'[j]
      PROVE  q \in table[j] \/ Underway(j, q)'
  <2>1. CASE j = k /\ t.pc = "ensure" /\ t.peer = q
    <3>1. workers'[n][p] = j /\ handler'[n][p].pc = "ensure" /\ handler'[n][p].peer = q
      BY <1>1, <1>2, <2>1
    <3> QED
      BY <3>1 DEF Underway
  <2> QED
    BY <1>7, <2>1
<1>8. Follows
  BY <1>1, <1>5, <1>6, <1>7 DEF Follows
<1> QED
  BY <1>3, <1>4, <1>8 DEF Carries

\* A frame that is read, or an entry that is integrated.
LEMMA ReadCarries ==
  ASSUME IInv, Posted, Started, NEW n \in Nodes, NEW p \in PeerIds, NEW k \in Nodes,
         handle_join_request(n, p, k) \/ handle_peer_list(n, p, k) \/ integrate(n, p, k)
  PROVE  Carries
<1>1. CASE handle_join_request(n, p, k)
  <2>1. /\ Serves(n, p, k, "read") /\ workers' = workers
        /\ \E x \in Frames(n, p) : x.type = "JOIN_REQUEST" /\ Drops(n, p, x)
        /\ \A j \in Nodes :
              table'[j] = IF j = k /\ n # k THEN table[k] \cup {node(n)} ELSE table[j]
        /\ \E t \in Thread : Admits(n, p, k, t)
    BY <1>1, JoinDoes, Zenon
  <2>2. PICK x \in Frames(n, p) : x.type = "JOIN_REQUEST" /\ Drops(n, p, x)
    BY <2>1
  <2>3. PICK t \in Thread : Admits(n, p, k, t)
    BY <2>1
  <2>4. \A j \in Nodes, q \in PeerIds : Frames(j, q)' \subseteq Frames(j, q)
    BY <2>2 DEF Drops
  <2>5. ASSUME NEW j \in Nodes, NEW q \in PeerIds, q.of # j, Join(j) \in Frames(j, q)
        PROVE  Join(j) \in Frames(j, q)' \/ (workers[j][q] = q.of /\ node(j) \in table'[q.of])
    <3>1. CASE j = n /\ q = p
      BY <2>1, <2>5, <3>1 DEF Serves
    <3>2. CASE ~(j = n /\ q = p)
      BY <2>2, <2>5, <3>2 DEF Drops
    <3> QED
      BY <3>1, <3>2
  <2>6. \/ t = Idle(n, p)
        \/ /\ t.sender = n /\ t.pc # "read"
           /\ p.kind = "bootstrap@" => t.msg = "JOIN_REQUEST"
    BY <2>3 DEF Admits
  <2>7. \A j \in Nodes, q \in PeerIds :
            q \in table'[j] => q \in table[j] \/ (j = k /\ t.pc = "ensure" /\ t.peer = q)
    BY <2>1, <2>3 DEF Admits
  <2>8. \A j \in Nodes : table[j] \subseteq table'[j]
    BY <2>1
  <2> QED
    BY <2>1, <2>3, <2>4, <2>5, <2>6, <2>7, <2>8, ThreadCarries DEF Admits
<1>2. CASE handle_peer_list(n, p, k)
  <2>1. Serves(n, p, k, "read") /\ workers' = workers /\ table' = table
    BY <1>2, ListDoes
  <2>2. PICK x \in Frames(n, p), t \in Thread :
               /\ x.type = "PEER_LIST" /\ Drops(n, p, x) /\ Becomes(n, p, t)
               /\ t.pc = "entries" /\ t.sender = n /\ t.msg = "PEER_LIST" /\ t.peers = x.peers
    BY <1>2, ListDoes
  <2>3. p.kind # "bootstrap@"
    BY <2>2 DEF Posted
  <2>4. \A j \in Nodes, q \in PeerIds :
           /\ Frames(j, q)' \subseteq Frames(j, q)
           /\ Join(j) \in Frames(j, q) => Join(j) \in Frames(j, q)'
    <3>1. \A j : Join(j) # x
      BY <2>2 DEF Join
    <3> QED
      BY <2>2, <3>1 DEF Drops
  <2> QED
    BY <2>1, <2>2, <2>3, <2>4, ThreadCarries
<1>3. CASE integrate(n, p, k)
  <2>1. Serves(n, p, k, "entries") /\ workers' = workers /\ chan' = chan
    BY <1>3, IntegrateDoes
  <2>2. \A j \in Nodes, q \in PeerIds : Frames(j, q)' = Frames(j, q)
    BY <2>1, SameFrames
  <2>3. CASE \E e \in handler[n][p].peers, t \in Thread : Enlists(n, p, k, e, t)
    <3>1. PICK e \in handler[n][p].peers, t \in Thread : Enlists(n, p, k, e, t)
      BY <2>3
    <3>2. p.kind = "bootstrap@" => t.msg = "JOIN_REQUEST"
      BY <3>1 DEF Posted, Enlists
    <3>3. \A j \in Nodes, q \in PeerIds :
            q \in table'[j] => q \in table[j] \/ (j = k /\ t.pc = "ensure" /\ t.peer = q)
      BY <3>1 DEF Enlists
    <3>4. \A j \in Nodes : table[j] \subseteq table'[j]
      BY <3>1 DEF Enlists
    <3> QED
      BY <2>1, <2>2, <3>1, <3>2, <3>3, <3>4, ThreadCarries DEF Enlists
  <2>4. CASE table' = table /\ Becomes(n, p, Idle(n, p))
    BY <2>1, <2>2, <2>4, ThreadCarries
  <2> QED
    BY <1>3, <2>3, <2>4, IntegrateDoes
<1> QED
  BY <1>1, <1>2, <1>3

\* What a thread sends, and its snapshot.
LEMMA AnswerCarries ==
  ASSUME IInv, Posted, Started, NEW n \in Nodes, NEW p \in PeerIds, NEW k \in Nodes,
         discovery_join(n, p, k) \/ list_peers(n, p, k) \/ reply(n, p, k)
  PROVE  Carries
<1>1. CASE discovery_join(n, p, k)
  <2> DEFINE pc == IF handler[n][p].msg = "JOIN_REQUEST" THEN "list" ELSE "entries"
  <2>1. /\ Serves(n, p, k, "discover") /\ table' = table /\ workers' = workers
        /\ \A j \in Nodes, q \in PeerIds :
              Frames(j, q)' = IF j = k /\ q = handler[n][p].peer
                                THEN Frames(j, q) \cup {Join(k)} ELSE Frames(j, q)
        /\ MovesTo(n, p, pc)
    BY <1>1, DiscoverDoes
  <2>2. PICK t \in Thread :
           /\ Becomes(n, p, t) /\ t.pc = pc /\ t.sender = n /\ t.msg = handler[n][p].msg
    BY <2>1 DEF MovesTo
  <2>3. p.kind = "bootstrap@" => t.msg = "JOIN_REQUEST"
    BY <2>2 DEF Posted
  <2>4. Join(k).sender = k /\ Join(k).type = "JOIN_REQUEST"
    BY DEF Join
  <2>5. t.pc # "read"
    BY <2>2
  <2> HIDE DEF pc
  <2> QED
    BY <2>1, <2>2, <2>3, <2>4, <2>5, ThreadCarries
<1>2. CASE list_peers(n, p, k)
  <2>1. Serves(n, p, k, "list") /\ table' = table /\ workers' = workers /\ chan' = chan
    BY <1>2, SnapshotDoes
  <2>2. PICK t \in Thread :
               /\ Becomes(n, p, t) /\ t.pc = "reply" /\ t.sender = n
               /\ t.msg = handler[n][p].msg /\ t.peers = table[k]
    BY <1>2, SnapshotDoes
  <2>3. p.kind = "bootstrap@" => t.msg = "JOIN_REQUEST"
    BY <2>2 DEF Posted
  <2>4. \A j \in Nodes, q \in PeerIds : Frames(j, q)' = Frames(j, q)
    BY <2>1, SameFrames
  <2> QED
    BY <2>1, <2>2, <2>3, <2>4, ThreadCarries
<1>3. CASE reply(n, p, k)
  <2>1. /\ Serves(n, p, k, "reply") /\ table' = table /\ workers' = workers
        /\ Becomes(n, p, Idle(n, p))
    BY <1>3, ReplyDoes
  <2>2. PICK x : x = PeerList(k, handler[n][p].peers)
    OBVIOUS
  <2>3. \A j \in Nodes, q \in PeerIds :
               Frames(j, q)' =
                  IF j = k /\ q = node(n) /\ workers[k][node(n)] # NoWorker
                    THEN Frames(j, q) \cup {x} ELSE Frames(j, q)
    BY <1>3, <2>2, ReplyDoes
  <2>4. x.sender = k /\ node(n).kind # "bootstrap@"
    BY <2>2 DEF PeerList, node
  <2>5. \A j \in Nodes, q \in PeerIds : \A y \in Frames(j, q)' :
            \/ y \in Frames(j, q)
            \/ y.sender = j /\ (q.kind = "bootstrap@" => y.type = "JOIN_REQUEST")
    BY <2>3, <2>4
  <2>6. \A j \in Nodes, q \in PeerIds : Frames(j, q) \subseteq Frames(j, q)'
    BY <2>3
  <2> QED
    BY <2>1, <2>5, <2>6, ThreadCarries
<1> QED
  BY <1>1, <1>2, <1>3

\* _ensure_client_peer and the publisher: a worker is added where there was none.
LEMMA AddCarries ==
  ASSUME IInv, Posted, Started, NEW n \in Nodes,
         \/ \E p \in PeerIds, k \in Nodes : ensure_client_peer(n, p, k)
         \/ publisher_add(n) \/ \E p \in PeerIds : publisher_miss(n, p)
  PROVE  Carries
<1> USE DEF IInv
<1>1. step' = step /\ table' = table /\ chan' = chan /\ crashes' = crashes
  BY DEF ensure_client_peer, publisher_add, publisher_miss
<1>2. \A j \in Nodes, q \in PeerIds : Frames(j, q)' = Frames(j, q)
  BY <1>1, SameFrames
<1>3. /\ \A j \in Nodes, r \in PeerIds :
            /\ workers[j][r] # NoWorker => workers'[j][r] = workers[j][r]
            /\ workers'[j][r] \in {workers[j][r], Unreachable, r.of}
      /\ \A j \in Nodes : publisher'[j] \in {publisher[j], Nobody} \cup table[j]
      /\ \A j \in Nodes, r \in PeerIds :
            \/ handler'[j][r] = handler[j][r]
            \/ /\ handler'[j][r].sender = j /\ handler'[j][r].pc = "discover"
               /\ handler'[j][r].peer = handler[j][r].peer
               /\ handler'[j][r].msg = handler[j][r].msg
  <2>1. ASSUME NEW p \in PeerIds, NEW k \in Nodes, ensure_client_peer(n, p, k)
        PROVE  /\ \A j \in Nodes, r \in PeerIds :
                     /\ workers[j][r] # NoWorker => workers'[j][r] = workers[j][r]
                     /\ workers'[j][r] \in {workers[j][r], Unreachable, r.of}
               /\ publisher' = publisher
               /\ \A j \in Nodes, r \in PeerIds :
                     \/ handler'[j][r] = handler[j][r]
                     \/ /\ handler'[j][r].sender = j /\ handler'[j][r].pc = "discover"
                        /\ handler'[j][r].peer = handler[j][r].peer
                        /\ handler'[j][r].msg = handler[j][r].msg
    <3>1. /\ Adds(k, handler[n][p].peer, handler[n][p].peer.of) /\ MovesTo(n, p, "discover")
          /\ publisher' = publisher
      BY <2>1, EnsureDoes DEF Serves
    <3>2. \A j \in Nodes, r \in PeerIds :
             /\ workers[j][r] # NoWorker => workers'[j][r] = workers[j][r]
             /\ workers'[j][r] \in {workers[j][r], Unreachable, r.of}
      BY <3>1 DEF Adds
    <3> QED
      BY <3>1, <3>2 DEF MovesTo, Becomes
  <2>2. CASE publisher_add(n)
    <3>1. publisher[n] \in PeerIds /\ handler' = handler
      BY <2>2 DEF publisher_add, TypeOK
    <3>2. raw_host(publisher[n]) \in {Unreachable, publisher[n].of}
      BY DEF raw_host
    <3>3. \A j \in Nodes, r \in PeerIds :
             /\ workers[j][r] # NoWorker => workers'[j][r] = workers[j][r]
             /\ workers'[j][r] \in {workers[j][r], Unreachable, r.of}
      <4>1. workers \in [Nodes -> [PeerIds -> Nodes \cup {NoWorker, Unreachable}]]
        BY DEF TypeOK
      <4> QED
        BY <2>2, <3>1, <3>2, <4>1 DEF publisher_add
    <3>4. \A j \in Nodes : publisher'[j] \in {publisher[j], Nobody} \cup table[j]
      BY <2>2 DEF publisher_add, TypeOK
    <3> QED
      BY <3>1, <3>3, <3>4
  <2>3. ASSUME NEW p \in PeerIds, publisher_miss(n, p)
        PROVE  /\ workers' = workers /\ handler' = handler
               /\ \A j \in Nodes : publisher'[j] \in {publisher[j], Nobody} \cup table[j]
    BY <2>3 DEF publisher_miss, TypeOK
  <2> QED
    BY <2>1, <2>2, <2>3
<1>4. Posted'
  <2>1. \A j \in Nodes, q \in PeerIds :
           \/ handler'[j][q] = handler[j][q]
           \/ /\ handler'[j][q].sender = j /\ handler'[j][q].pc # "read"
              /\ q.kind = "bootstrap@" => handler'[j][q].msg = "JOIN_REQUEST"
    BY <1>3 DEF Posted
  <2> QED
    BY <1>2, <1>3, <2>1, PostedKept
<1>5. Started'
  BY <1>1, <1>3, StartedKept
<1>6. \A j \in Nodes : Lasting(j)' => Lasting(j)
  BY <1>1 DEF Lasting
<1>7. ASSUME NEW j \in Nodes, NEW q \in PeerIds, Underway(j, q) PROVE Underway(j, q)'
  <2>1. PICK a \in Nodes, r \in PeerIds :
           /\ workers[a][r] = j /\ handler[a][r].pc \in {"ensure", "discover"}
           /\ handler[a][r].peer = q
    BY <1>7 DEF Underway
  <2>2. workers'[a][r] = j
    BY <1>3, <2>1, MembershipAssumption
  <2>3. handler'[a][r].pc \in {"ensure", "discover"} /\ handler'[a][r].peer = q
    BY <1>3, <2>1
  <2> QED
    BY <2>2, <2>3 DEF Underway
<1>8. Follows
  BY <1>1, <1>2, <1>3, <1>6, <1>7 DEF Follows
<1> QED
  BY <1>4, <1>5, <1>8 DEF Carries

\* A process dies: its list goes, its threads too, and nobody else's.
LEMMA CrashDoes ==
  ASSUME IInv, Posted, NEW n \in Nodes, crash(n)
  PROVE  /\ workers' = workers /\ chan' = chan /\ ~Lasting(n)'
         /\ \A j \in Nodes : Lasting(j)' => Lasting(j)
         /\ \A j \in Nodes :
               /\ step'[j] = IF j = n THEN -1 ELSE step[j]
               /\ table'[j] = IF j = n THEN {} ELSE table[j]
               /\ publisher'[j] = IF j = n THEN Nobody ELSE publisher[j]
         /\ \A j \in Nodes, q \in PeerIds :
               handler'[j][q] = IF workers[j][q] = n THEN Idle(j, q) ELSE handler[j][q]
<1> USE DEF IInv
<1>1. crashes \in Nat /\ crashes' = crashes + 1 /\ n \in CrashProne
  BY MembershipAssumption DEF TypeOK, crash
<1>2. ~Lasting(n)' /\ \A j \in Nodes : Lasting(j)' => Lasting(j)
  BY <1>1 DEF Lasting
<1>3. \A j \in Nodes :
         /\ step'[j] = IF j = n THEN -1 ELSE step[j]
         /\ table'[j] = IF j = n THEN {} ELSE table[j]
         /\ publisher'[j] = IF j = n THEN Nobody ELSE publisher[j]
  BY DEF crash, TypeOK, Hosted
<1>4. \A j \in Nodes, q \in PeerIds :
         handler'[j][q] = IF workers[j][q] = n THEN Idle(j, q) ELSE handler[j][q]
  BY DEF crash
<1> QED
  BY <1>2, <1>3, <1>4 DEF crash

\* It is started again: its workers are those of the bootstrap addresses.
LEMMA RestartDoes ==
  ASSUME IInv, NEW n \in Nodes, restart(n)
  PROVE  /\ table' = table /\ chan' = chan /\ handler' = handler /\ publisher' = publisher
         /\ crashes' = crashes /\ step[n] = -1 /\ table[n] = {}
         /\ \A j \in Nodes :
               /\ step'[j] = IF j = n THEN 0 ELSE step[j]
               /\ workers'[j] = IF j = n THEN bootstrap_workers(n) ELSE workers[j]
         /\ \A q \in PeerIds : Frames(n, q) = {} /\ handler[n][q].pc = "read"
         /\ \A q \in PeerIds : bootstrap_workers(n)[q] \in {NoWorker, q.of}
<1> USE DEF IInv
<1>1. \A j \in Nodes :
         /\ step'[j] = IF j = n THEN 0 ELSE step[j]
         /\ workers'[j] = IF j = n THEN bootstrap_workers(n) ELSE workers[j]
  BY DEF restart, TypeOK, Hosted
<1>2. step[n] = -1 /\ table[n] = {}
  BY DEF restart, Hosted
<1>3. \A q \in PeerIds : Frames(n, q) = {} /\ handler[n][q].pc = "read"
  BY NoFrame DEF restart
<1>4. \A q \in PeerIds : bootstrap_workers(n)[q] \in {NoWorker, q.of}
  BY DEF bootstrap_workers
<1> QED
  BY <1>1, <1>2, <1>3, <1>4 DEF restart

\* A process dies, loses frames or restarts.
LEMMA CrashCarries ==
  ASSUME IInv, Posted, Started, NEW n \in Nodes,
         crash(n) \/ restart(n) \/ \E p \in PeerIds : lose(n, p)
  PROVE  Carries
<1> USE DEF IInv
<1>1. CASE crash(n)
  <2>1. /\ workers' = workers /\ chan' = chan /\ ~Lasting(n)'
        /\ \A j \in Nodes : Lasting(j)' => Lasting(j)
        /\ \A j \in Nodes :
              /\ step'[j] = IF j = n THEN -1 ELSE step[j]
              /\ table'[j] = IF j = n THEN {} ELSE table[j]
              /\ publisher'[j] = IF j = n THEN Nobody ELSE publisher[j]
        /\ \A j \in Nodes, q \in PeerIds :
              handler'[j][q] = IF workers[j][q] = n THEN Idle(j, q) ELSE handler[j][q]
    BY <1>1, CrashDoes
  <2>2. \A j \in Nodes, q \in PeerIds : Frames(j, q)' = Frames(j, q)
    BY <2>1, SameFrames
  <2>3. Posted'
    BY <2>1, <2>2, PostedKept
  <2>4. Started'
    <3>1. ASSUME NEW j \in Nodes
          PROVE  /\ \A i \in 1..Len(Bootstrap[j]) :
                       /\ workers'[j][alias(Bootstrap[j][i])] = Bootstrap[j][i]
                       /\ step'[j] > i => alias(Bootstrap[j][i]) \in table'[j]
                 /\ publisher'[j] = Nobody \/ publisher'[j] \in table'[j]
                 /\ Lasting(j)' => step'[j] # -1
      BY <2>1 DEF Started
    <3> QED
      BY <3>1 DEF Started, alias
  <2>5. ASSUME NEW j \in Nodes, NEW q \in PeerIds, step'[j] # -1, Underway(j, q)
        PROVE  Underway(j, q)'
    <3>1. PICK a \in Nodes, r \in PeerIds :
             /\ workers[a][r] = j /\ handler[a][r].pc \in {"ensure", "discover"}
             /\ handler[a][r].peer = q
      BY <2>5 DEF Underway
    <3>2. j # n
      BY <2>1, <2>5
    <3>3. handler'[a][r] = handler[a][r] /\ workers'[a][r] = j
      BY <2>1, <3>1, <3>2
    <3> QED
      BY <3>1, <3>3 DEF Underway
  <2>6. \A j \in Nodes : Len(Bootstrap[j]) \in Nat
    BY BootstrapFacts
  <2>7. ASSUME NEW j \in Nodes, NEW i \in 1..Len(Bootstrap[j]), step'[j] > Len(Bootstrap[j]) + i
        PROVE  step[j] > Len(Bootstrap[j]) + i
    BY <2>1, <2>6, <2>7
  <2>8. Follows
    BY <2>1, <2>2, <2>5, <2>7 DEF Follows
  <2> QED
    BY <2>3, <2>4, <2>8 DEF Carries
<1>2. CASE restart(n)
  <2>1. /\ table' = table /\ chan' = chan /\ handler' = handler /\ publisher' = publisher
        /\ crashes' = crashes /\ step[n] = -1 /\ table[n] = {}
        /\ \A j \in Nodes :
              /\ step'[j] = IF j = n THEN 0 ELSE step[j]
              /\ workers'[j] = IF j = n THEN bootstrap_workers(n) ELSE workers[j]
        /\ \A q \in PeerIds : Frames(n, q) = {} /\ handler[n][q].pc = "read"
        /\ \A q \in PeerIds : bootstrap_workers(n)[q] \in {NoWorker, q.of}
    BY <1>2, RestartDoes
  <2>2. \A j \in Nodes, q \in PeerIds : Frames(j, q)' = Frames(j, q)
    BY <2>1, SameFrames
  <2>3. Posted'
    BY <2>1, <2>2, PostedKept
  <2>4. \A j \in Nodes : Len(Bootstrap[j]) \in Nat
    BY BootstrapFacts
  <2>5. Started'
    <3>1. \A i \in 1..Len(Bootstrap[n]) :
             bootstrap_workers(n)[alias(Bootstrap[n][i])] = Bootstrap[n][i]
      BY BootstrapFacts, PeerIdFacts DEF bootstrap_workers
    <3>2. ASSUME NEW j \in Nodes
          PROVE  /\ \A i \in 1..Len(Bootstrap[j]) :
                       /\ workers'[j][alias(Bootstrap[j][i])] = Bootstrap[j][i]
                       /\ step'[j] > i => alias(Bootstrap[j][i]) \in table'[j]
                 /\ publisher'[j] = Nobody \/ publisher'[j] \in table'[j]
                 /\ Lasting(j) => step'[j] # -1
      BY <2>1, <2>4, <3>1 DEF Started
    <3> QED
      BY <2>1, <3>2 DEF Started, alias, Lasting
  <2>6. ASSUME NEW j \in Nodes, NEW q \in PeerIds, Underway(j, q)
        PROVE  Underway(j, q)'
    <3>1. PICK a \in Nodes, r \in PeerIds :
             /\ workers[a][r] = j /\ handler[a][r].pc \in {"ensure", "discover"}
             /\ handler[a][r].peer = q
      BY <2>6 DEF Underway
    <3>2. a # n
      BY <2>1, <3>1
    <3> QED
      BY <2>1, <3>1, <3>2 DEF Underway
  <2>7. ASSUME NEW j \in Nodes, NEW i \in 1..Len(Bootstrap[j]), step'[j] > Len(Bootstrap[j]) + i
        PROVE  step[j] > Len(Bootstrap[j]) + i
    BY <2>1, <2>4, <2>7
  <2>8. \A j \in Nodes : Lasting(j)' => Lasting(j)
    BY <2>1 DEF Lasting
  <2>9. Follows
    BY <2>1, <2>2, <2>6, <2>7, <2>8 DEF Follows
  <2> QED
    BY <2>3, <2>5, <2>9 DEF Carries
<1>3. ASSUME NEW p \in PeerIds, lose(n, p) PROVE Carries
  <2>1. /\ step' = step /\ table' = table /\ workers' = workers /\ handler' = handler
        /\ publisher' = publisher /\ crashes' = crashes
        /\ step[n] = -1 \/ \E k \in Nodes : workers[n][p] = k /\ step[k] = -1
    BY <1>3 DEF lose
  <2>2. \A k \in Nodes, q \in PeerIds :
            /\ Frames(k, q)' \subseteq Frames(k, q)
            /\ k # n \/ q # p => Frames(k, q)' = Frames(k, q)
    BY <1>3, FrameLost
  <2>3. Posted'
    BY <2>1, <2>2, PostedKept
  <2>4. Started'
    BY <2>1, StartedKept
  <2>5. \A j \in Nodes, q \in PeerIds : Underway(j, q) => Underway(j, q)'
    BY <2>1 DEF Underway
  <2>6. step[n] = -1 \/ (workers[n][p] = p.of /\ step[p.of] = -1)
    BY <2>1, MembershipAssumption DEF Posted
  <2>7. \A j \in Nodes : Lasting(j)' => Lasting(j)
    BY <2>1 DEF Lasting
  <2>8. Follows
    BY <2>1, <2>2, <2>5, <2>6, <2>7 DEF Follows
  <2> QED
    BY <2>3, <2>4, <2>8 DEF Carries
<1> QED
  BY <1>1, <1>2, <1>3

\* Nothing happens.
LEMMA IdleCarries ==
  ASSUME IInv, Posted, Started, UNCHANGED vars
  PROVE  Carries
<1>1. /\ step' = step /\ table' = table /\ workers' = workers /\ chan' = chan
      /\ handler' = handler /\ publisher' = publisher /\ crashes' = crashes
  BY DEF vars
<1>2. \A j \in Nodes, q \in PeerIds : Frames(j, q)' = Frames(j, q)
  BY <1>1, SameFrames
<1>3. Posted'
  BY <1>1, <1>2, PostedKept
<1>4. Started'
  BY <1>1, StartedKept
<1>5. \A j \in Nodes, q \in PeerIds : Underway(j, q) => Underway(j, q)'
  BY <1>1 DEF Underway
<1>6. \A j \in Nodes : Lasting(j)' => Lasting(j)
  BY <1>1 DEF Lasting
<1>7. Follows
  BY <1>1, <1>2, <1>5, <1>6 DEF Follows
<1> QED
  BY <1>3, <1>4, <1>7 DEF Carries

\* Every step does.
LEMMA AllCarry ==
  ASSUME IInv, Posted, Started, [Next]_vars
  PROVE  Carries
<1>1. CASE UNCHANGED vars
  BY <1>1, IdleCarries
<1>2. CASE Next
  <2>1. PICK n \in Nodes :
           \/ main(n)
           \/ \E p \in PeerIds : connection_thread(n, p) \/ publisher_miss(n, p) \/ lose(n, p)
           \/ publisher_add(n)
           \/ crash(n) \/ restart(n)
    BY <1>2 DEF Next
  <2>2. ASSUME NEW p \in PeerIds, connection_thread(n, p) PROVE Carries
    BY <2>2, ReadCarries, AddCarries, AnswerCarries DEF connection_thread
  <2> QED
    BY <2>1, <2>2, MainCarries, AddCarries, CrashCarries
<1> QED
  BY <1>1, <1>2

-----------------------------------------------------------------------------
\* An entry is reached, or will be.
LEMMA ReachedKept ==
  ASSUME IInv, IInv', Posted, Started, Reached, Follows
  PROVE  Reached'
<1> SUFFICES ASSUME NEW k \in Nodes, NEW q \in PeerIds, q.kind = "node", q \in table'[k]
             PROVE  \/ Underway(k, q)' \/ Join(k) \in Frames(k, q)'
                    \/ workers'[k][q] = q.of
  BY DEF Reached, Join
<1>1. step'[k] # -1 /\ q # node(k)
  <2>1. step'[k] <= 0 => table'[k] = {}
    BY DEF IInv, Hosted
  <2>2. node(k) \notin table'[k]
    BY DEF IInv, TypeOK, node
  <2> QED
    BY <2>1, <2>2
<1>2. CASE q \notin table[k]
  BY <1>2 DEF Follows
<1>3. CASE q \in table[k]
  <2>0. step[k] <= 0 => table[k] = {}
    BY DEF IInv, Hosted
  <2>1. step[k] # -1 /\ q.of \in Nodes /\ q.of # NoWorker
    BY <1>3, <2>0, PeerIdFacts, MembershipAssumption
  <2>2. q.of # k
    BY <1>1, PeerIdFacts DEF PeerIds
  <2>3. CASE Underway(k, q)
    BY <1>1, <2>3 DEF Follows
  <2>4. CASE Join(k) \in Frames(k, q)
    BY <1>1, <2>1, <2>2, <2>4 DEF Follows
  <2>5. CASE workers[k][q] = q.of
    BY <2>1, <2>5 DEF Follows
  <2> QED
    BY <1>3, <2>3, <2>4, <2>5 DEF Reached
<1> QED
  BY <1>2, <1>3

\* A node that named another is on its list, or will be.
LEMMA MetKept ==
  ASSUME IInv, Posted, Started, Started', Met, Follows
  PROVE  Met'
<1> SUFFICES ASSUME NEW k \in Nodes, NEW q \in PeerIds, NEW i \in 1..Len(Bootstrap[k]),
                    q = alias(Bootstrap[k][i]), q.of # k, Lasting(q.of)',
                    step'[k] > Len(Bootstrap[k]) + i
             PROVE  Join(k) \in Frames(k, q)' \/ node(k) \in table'[q.of]
  BY DEF Met, Join, node, alias
<1>1. q.of \in Nodes /\ Len(Bootstrap[k]) \in Nat
  BY PeerIdFacts, BootstrapFacts
<1>2. Lasting(q.of) /\ step[q.of] # -1 /\ step'[q.of] # -1
  BY <1>1 DEF Follows, Started
<1>3. CASE ~(step[k] > Len(Bootstrap[k]) + i)
  BY <1>3 DEF Follows
<1>4. CASE step[k] > Len(Bootstrap[k]) + i
  <2>1. step'[k] # -1
    BY <1>1
  <2>2. CASE Join(k) \in Frames(k, q)
    BY <1>2, <2>1, <2>2 DEF Follows
  <2>3. CASE node(k) \in table[q.of]
    BY <1>1, <1>2, <2>3 DEF Follows
  <2> QED
    BY <1>2, <1>4, <2>2, <2>3 DEF Met
<1> QED
  BY <1>3, <1>4

\* What holds of every list and every JOIN_REQUEST, however often processes die.
Standing == Posted /\ Started /\ Reached /\ Met

\* At start-up there are neither lists nor frames.
LEMMA InitStanding ==
  ASSUME Init
  PROVE  Standing
<1>1. \A n \in Nodes : step[n] = 0 /\ table[n] = {} /\ publisher[n] = Nobody
  BY DEF Init
<1>2. \A n \in Nodes, p \in PeerIds :
         /\ chan[n][p] = <<>> /\ handler[n][p] = Idle(n, p)
         /\ workers[n][p] = bootstrap_workers(n)[p]
  BY DEF Init
<1>3. \A n \in Nodes, p \in PeerIds : Frames(n, p) = {}
  BY <1>2, EmptySeq DEF Frames
<1>4. \A n \in Nodes, p \in PeerIds : bootstrap_workers(n)[p] \in {NoWorker, p.of}
  BY DEF bootstrap_workers
<1>5. \A n \in Nodes : \A i \in 1..Len(Bootstrap[n]) :
         workers[n][alias(Bootstrap[n][i])] = Bootstrap[n][i]
  <2>1. ASSUME NEW n \in Nodes, NEW i \in 1..Len(Bootstrap[n])
        PROVE  bootstrap_workers(n)[alias(Bootstrap[n][i])] = Bootstrap[n][i]
    BY BootstrapFacts, PeerIdFacts DEF bootstrap_workers
  <2> QED
    BY <1>2, <2>1, BootstrapFacts
<1>6. \A n \in Nodes, p \in PeerIds :
         /\ Idle(n, p).sender = n /\ Idle(n, p).msg = "JOIN_REQUEST"
  BY DEF Idle
<1>7. Posted
  BY <1>2, <1>3, <1>4, <1>6 DEF Posted
<1>8. Started
  BY <1>1, <1>5, BootstrapFacts DEF Started
<1>9. Reached
  BY <1>1 DEF Reached
<1>10. Met
  BY <1>1, BootstrapFacts DEF Met
<1> QED
  BY <1>7, <1>8, <1>9, <1>10 DEF Standing

\* However often processes die, lose frames and are started again: an entry of a
\* list has a worker that connects to its owner or a JOIN_REQUEST that will tell, and
\* whoever named a node that lasts is on its list, or will be.
THEOREM Stands == Spec => []Standing
<1>1. Init => Standing
  BY InitStanding
<1>2. IInv /\ IInv' /\ Standing /\ [Next]_vars => Standing'
  <2> SUFFICES ASSUME IInv, IInv', Standing, [Next]_vars PROVE Standing'
    OBVIOUS
  <2>1. Posted' /\ Started' /\ Follows
    BY AllCarry DEF Standing, Carries
  <2>2. Reached'
    BY <2>1, ReachedKept DEF Standing
  <2>3. Met'
    BY <2>1, MetKept DEF Standing
  <2> QED
    BY <2>1, <2>2, <2>3 DEF Standing
<1> QED
  BY <1>1, <1>2, Inductive, PTL DEF Spec

-----------------------------------------------------------------------------
\* Node k was configured with the address of m.
Names(k, m) == \E i \in 1..Len(Bootstrap[k]) : Bootstrap[k][i] = m

\* A node that was started with an address keeps a worker that connects there.
LEMMA NamedIsReached ==
  ASSUME IInv, Standing, Quiet, NEW k \in Nodes, NEW m \in Nodes, Names(k, m)
  PROVE  \E p \in table[k] : workers[k][p] = m
<1>1. PICK i \in 1..Len(Bootstrap[k]) : Bootstrap[k][i] = m
  BY DEF Names
<1>2. step[k] > i
  BY BootstrapFacts DEF Quiet, Running
<1> QED
  BY <1>1, <1>2 DEF Standing, Started

\* Once all is quiet an entry is connected to its owner.
LEMMA EntryIsReached ==
  ASSUME IInv, Standing, Quiet, NEW k \in Nodes, NEW m \in Nodes, node(m) \in table[k]
  PROVE  workers[k][node(m)] = m
<1>1. node(m) \in PeerIds /\ node(m).kind = "node" /\ node(m).of = m
  BY PeerIdFacts
<1>2. Frames(k, node(m)) = {}
  BY <1>1, NoFrame DEF Quiet, IInv
<1>3. ~Underway(k, node(m))
  BY DEF Quiet, Underway
<1> QED
  BY <1>1, <1>2, <1>3 DEF Standing, Reached

\* Once all is quiet, a node that named one that lasts is on its list.
LEMMA NamerIsListed ==
  ASSUME IInv, Standing, Quiet, NEW k \in Nodes, NEW m \in Nodes, k # m, Names(k, m), Lasting(m)
  PROVE  node(k) \in table[m]
<1>1. PICK i \in 1..Len(Bootstrap[k]) : Bootstrap[k][i] = m
  BY DEF Names
<1>2. PICK q \in PeerIds : q = alias(m) /\ q.of = m
  BY <1>1, BootstrapFacts, PeerIdFacts
<1>3. Frames(k, q) = {}
  BY NoFrame DEF Quiet, IInv
<1>4. step[k] > Len(Bootstrap[k]) + i
  BY BootstrapFacts DEF Quiet, Running
<1> QED
  BY <1>1, <1>2, <1>3, <1>4 DEF Standing, Met

\* A node that may die names every other one, and of two that do not one names the
\* other.
Anchored ==
  \A k, m \in Nodes : k # m => Names(k, m) \/ (Names(m, k) /\ k \notin CrashProne)

\* With such addresses the nodes re-integrate after every sequence of crashes, lost
\* frames and restarts, for any number of nodes: once the exchange has died down each
\* reaches every other one.  A node that may die and names nobody, as in the run
\* membership_restart, does not come back.
THEOREM MeshReintegrates ==
  ASSUME Anchored
  PROVE  Spec => []Reintegrates
<1>1. IInv /\ Standing => Reintegrates
  <2> SUFFICES ASSUME IInv, Standing, Quiet, NEW k \in Nodes, NEW m \in Nodes, k # m
               PROVE  \E p \in table[k] : workers[k][p] = m
    BY DEF Reintegrates, Reaches
  <2>1. CASE Names(k, m)
    BY <2>1, NamedIsReached
  <2>2. CASE Names(m, k) /\ k \notin CrashProne
    <3>1. node(m) \in table[k]
      BY <2>2, NamerIsListed DEF Lasting
    <3> QED
      BY <3>1, EntryIsReached
  <2> QED
    BY <2>1, <2>2 DEF Anchored
<1> QED
  BY <1>1, Inductive, Stands, PTL

-----------------------------------------------------------------------------
\* Where what a step adds comes from: an entry from a list that was received or from a
\* JOIN_REQUEST, a worker from an entry, the entries a thread holds from a frame or a
\* list, those of a frame from a thread, and frames for others than bootstrap
\* addresses from a thread of their node; and _ensure_client_peer leaves a worker.
Spreads ==
  /\ \A k \in Nodes, q \in PeerIds : q \in table'[k] =>
        \/ q \in table[k] \/ q.kind = "bootstrap@"
        \/ \E n \in Nodes, p \in PeerIds :
              /\ workers[n][p] = k
              /\ \/ q \in handler[n][p].peers
                 \/ /\ q = node(n) /\ Frames(n, p) # {}
                    /\ handler'[n][p].pc = "ensure" /\ handler'[n][p].peer = q
  /\ \A k \in Nodes, q \in PeerIds : workers'[k][q] \in Nodes =>
        workers'[k][q] = workers[k][q] \/ q \in table[k] \/ q.kind = "bootstrap@"
  /\ \A n \in Nodes, p \in PeerIds : \A q \in handler'[n][p].peers :
        \/ q \in handler[n][p].peers \/ \E x \in Frames(n, p) : q \in x.peers
        \/ \E k \in Nodes : q \in table[k]
  /\ \A n \in Nodes, p \in PeerIds : \A x \in Frames(n, p)' :
        \/ x \in Frames(n, p)
        \/ /\ p.kind = "bootstrap@" \/ \E m \in Nodes, r \in PeerIds : workers[m][r] = n
           /\ x.peers = {} \/ \E m \in Nodes, r \in PeerIds : x.peers = handler[m][r].peers
  /\ \A n \in Nodes, p \in PeerIds, k \in Nodes : Runs(n, p, k, "ensure") =>
        \/ handler'[n][p] = handler[n][p] \/ step'[k] = -1
        \/ workers'[k][handler[n][p].peer] # NoWorker

\* A thread goes on and no worker is added.
LEMMA ThreadSpreads ==
  ASSUME NEW n \in Nodes, NEW p \in PeerIds, NEW k \in Nodes, NEW pc,
         Serves(n, p, k, pc), pc # "ensure", workers' = workers, NEW t, Becomes(n, p, t),
         \A q \in t.peers :
            \/ q \in handler[n][p].peers \/ \E x \in Frames(n, p) : q \in x.peers
            \/ q \in table[k],
         \A j \in Nodes, q \in PeerIds : q \in table'[j] =>
            \/ q \in table[j]
            \/ j = k /\ q \in handler[n][p].peers
            \/ j = k /\ q = node(n) /\ Frames(n, p) # {} /\ t.pc = "ensure" /\ t.peer = q,
         \A j \in Nodes, r \in PeerIds : \A x \in Frames(j, r)' :
            x \in Frames(j, r) \/ (j = k /\ x.peers \in {{}, handler[n][p].peers})
  PROVE  Spreads
<1>1. workers[n][p] = k /\ handler[n][p].pc = pc
  BY DEF Serves
<1>2. \A m \in Nodes, r \in PeerIds :
         handler'[m][r] = IF m = n /\ r = p THEN t ELSE handler[m][r]
  BY DEF Becomes
<1>3. ASSUME NEW j \in Nodes, NEW q \in PeerIds, q \in table'[j], q \notin table[j]
      PROVE  /\ workers[n][p] = j
             /\ \/ q \in handler[n][p].peers
                \/ /\ q = node(n) /\ Frames(n, p) # {}
                   /\ handler'[n][p].pc = "ensure" /\ handler'[n][p].peer = q
  BY <1>1, <1>2, <1>3
<1>4. ASSUME NEW m \in Nodes, NEW r \in PeerIds, NEW q \in handler'[m][r].peers
      PROVE  \/ q \in handler[m][r].peers \/ \E x \in Frames(m, r) : q \in x.peers
             \/ \E j \in Nodes : q \in table[j]
  <2>1. CASE m = n /\ r = p
    BY <1>2, <2>1
  <2>2. CASE ~(m = n /\ r = p)
    BY <1>2, <2>2
  <2> QED
    BY <2>1, <2>2
<1>5. ASSUME NEW j \in Nodes, NEW r \in PeerIds, NEW x \in Frames(j, r)', x \notin Frames(j, r)
      PROVE  workers[n][p] = j /\ (x.peers = {} \/ x.peers = handler[n][p].peers)
  BY <1>1, <1>5
<1>6. \A m \in Nodes, r \in PeerIds, j \in Nodes :
         Runs(m, r, j, "ensure") => handler'[m][r] = handler[m][r]
  BY <1>1, <1>2 DEF Runs
<1> QED
  BY <1>3, <1>4, <1>5, <1>6 DEF Spreads

\* The threads of nodes.
LEMMA ServingSpreads ==
  ASSUME IInv, Posted, NEW n \in Nodes, NEW p \in PeerIds, NEW k \in Nodes,
         \/ handle_join_request(n, p, k) \/ handle_peer_list(n, p, k) \/ integrate(n, p, k)
         \/ discovery_join(n, p, k) \/ list_peers(n, p, k) \/ reply(n, p, k)
  PROVE  Spreads
<1>1. CASE handle_join_request(n, p, k)
  <2>1. /\ Serves(n, p, k, "read") /\ workers' = workers
        /\ \E x \in Frames(n, p) : x.type = "JOIN_REQUEST" /\ Drops(n, p, x)
        /\ \A j \in Nodes :
              table'[j] = IF j = k /\ n # k THEN table[k] \cup {node(n)} ELSE table[j]
        /\ \E t \in Thread : Admits(n, p, k, t)
    BY <1>1, JoinDoes, Zenon
  <2>2. PICK t \in Thread : Admits(n, p, k, t)
    BY <2>1
  <2>3. Becomes(n, p, t) /\ t.peers = {}
    BY <2>2 DEF Admits
  <2>4. Frames(n, p) # {} /\ \A j \in Nodes, r \in PeerIds : Frames(j, r)' \subseteq Frames(j, r)
    BY <2>1 DEF Drops
  <2>5. \A j \in Nodes, q \in PeerIds : q \in table'[j] =>
           \/ q \in table[j]
           \/ j = k /\ q = node(n) /\ t.pc = "ensure" /\ t.peer = q
    BY <2>1, <2>2 DEF Admits
  <2> QED
    BY <2>1, <2>3, <2>4, <2>5, ThreadSpreads
<1>2. CASE handle_peer_list(n, p, k)
  <2>1. Serves(n, p, k, "read") /\ workers' = workers /\ table' = table
    BY <1>2, ListDoes
  <2>2. PICK x \in Frames(n, p), t \in Thread :
               Drops(n, p, x) /\ Becomes(n, p, t) /\ t.peers = x.peers
    BY <1>2, ListDoes
  <2>3. \A j \in Nodes, r \in PeerIds : Frames(j, r)' \subseteq Frames(j, r)
    BY <2>2 DEF Drops
  <2> QED
    BY <2>1, <2>2, <2>3, ThreadSpreads
<1>3. CASE integrate(n, p, k)
  <2>1. Serves(n, p, k, "entries") /\ workers' = workers /\ chan' = chan
    BY <1>3, IntegrateDoes
  <2>2. \A j \in Nodes, q \in PeerIds : Frames(j, q)' = Frames(j, q)
    BY <2>1, SameFrames
  <2>3. CASE \E e \in handler[n][p].peers, t \in Thread : Enlists(n, p, k, e, t)
    <3>1. PICK e \in handler[n][p].peers, t \in Thread : Enlists(n, p, k, e, t)
      BY <2>3
    <3>2. Becomes(n, p, t) /\ t.peers \subseteq handler[n][p].peers
      BY <3>1 DEF Enlists
    <3>3. \A j \in Nodes, q \in PeerIds : q \in table'[j] =>
             q \in table[j] \/ (j = k /\ q \in handler[n][p].peers)
      BY <3>1 DEF Enlists
    <3> QED
      BY <2>1, <2>2, <3>2, <3>3, ThreadSpreads
  <2>4. CASE table' = table /\ Becomes(n, p, Idle(n, p))
    <3>1. Idle(n, p).peers = {}
      BY DEF Idle
    <3> QED
      BY <2>1, <2>2, <2>4, <3>1, ThreadSpreads
  <2> QED
    BY <1>3, <2>3, <2>4, IntegrateDoes
<1>4. CASE discovery_join(n, p, k)
  <2> DEFINE pc == IF handler[n][p].msg = "JOIN_REQUEST" THEN "list" ELSE "entries"
  <2>1. /\ Serves(n, p, k, "discover") /\ table' = table /\ workers' = workers
        /\ \A j \in Nodes, q \in PeerIds :
              Frames(j, q)' = IF j = k /\ q = handler[n][p].peer
                                THEN Frames(j, q) \cup {Join(k)} ELSE Frames(j, q)
        /\ MovesTo(n, p, pc)
    BY <1>4, DiscoverDoes
  <2>2. PICK t \in Thread : Becomes(n, p, t) /\ t.peers = handler[n][p].peers
    BY <2>1 DEF MovesTo
  <2>3. Join(k).peers = {}
    BY DEF Join
  <2> QED
    BY <2>1, <2>2, <2>3, ThreadSpreads
<1>5. CASE list_peers(n, p, k)
  <2>1. Serves(n, p, k, "list") /\ table' = table /\ workers' = workers /\ chan' = chan
    BY <1>5, SnapshotDoes
  <2>2. PICK t \in Thread : Becomes(n, p, t) /\ t.peers = table[k]
    BY <1>5, SnapshotDoes
  <2>3. \A j \in Nodes, q \in PeerIds : Frames(j, q)' = Frames(j, q)
    BY <2>1, SameFrames
  <2> QED
    BY <2>1, <2>2, <2>3, ThreadSpreads
<1>6. CASE reply(n, p, k)
  <2>1. /\ Serves(n, p, k, "reply") /\ table' = table /\ workers' = workers
        /\ Becomes(n, p, Idle(n, p))
    BY <1>6, ReplyDoes
  <2>2. PICK x : x = PeerList(k, handler[n][p].peers)
    OBVIOUS
  <2>3. \A j \in Nodes, q \in PeerIds :
               Frames(j, q)' =
                  IF j = k /\ q = node(n) /\ workers[k][node(n)] # NoWorker
                    THEN Frames(j, q) \cup {x} ELSE Frames(j, q)
    BY <1>6, <2>2, ReplyDoes
  <2>4. x.peers = handler[n][p].peers /\ Idle(n, p).peers = {}
    BY <2>2 DEF PeerList, Idle
  <2>5. \A j \in Nodes, r \in PeerIds : \A y \in Frames(j, r)' :
            y \in Frames(j, r) \/ (j = k /\ y.peers \in {{}, handler[n][p].peers})
    BY <2>3, <2>4
  <2> QED
    BY <2>1, <2>4, <2>5, ThreadSpreads
<1> QED
  BY <1>1, <1>2, <1>3, <1>4, <1>5, <1>6

\* Start-up: aliases are listed, and JOIN_REQUESTs sent to bootstrap addresses.
LEMMA MainSpreads ==
  ASSUME IInv, NEW n \in Nodes, main(n)
  PROVE  Spreads
<1> USE DEF IInv
<1>1. workers' = workers /\ handler' = handler
  BY DEF main, start_server, seed, bootstrap
<1>2. PICK b : UNCHANGED table \/ table' = [table EXCEPT ![n] = @ \cup {alias(b)}]
  BY DEF main, start_server, seed, bootstrap
<1>3. \A k \in Nodes, q \in PeerIds : q \in table'[k] => q \in table[k] \/ q.kind = "bootstrap@"
  <2>1. \A k \in Nodes : table'[k] \subseteq table[k] \cup {alias(b)}
    BY <1>2 DEF TypeOK
  <2> QED
    BY <2>1, PeerIdFacts
<1>4. \A k \in Nodes, p \in PeerIds : \A x \in Frames(k, p)' :
         x \in Frames(k, p) \/ (p.kind = "bootstrap@" /\ x.peers = {})
  <2>1. CASE start_server(n) \/ seed(n)
    <3>1. chan' = chan
      BY <2>1 DEF start_server, seed
    <3> QED
      BY <3>1, SameFrames
  <2>2. CASE bootstrap(n)
    <3>1. PICK i \in 1..Len(Bootstrap[n]) : send_json(n, alias(Bootstrap[n][i]), Join(n))
      <4>1. step[n] \in Int /\ Len(Bootstrap[n]) \in Nat
        BY BootstrapFacts DEF Hosted
      <4>2. step[n] - Len(Bootstrap[n]) \in 1..Len(Bootstrap[n])
        BY <2>2, <4>1 DEF bootstrap
      <4> QED
        BY <2>2, <4>2 DEF bootstrap
    <3>2. PICK p \in PeerIds : p = alias(Bootstrap[n][i]) /\ p.kind = "bootstrap@"
      BY BootstrapFacts, PeerIdFacts
    <3>3. PICK x \in Message : x = Join(n) /\ x.peers = {}
      BY RecordsTyped DEF Join
    <3>4. \A k \in Nodes, q \in PeerIds :
             Frames(k, q)' = IF k = n /\ q = p THEN Frames(k, q) \cup {x} ELSE Frames(k, q)
      BY <3>1, <3>2, <3>3, FrameSent
    <3> QED
      BY <3>2, <3>3, <3>4
  <2> QED
    BY <2>1, <2>2 DEF main
<1> QED
  BY <1>1, <1>3, <1>4 DEF Spreads

\* A worker is added for an entry.
LEMMA AddSpreads ==
  ASSUME IInv, Posted, Started, NEW n \in Nodes,
         \/ \E p \in PeerIds, k \in Nodes : ensure_client_peer(n, p, k)
         \/ publisher_add(n) \/ \E p \in PeerIds : publisher_miss(n, p)
  PROVE  Spreads
<1> USE DEF IInv
<1>1. table' = table /\ chan' = chan
  BY DEF ensure_client_peer, publisher_add, publisher_miss
<1>2. \A j \in Nodes, q \in PeerIds : Frames(j, q)' = Frames(j, q)
  BY <1>1, SameFrames
<1>3. ASSUME NEW p \in PeerIds, NEW k \in Nodes, ensure_client_peer(n, p, k) PROVE Spreads
  <2>1. /\ Serves(n, p, k, "ensure") /\ handler[n][p].peer \in table[k]
        /\ Adds(k, handler[n][p].peer, handler[n][p].peer.of) /\ MovesTo(n, p, "discover")
    BY <1>3, EnsureDoes
  <2>2. PICK t \in Thread : Becomes(n, p, t) /\ t.peers = handler[n][p].peers
    BY <2>1 DEF MovesTo
  <2>3. \A m \in Nodes, r \in PeerIds :
           handler'[m][r] = IF m = n /\ r = p THEN t ELSE handler[m][r]
    BY <2>2 DEF Becomes
  <2>4. \A j \in Nodes, q \in PeerIds : workers'[j][q] = workers[j][q] \/ q \in table[j]
    BY <2>1 DEF Adds
  <2>5. handler[n][p].peer \in PeerIds /\ workers[n][p] = k
    BY <2>1 DEF Serves, Thread
  <2>6. workers'[k][handler[n][p].peer] # NoWorker
    BY <2>1, <2>5, PeerIdFacts, MembershipAssumption DEF Adds
  <2>7. \A m \in Nodes, r \in PeerIds, j \in Nodes : Runs(m, r, j, "ensure") =>
           handler'[m][r] = handler[m][r] \/ workers'[j][handler[m][r].peer] # NoWorker
    <3>1. ASSUME NEW m \in Nodes, NEW r \in PeerIds, NEW j \in Nodes, Runs(m, r, j, "ensure")
          PROVE  handler'[m][r] = handler[m][r] \/ workers'[j][handler[m][r].peer] # NoWorker
      <4>1. CASE m = n /\ r = p
        BY <2>5, <2>6, <3>1, <4>1 DEF Runs
      <4>2. CASE ~(m = n /\ r = p)
        BY <2>3, <4>2
      <4> QED
        BY <4>1, <4>2
    <3> QED
      BY <3>1
  <2>8. \A m \in Nodes, r \in PeerIds : handler'[m][r].peers = handler[m][r].peers
    BY <2>2, <2>3
  <2> QED
    BY <1>1, <1>2, <2>4, <2>7, <2>8 DEF Spreads
<1>4. CASE publisher_add(n)
  <2>1. publisher[n] \in table[n] /\ publisher[n] \in PeerIds /\ handler' = handler
    BY <1>4 DEF publisher_add, TypeOK, Started
  <2>2. workers \in [Nodes -> [PeerIds -> Nodes \cup {NoWorker, Unreachable}]]
    BY DEF TypeOK
  <2>3. \A j \in Nodes, q \in PeerIds : workers'[j][q] = workers[j][q] \/ q \in table[j]
    BY <1>4, <2>1, <2>2 DEF publisher_add
  <2> QED
    BY <1>1, <1>2, <2>1, <2>3 DEF Spreads
<1>5. CASE \E p \in PeerIds : publisher_miss(n, p)
  <2>1. workers' = workers /\ handler' = handler
    BY <1>5 DEF publisher_miss
  <2> QED
    BY <1>1, <1>2, <2>1 DEF Spreads
<1> QED
  BY <1>3, <1>4, <1>5

\* Processes that die, lose frames or restart add nothing but aliases' workers.
LEMMA CrashSpreads ==
  ASSUME IInv, Posted, NEW n \in Nodes,
         crash(n) \/ restart(n) \/ \E p \in PeerIds : lose(n, p)
  PROVE  Spreads
<1> USE DEF IInv
<1>1. CASE crash(n)
  <2>1. /\ workers' = workers /\ chan' = chan
        /\ \A j \in Nodes :
              /\ step'[j] = IF j = n THEN -1 ELSE step[j]
              /\ table'[j] = IF j = n THEN {} ELSE table[j]
        /\ \A j \in Nodes, q \in PeerIds :
              handler'[j][q] = IF workers[j][q] = n THEN Idle(j, q) ELSE handler[j][q]
    BY <1>1, CrashDoes
  <2>2. \A j \in Nodes, q \in PeerIds : Frames(j, q)' = Frames(j, q)
    BY <2>1, SameFrames
  <2>3. \A j \in Nodes, q \in PeerIds : handler'[j][q].peers \subseteq handler[j][q].peers
    <3>1. \A j \in Nodes, q \in PeerIds : Idle(j, q).peers = {}
      BY DEF Idle
    <3> QED
      BY <2>1, <3>1
  <2>4. \A m \in Nodes, r \in PeerIds, j \in Nodes :
           Runs(m, r, j, "ensure") => handler'[m][r] = handler[m][r] \/ step'[j] = -1
    BY <2>1 DEF Runs
  <2>5. \A j \in Nodes : table'[j] \subseteq table[j]
    BY <2>1
  <2> QED
    BY <2>1, <2>2, <2>3, <2>4, <2>5 DEF Spreads
<1>2. CASE restart(n)
  <2>1. /\ table' = table /\ chan' = chan /\ handler' = handler
        /\ \A j \in Nodes : workers'[j] = IF j = n THEN bootstrap_workers(n) ELSE workers[j]
    BY <1>2, RestartDoes
  <2>2. \A j \in Nodes, q \in PeerIds : Frames(j, q)' = Frames(j, q)
    BY <2>1, SameFrames
  <2>3. \A q \in PeerIds : bootstrap_workers(n)[q] \in Nodes => q.kind = "bootstrap@"
    BY PeerIdFacts, MembershipAssumption DEF bootstrap_workers
  <2>4. \A j \in Nodes, q \in PeerIds : workers'[j][q] \in Nodes =>
           workers'[j][q] = workers[j][q] \/ q.kind = "bootstrap@"
    BY <2>1, <2>3
  <2> QED
    BY <2>1, <2>2, <2>4 DEF Spreads
<1>3. ASSUME NEW p \in PeerIds, lose(n, p) PROVE Spreads
  <2>1. table' = table /\ workers' = workers /\ handler' = handler
    BY <1>3 DEF lose
  <2>2. \A k \in Nodes, q \in PeerIds : Frames(k, q)' \subseteq Frames(k, q)
    BY <1>3, FrameLost
  <2> QED
    BY <2>1, <2>2 DEF Spreads
<1> QED
  BY <1>1, <1>2, <1>3

\* Every step does.
LEMMA AllSpread ==
  ASSUME IInv, Posted, Started, [Next]_vars
  PROVE  Spreads
<1>1. CASE UNCHANGED vars
  <2>1. table' = table /\ workers' = workers /\ handler' = handler /\ chan' = chan
    BY <1>1 DEF vars
  <2>2. \A j \in Nodes, q \in PeerIds : Frames(j, q)' = Frames(j, q)
    BY <2>1, SameFrames
  <2> QED
    BY <2>1, <2>2 DEF Spreads
<1>2. CASE Next
  <2>1. PICK n \in Nodes :
           \/ main(n)
           \/ \E p \in PeerIds : connection_thread(n, p) \/ publisher_miss(n, p) \/ lose(n, p)
           \/ publisher_add(n)
           \/ crash(n) \/ restart(n)
    BY <1>2 DEF Next
  <2>2. ASSUME NEW p \in PeerIds, connection_thread(n, p) PROVE Spreads
    BY <2>2, ServingSpreads, AddSpreads DEF connection_thread
  <2> QED
    BY <2>1, <2>2, MainSpreads, AddSpreads, CrashSpreads
<1> QED
  BY <1>1, <1>2

-----------------------------------------------------------------------------
\* Every other node was configured with the address of h, and nobody with another.
Star(h) ==
  \A n \in Nodes : /\ n # h => Len(Bootstrap[n]) > 0
                   /\ \A i \in 1..Len(Bootstrap[n]) : Bootstrap[n][i] = h

\* Nobody has heard of a, and a of nobody; a has sent JOIN_REQUESTs to h, by its
\* address, and nothing else.
Unheard(h, a) ==
  /\ \A n \in Nodes : node(a) \notin table[n] /\ node(n) \notin table[a]
  /\ \A n \in Nodes, p \in PeerIds :
        /\ workers[n][p] # a /\ node(a) \notin handler[n][p].peers
        /\ \A x \in Frames(n, p) : node(a) \notin x.peers
  /\ \A p \in PeerIds : p # alias(h) => Frames(a, p) = {}

\* The hub is the first to list a node.
First(h) ==
  \A a \in Nodes \ {h} : node(a) \notin table[h] => Unheard(h, a)

\* Where the hub has no worker for an entry yet, the thread that reads what its owner
\* sends to h's address is about to create it: its reply will not miss it.
Direct(h) ==
  \A a \in Nodes \ {h} : node(a) \in table[h] /\ workers[h][node(a)] = NoWorker =>
     handler[a][alias(h)].pc = "ensure" /\ handler[a][alias(h)].peer = node(a)

\* In a star there is one alias, everybody else has a worker for it, and ids are told
\* apart.
LEMMA StarIds ==
  ASSUME NEW h \in Nodes, Star(h)
  PROVE  /\ \A p \in PeerIds : p.kind = "bootstrap@" => p = alias(h) /\ p.of = h
         /\ \A p \in PeerIds : p.kind # "bootstrap@" => p = node(p.of)
         /\ \A a \in Nodes \ {h} : alias(h) \in PeerIds /\ Names(a, h)
<1>1. ASSUME NEW a \in Nodes \ {h} PROVE alias(h) \in PeerIds /\ Names(a, h)
  <2>1. 1 \in 1..Len(Bootstrap[a]) /\ Bootstrap[a][1] = h
    BY BootstrapFacts DEF Star
  <2> QED
    BY <2>1, BootstrapFacts DEF Names
<1>2. ASSUME NEW p \in PeerIds, p.kind = "bootstrap@" PROVE p = alias(h) /\ p.of = h
  <2>1. PICK m \in Listed : p = alias(m)
    BY <1>2, PeerIdFacts DEF PeerIds
  <2>2. m = h
    BY <2>1 DEF Listed, Star
  <2> QED
    BY <2>1, <2>2, PeerIdFacts
<1>3. ASSUME NEW p \in PeerIds, p.kind # "bootstrap@" PROVE p = node(p.of)
  BY <1>3, PeerIdFacts DEF PeerIds
<1> QED
  BY <1>1, <1>2, <1>3

\* A node the hub has just listed has sent it a JOIN_REQUEST, which is being handled.
LEMMA Newcomer ==
  ASSUME IInv, Posted, NEW h \in Nodes, Star(h), First(h), Spreads,
         NEW a \in Nodes \ {h}, node(a) \notin table[h], node(a) \in table'[h]
  PROVE  handler'[a][alias(h)].pc = "ensure" /\ handler'[a][alias(h)].peer = node(a)
<1>1. node(a) \in PeerIds /\ node(a).kind # "bootstrap@"
  BY PeerIdFacts
<1>2. Unheard(h, a)
  BY DEF First
<1>3. PICK n \in Nodes, p \in PeerIds :
         /\ workers[n][p] = h
         /\ \/ node(a) \in handler[n][p].peers
            \/ /\ node(a) = node(n) /\ Frames(n, p) # {}
               /\ handler'[n][p].pc = "ensure" /\ handler'[n][p].peer = node(a)
  BY <1>1 DEF Spreads
<1>4. /\ node(a) = node(n) /\ Frames(n, p) # {}
      /\ handler'[n][p].pc = "ensure" /\ handler'[n][p].peer = node(a)
  BY <1>2, <1>3 DEF Unheard
<1>5. n = a
  BY <1>4, PeerIdFacts
<1>6. p = alias(h)
  BY <1>2, <1>4, <1>5 DEF Unheard
<1> QED
  BY <1>4, <1>5, <1>6

\* The hub stays the first to list a node.
LEMMA FirstKept ==
  ASSUME IInv, Posted, Posted', NEW h \in Nodes, Star(h), First(h), Spreads,
         table[h] \subseteq table'[h]
  PROVE  First(h)'
<1> SUFFICES ASSUME NEW a \in Nodes \ {h}, node(a) \notin table'[h]
             PROVE  /\ \A n \in Nodes : node(a) \notin table'[n] /\ node(n) \notin table'[a]
                    /\ \A n \in Nodes, p \in PeerIds :
                          /\ workers'[n][p] # a /\ node(a) \notin handler'[n][p].peers
                          /\ \A x \in Frames(n, p)' : node(a) \notin x.peers
                    /\ \A p \in PeerIds : p # alias(h) => Frames(a, p)' = {}
  BY DEF First, Unheard, node, alias
<1>1. Unheard(h, a)
  BY DEF First
<1>2. /\ \A n \in Nodes : node(n) \in PeerIds /\ node(n).kind # "bootstrap@" /\ node(n).of = n
      /\ a # NoWorker /\ a # Unreachable
  BY PeerIdFacts, MembershipAssumption
<1>3. ASSUME NEW n \in Nodes, node(a) \in table'[n] PROVE FALSE
  <2>1. PICK m \in Nodes, p \in PeerIds :
           /\ workers[m][p] = n
           /\ \/ node(a) \in handler[m][p].peers
              \/ node(a) = node(m) /\ Frames(m, p) # {}
    BY <1>1, <1>2, <1>3 DEF Spreads, Unheard
  <2>2. m = a /\ Frames(a, p) # {}
    BY <1>1, <1>2, <2>1 DEF Unheard
  <2>3. p = alias(h)
    BY <1>1, <2>2 DEF Unheard
  <2>4. workers[m][p] \in {NoWorker, Unreachable, p.of}
    BY DEF Posted
  <2>5. n = h
    BY <2>1, <2>3, <2>4, PeerIdFacts, MembershipAssumption
  <2> QED
    BY <1>3, <2>5
<1>4. ASSUME NEW n \in Nodes, node(n) \in table'[a] PROVE FALSE
  <2>1. node(n) \in table[a] \/ \E m \in Nodes, p \in PeerIds : workers[m][p] = a
    BY <1>2, <1>4 DEF Spreads
  <2> QED
    BY <1>1, <2>1 DEF Unheard
<1>5. ASSUME NEW n \in Nodes, NEW p \in PeerIds, workers'[n][p] = a PROVE FALSE
  <2>1. p.of = a
    BY <1>2, <1>5 DEF Posted
  <2>2. p = node(a)
    BY <2>1, StarIds
  <2> QED
    BY <1>1, <1>2, <1>5, <2>2 DEF Spreads, Unheard
<1>6. ASSUME NEW n \in Nodes, NEW p \in PeerIds, node(a) \in handler'[n][p].peers PROVE FALSE
  <2>1. \/ node(a) \in handler[n][p].peers \/ \E x \in Frames(n, p) : node(a) \in x.peers
        \/ \E k \in Nodes : node(a) \in table[k]
    BY <1>6 DEF Spreads
  <2> QED
    BY <1>1, <2>1 DEF Unheard
<1>7. ASSUME NEW n \in Nodes, NEW p \in PeerIds, NEW x \in Frames(n, p)', node(a) \in x.peers
      PROVE  FALSE
  BY <1>1, <1>7 DEF Spreads, Unheard
<1>8. ASSUME NEW p \in PeerIds, p # alias(h), NEW x \in Frames(a, p)' PROVE FALSE
  <2>1. p.kind # "bootstrap@" /\ x \notin Frames(a, p)
    BY <1>1, <1>8, StarIds DEF Unheard
  <2> QED
    BY <1>1, <1>8, <2>1 DEF Spreads, Unheard
<1> QED
  BY <1>3, <1>4, <1>5, <1>6, <1>7, <1>8

\* The thread that listed a node wires it.
LEMMA DirectKept ==
  ASSUME IInv, Posted, Started, NEW h \in Nodes, Star(h), First(h), Direct(h), Spreads, Follows,
         step[h] # -1, step'[h] # -1
  PROVE  Direct(h)'
<1> SUFFICES ASSUME NEW a \in Nodes \ {h}, node(a) \in table'[h], workers'[h][node(a)] = NoWorker
             PROVE  handler'[a][alias(h)].pc = "ensure" /\ handler'[a][alias(h)].peer = node(a)
  BY DEF Direct, node, alias
<1>1. node(a) \in PeerIds /\ alias(h) \in PeerIds
  BY PeerIdFacts, StarIds
<1>2. CASE node(a) \notin table[h]
  BY <1>2, Newcomer
<1>3. CASE node(a) \in table[h]
  <2>1. workers[h][node(a)] = NoWorker
    BY <1>1 DEF Follows
  <2>2. handler[a][alias(h)].pc = "ensure" /\ handler[a][alias(h)].peer = node(a)
    BY <1>3, <2>1 DEF Direct
  <2>3. workers[a][alias(h)] = h
    BY StarIds DEF Names, Started
  <2>4. Runs(a, alias(h), h, "ensure")
    BY <2>2, <2>3 DEF Runs
  <2>5. handler'[a][alias(h)] = handler[a][alias(h)]
    BY <1>1, <2>2, <2>4 DEF Spreads
  <2> QED
    BY <2>2, <2>5
<1> QED
  BY <1>2, <1>3

-----------------------------------------------------------------------------
\* Node a has still to send its first JOIN_REQUEST.
Starting(a) == step[a] <= Len(Bootstrap[a]) + 1

\* A JOIN_REQUEST of a for the address l is going to be answered with a list that has
\* the entry e.
Asks(a, l, e) ==
  \/ Join(a) \in Frames(a, l)
  \/ handler[a][l].pc \in {"ensure", "discover", "list"}
  \/ handler[a][l].pc = "reply" /\ e \in handler[a][l].peers

\* Such a list is on its way from h to the owner of p, or being integrated there.
Answered(h, p, e) ==
  \/ \E x \in Frames(h, p) : x.type = "PEER_LIST" /\ e \in x.peers
  \/ /\ handler[h][p].pc \in {"entries", "ensure", "discover"}
     /\ handler[h][p].msg = "PEER_LIST" /\ e \in handler[h][p].peers

\* Node a lists b, or the hub is going to tell it.
Told(h, a, b) ==
  \/ Starting(a) \/ Asks(a, alias(h), node(b)) \/ Answered(h, node(a), node(b))
  \/ node(b) \in table[a]

\* The hub lists a by its id p, and b by e; l is the hub's address.
Both(h, a, b, l, p, e) ==
  /\ a \in Nodes /\ b \in Nodes /\ a # h /\ b # h /\ a # b
  /\ l = alias(h) /\ p = node(a) /\ e = node(b)
  /\ l \in PeerIds /\ p \in PeerIds /\ e \in PeerIds /\ l # p
  /\ p \in table[h] /\ e \in table[h] /\ workers[a][l] = h

\* What is left to show of a step.
Tells(h, a, l, p, e) ==
  Starting(a)' \/ Asks(a, l, e)' \/ Answered(h, p, e)' \/ e \in table'[a]

\* A step that leaves the threads and frames alone leaves the request and the answer.
LEMMA AsksKept ==
  ASSUME NEW a, NEW l, NEW e, Asks(a, l, e), handler'[a][l] = handler[a][l],
         Frames(a, l) \subseteq Frames(a, l)'
  PROVE  Asks(a, l, e)'
BY DEF Asks, Join

\* The same for the answer.
LEMMA AnsweredKept ==
  ASSUME NEW h, NEW p, NEW e, Answered(h, p, e), handler'[h][p] = handler[h][p],
         Frames(h, p) \subseteq Frames(h, p)'
  PROVE  Answered(h, p, e)'
BY DEF Answered

\* A thread leaves the other threads alone and takes no frames from them.
LEMMA ThreadLocal ==
  ASSUME IInv, Posted, NEW n \in Nodes, NEW p \in PeerIds, connection_thread(n, p),
         NEW m \in Nodes, NEW q \in PeerIds, m # n \/ q # p
  PROVE  handler'[m][q] = handler[m][q] /\ Frames(m, q) \subseteq Frames(m, q)'
<1>1. PICK k \in Nodes :
         \/ handle_join_request(n, p, k) \/ handle_peer_list(n, p, k)
         \/ integrate(n, p, k) \/ ensure_client_peer(n, p, k)
         \/ discovery_join(n, p, k) \/ list_peers(n, p, k) \/ reply(n, p, k)
  BY DEF connection_thread
<1>2. CASE handle_join_request(n, p, k)
  <2>1. /\ \E x \in Frames(n, p) : x.type = "JOIN_REQUEST" /\ Drops(n, p, x)
        /\ \E t \in Thread : Admits(n, p, k, t)
    BY <1>2, JoinDoes, Zenon
  <2> QED
    BY <2>1 DEF Drops, Admits, Becomes
<1>3. CASE handle_peer_list(n, p, k)
  <2>1. \E x, t : Drops(n, p, x) /\ Becomes(n, p, t)
    BY <1>3, ListDoes
  <2> QED
    BY <2>1 DEF Drops, Becomes
<1>4. CASE integrate(n, p, k)
  <2>1. chan' = chan /\ \E t : Becomes(n, p, t)
    BY <1>4, IntegrateDoes DEF Enlists
  <2> QED
    BY <2>1, SameFrames DEF Becomes
<1>5. CASE ensure_client_peer(n, p, k)
  <2>1. chan' = chan /\ \E t : Becomes(n, p, t)
    BY <1>5, EnsureDoes DEF MovesTo
  <2> QED
    BY <2>1, SameFrames DEF Becomes
<1>6. CASE discovery_join(n, p, k)
  <2>1. /\ \A j \in Nodes, r \in PeerIds :
              Frames(j, r)' = IF j = k /\ r = handler[n][p].peer
                                THEN Frames(j, r) \cup {Join(k)} ELSE Frames(j, r)
        /\ \E t : Becomes(n, p, t)
    BY <1>6, DiscoverDoes DEF MovesTo
  <2> QED
    BY <2>1 DEF Becomes
<1>7. CASE list_peers(n, p, k)
  <2>1. chan' = chan /\ \E t : Becomes(n, p, t)
    BY <1>7, SnapshotDoes
  <2> QED
    BY <2>1, SameFrames DEF Becomes
<1>8. CASE reply(n, p, k)
  <2>1. PICK x : x = PeerList(k, handler[n][p].peers)
    OBVIOUS
  <2>2. /\ \A j \in Nodes, r \in PeerIds :
              Frames(j, r)' = IF j = k /\ r = node(n) /\ workers[k][node(n)] # NoWorker
                                THEN Frames(j, r) \cup {x} ELSE Frames(j, r)
        /\ Becomes(n, p, Idle(n, p))
    BY <1>8, <2>1, ReplyDoes
  <2> QED
    BY <2>2 DEF Becomes
<1> QED
  BY <1>1, <1>2, <1>3, <1>4, <1>5, <1>6, <1>7, <1>8

\* The hub's thread for a's JOIN_REQUESTs: a request is answered with the whole list,
\* and the answer does not miss its worker.
LEMMA HubAnswers ==
  ASSUME IInv, Posted, NEW h \in Nodes, Direct(h), NEW a, NEW b, NEW l, NEW p, NEW e,
         Both(h, a, b, l, p, e), Asks(a, l, e), connection_thread(a, l)
  PROVE  Tells(h, a, l, p, e)
<1>1. /\ a \in Nodes /\ a # h /\ workers[a][l] = h /\ l \in PeerIds /\ p \in PeerIds
      /\ l = alias(h) /\ p = node(a) /\ e \in table[h] /\ p \in table[h]
      /\ l.kind = "bootstrap@"
  BY PeerIdFacts DEF Both
<1>2. PICK k \in Nodes :
         \/ handle_join_request(a, l, k) \/ handle_peer_list(a, l, k)
         \/ integrate(a, l, k) \/ ensure_client_peer(a, l, k)
         \/ discovery_join(a, l, k) \/ list_peers(a, l, k) \/ reply(a, l, k)
  BY DEF connection_thread
<1>3. CASE handle_join_request(a, l, k)
  <2>1. Serves(a, l, k, "read") /\ \E t \in Thread : Admits(a, l, k, t)
    BY <1>1, <1>3, JoinDoes, Zenon
  <2>2. PICK t \in Thread : Admits(a, l, h, t)
    BY <1>1, <2>1 DEF Serves
  <2>3. handler'[a][l].pc \in {"ensure", "list"}
    BY <1>1, <2>2 DEF Admits, Becomes
  <2> QED
    BY <2>3 DEF Tells, Asks
<1>4. CASE handle_peer_list(a, l, k)
  <2>1. \E x \in Frames(a, l) : x.type = "PEER_LIST"
    BY <1>1, <1>4, ListDoes
  <2> QED
    BY <1>1, <2>1 DEF Posted
<1>5. CASE integrate(a, l, k)
  <2>1. chan' = chan /\ handler[a][l].pc = "entries"
    BY <1>5 DEF integrate, At
  <2>2. Join(a) \in Frames(a, l)'
    BY <1>1, <2>1, SameFrames DEF Asks
  <2> QED
    BY <2>2 DEF Tells, Asks, Join
<1>6. CASE ensure_client_peer(a, l, k)
  <2>1. \E t \in Thread : Becomes(a, l, t) /\ t.pc = "discover"
    BY <1>1, <1>6, EnsureDoes DEF MovesTo
  <2>2. handler'[a][l].pc = "discover"
    BY <1>1, <2>1 DEF Becomes
  <2> QED
    BY <2>2 DEF Tells, Asks
<1>7. CASE discovery_join(a, l, k)
  <2>1. handler[a][l].msg = "JOIN_REQUEST"
    BY <1>1 DEF Posted
  <2>2. \E t \in Thread : Becomes(a, l, t) /\ t.pc = "list"
    BY <1>1, <1>7, <2>1, DiscoverDoes DEF MovesTo
  <2>3. handler'[a][l].pc = "list"
    BY <1>1, <2>2 DEF Becomes
  <2> QED
    BY <2>3 DEF Tells, Asks
<1>8. CASE list_peers(a, l, k)
  <2>1. /\ Serves(a, l, k, "list")
        /\ \E t \in Thread : Becomes(a, l, t) /\ t.pc = "reply" /\ t.peers = table[k]
    BY <1>1, <1>8, SnapshotDoes
  <2>2. handler'[a][l].pc = "reply" /\ handler'[a][l].peers = table[h]
    BY <1>1, <2>1 DEF Becomes, Serves
  <2> QED
    BY <1>1, <2>2 DEF Tells, Asks
<1>9. CASE reply(a, l, k)
  <2>1. PICK x : x = PeerList(k, handler[a][l].peers)
    OBVIOUS
  <2>2. /\ Serves(a, l, k, "reply")
        /\ \A j \in Nodes, r \in PeerIds :
              Frames(j, r)' = IF j = k /\ r = node(a) /\ workers[k][node(a)] # NoWorker
                                THEN Frames(j, r) \cup {x} ELSE Frames(j, r)
    BY <1>1, <1>9, <2>1, ReplyDoes
  <2>3. k = h /\ handler[a][l].pc = "reply"
    BY <1>1, <2>2 DEF Serves
  <2>4. CASE Join(a) \in Frames(a, l)
    <3>1. Join(a) \in Frames(a, l)'
      BY <1>1, <2>2, <2>4
    <3> QED
      BY <3>1 DEF Tells, Asks, Join
  <2>5. CASE e \in handler[a][l].peers
    <3>1. workers[h][node(a)] # NoWorker
      BY <1>1, <2>3 DEF Direct
    <3>2. x \in Frames(h, p)'
      BY <1>1, <2>2, <2>3, <3>1
    <3>3. x.type = "PEER_LIST" /\ e \in x.peers
      BY <2>1, <2>5 DEF PeerList
    <3> QED
      BY <3>2, <3>3 DEF Tells, Answered
  <2> QED
    BY <2>3, <2>4, <2>5 DEF Asks
<1> QED
  BY <1>2, <1>3, <1>4, <1>5, <1>6, <1>7, <1>8, <1>9

\* The thread of a that reads what the hub sends: the entry is listed before it is done
\* with the list.
LEMMA LeafIntegrates ==
  ASSUME IInv, Posted, NEW h \in Nodes, NEW a, NEW b, NEW l, NEW p, NEW e,
         Both(h, a, b, l, p, e), Answered(h, p, e), connection_thread(h, p)
  PROVE  Tells(h, a, l, p, e)
<1>1. /\ a \in Nodes /\ p \in PeerIds /\ e \in PeerIds /\ p.of = a /\ e # node(a)
  BY PeerIdFacts DEF Both
<1> DEFINE Listing == \E x \in Frames(h, p) : x.type = "PEER_LIST" /\ e \in x.peers
           Reading == handler[h][p].msg = "PEER_LIST" /\ e \in handler[h][p].peers
<1>2. PICK k \in Nodes :
         \/ handle_join_request(h, p, k) \/ handle_peer_list(h, p, k)
         \/ integrate(h, p, k) \/ ensure_client_peer(h, p, k)
         \/ discovery_join(h, p, k) \/ list_peers(h, p, k) \/ reply(h, p, k)
  BY DEF connection_thread
<1>3. /\ Listing \/ (Reading /\ handler[h][p].pc \in {"entries", "ensure", "discover"})
  BY DEF Answered
<1>4. ASSUME NEW x \in Frames(h, p)', x.type = "PEER_LIST", e \in x.peers
      PROVE  Tells(h, a, l, p, e)
  BY <1>4 DEF Tells, Answered
<1>5. ASSUME NEW t, Becomes(h, p, t), t.pc \in {"entries", "ensure", "discover"},
             t.msg = "PEER_LIST", e \in t.peers
      PROVE  Tells(h, a, l, p, e)
  <2>1. handler'[h][p] = t
    BY <1>1, <1>5 DEF Becomes
  <2> QED
    BY <1>5, <2>1 DEF Tells, Answered
<1>6. ASSUME Listing, Frames(h, p) \subseteq Frames(h, p)' PROVE Tells(h, a, l, p, e)
  BY <1>4, <1>6
<1>7. CASE handle_join_request(h, p, k)
  <2>1. /\ \E x \in Frames(h, p) : x.type = "JOIN_REQUEST" /\ Drops(h, p, x)
        /\ Serves(h, p, k, "read")
    BY <1>1, <1>7, JoinDoes, Zenon
  <2>2. PICK x \in Frames(h, p) : x.type = "JOIN_REQUEST" /\ Drops(h, p, x)
    BY <2>1
  <2>3. PICK y \in Frames(h, p) : y.type = "PEER_LIST" /\ e \in y.peers
    BY <1>3, <2>1 DEF Serves
  <2>4. y \in Frames(h, p)'
    BY <1>1, <2>2, <2>3 DEF Drops
  <2> QED
    BY <1>4, <2>3, <2>4
<1>8. CASE handle_peer_list(h, p, k)
  <2>1. Serves(h, p, k, "read")
    BY <1>1, <1>8, ListDoes
  <2>2. PICK x \in Frames(h, p), t \in Thread :
           /\ Drops(h, p, x) /\ Becomes(h, p, t)
           /\ t.pc = "entries" /\ t.msg = "PEER_LIST" /\ t.peers = x.peers
    BY <1>1, <1>8, ListDoes
  <2>3. PICK y \in Frames(h, p) : y.type = "PEER_LIST" /\ e \in y.peers
    BY <1>3, <2>1 DEF Serves
  <2>4. y = x \/ y \in Frames(h, p)'
    BY <1>1, <2>2, <2>3 DEF Drops
  <2> QED
    BY <1>4, <1>5, <2>2, <2>3, <2>4
<1>9. CASE integrate(h, p, k)
  <2>1. Serves(h, p, k, "entries") /\ chan' = chan
    BY <1>1, <1>9, IntegrateDoes
  <2>2. k = a
    BY <1>1, <2>1 DEF Serves
  <2>3. CASE Listing
    BY <1>1, <1>6, <2>1, <2>3, SameFrames
  <2>4. CASE Reading
    <3>1. CASE \E d \in handler[h][p].peers, t \in Thread : Enlists(h, p, k, d, t)
      <4>1. PICK d \in handler[h][p].peers, t \in Thread : Enlists(h, p, k, d, t)
        BY <3>1
      <4>2. CASE d = e
        BY <1>1, <2>2, <4>1, <4>2 DEF Enlists, Tells
      <4>3. CASE d # e
        <5>1. /\ Becomes(h, p, t) /\ t.pc \in {"entries", "ensure", "discover"}
              /\ t.msg = "PEER_LIST" /\ e \in t.peers
          BY <2>4, <4>1, <4>3 DEF Enlists
        <5> QED
          BY <1>5, <5>1
      <4> QED
        BY <4>2, <4>3
    <3>2. CASE table' = table /\ handler[h][p].peers \subseteq table[k] \cup {node(k)}
      BY <1>1, <2>2, <2>4, <3>2 DEF Tells
    <3> QED
      BY <1>1, <1>9, <3>1, <3>2, IntegrateDoes
  <2> QED
    BY <1>3, <2>3, <2>4
<1>10. CASE ensure_client_peer(h, p, k)
  <2>1. chan' = chan /\ MovesTo(h, p, "discover")
    BY <1>1, <1>10, EnsureDoes
  <2>2. CASE Listing
    BY <1>1, <1>6, <2>1, <2>2, SameFrames
  <2>3. CASE Reading
    BY <1>5, <2>1, <2>3 DEF MovesTo
  <2> QED
    BY <1>3, <2>2, <2>3
<1>11. CASE discovery_join(h, p, k)
  <2>1. /\ \A j \in Nodes, r \in PeerIds :
              Frames(j, r)' = IF j = k /\ r = handler[h][p].peer
                                THEN Frames(j, r) \cup {Join(k)} ELSE Frames(j, r)
        /\ MovesTo(h, p, IF handler[h][p].msg = "JOIN_REQUEST" THEN "list" ELSE "entries")
    BY <1>1, <1>11, DiscoverDoes
  <2>2. CASE Listing
    BY <1>1, <1>6, <2>1, <2>2
  <2>3. CASE Reading
    <3>1. MovesTo(h, p, "entries")
      BY <2>1, <2>3
    <3> QED
      BY <1>5, <2>3, <3>1 DEF MovesTo
  <2> QED
    BY <1>3, <2>2, <2>3
<1>12. CASE list_peers(h, p, k)
  <2>1. Serves(h, p, k, "list") /\ chan' = chan
    BY <1>1, <1>12, SnapshotDoes
  <2>2. Listing
    BY <1>3, <2>1 DEF Serves
  <2> QED
    BY <1>1, <1>6, <2>1, <2>2, SameFrames
<1>13. CASE reply(h, p, k)
  <2>1. PICK x : x = PeerList(k, handler[h][p].peers)
    OBVIOUS
  <2>2. /\ Serves(h, p, k, "reply")
        /\ \A j \in Nodes, r \in PeerIds :
              Frames(j, r)' = IF j = k /\ r = node(h) /\ workers[k][node(h)] # NoWorker
                                THEN Frames(j, r) \cup {x} ELSE Frames(j, r)
    BY <1>1, <1>13, <2>1, ReplyDoes
  <2>3. Listing
    BY <1>3, <2>2 DEF Serves
  <2> QED
    BY <1>1, <1>6, <2>2, <2>3
<1> QED
  BY <1>2, <1>7, <1>8, <1>9, <1>10, <1>11, <1>12, <1>13

\* A step other than a thread's leaves the request and the answer alone, as long as
\* both processes live.
LEMMA OthersLeave ==
  ASSUME IInv, Posted, Started, NEW h \in Nodes, NEW a, NEW b, NEW l, NEW p, NEW e,
         Both(h, a, b, l, p, e), [Next]_vars,
         \A n \in Nodes, q \in PeerIds : ~connection_thread(n, q),
         step[h] # -1, step'[h] # -1, step[a] # -1, step'[a] # -1
  PROVE  /\ handler'[a][l] = handler[a][l] /\ Frames(a, l) \subseteq Frames(a, l)'
         /\ handler'[h][p] = handler[h][p] /\ Frames(h, p) \subseteq Frames(h, p)'
<1> USE DEF IInv
<1>1. a \in Nodes /\ l \in PeerIds /\ p \in PeerIds /\ workers[a][l] = h /\ p.of = a /\ a # h
  BY PeerIdFacts DEF Both
<1>2. workers[h][p] \in {NoWorker, Unreachable, a} /\ NoWorker \notin Nodes /\ Unreachable \notin Nodes
  BY <1>1, MembershipAssumption DEF Posted
<1>3. ASSUME handler' = handler, chan' = chan
      PROVE  /\ handler'[a][l] = handler[a][l] /\ Frames(a, l) \subseteq Frames(a, l)'
             /\ handler'[h][p] = handler[h][p] /\ Frames(h, p) \subseteq Frames(h, p)'
  BY <1>1, <1>3, SameFrames
<1>4. CASE UNCHANGED vars
  BY <1>3, <1>4 DEF vars
<1>5. CASE Next
  <2>1. PICK n \in Nodes :
           \/ main(n)
           \/ \E q \in PeerIds : publisher_miss(n, q) \/ lose(n, q)
           \/ publisher_add(n)
           \/ crash(n) \/ restart(n)
    BY <1>5 DEF Next
  <2>2. CASE start_server(n) \/ seed(n) \/ publisher_add(n) \/ restart(n)
    BY <1>3, <2>2 DEF start_server, seed, publisher_add, restart
  <2>3. ASSUME NEW q \in PeerIds, publisher_miss(n, q)
        PROVE  handler' = handler /\ chan' = chan
    BY <2>3 DEF publisher_miss
  <2>4. CASE bootstrap(n)
    <3>1. PICK q \in PeerIds : send_json(n, q, Join(n)) /\ handler' = handler
      <4>1. step[n] \in Int /\ Len(Bootstrap[n]) \in Nat
        BY BootstrapFacts DEF Hosted
      <4>2. step[n] - Len(Bootstrap[n]) \in 1..Len(Bootstrap[n])
        BY <2>4, <4>1 DEF bootstrap
      <4> QED
        BY <2>4, <4>2, BootstrapFacts DEF bootstrap
    <3>2. Join(n) \in Message
      BY RecordsTyped
    <3>3. \A k \in Nodes, r \in PeerIds :
             Frames(k, r)' = IF k = n /\ r = q THEN Frames(k, r) \cup {Join(n)} ELSE Frames(k, r)
      BY <3>1, <3>2, FrameSent
    <3> QED
      BY <1>1, <3>1, <3>3
  <2>5. ASSUME NEW q \in PeerIds, lose(n, q)
        PROVE  /\ handler'[a][l] = handler[a][l] /\ Frames(a, l) \subseteq Frames(a, l)'
               /\ handler'[h][p] = handler[h][p] /\ Frames(h, p) \subseteq Frames(h, p)'
    <3>1. /\ handler' = handler
          /\ step[n] = -1 \/ \E k \in Nodes : workers[n][q] = k /\ step[k] = -1
      BY <2>5 DEF lose
    <3>2. \A k \in Nodes, r \in PeerIds : k # n \/ r # q => Frames(k, r)' = Frames(k, r)
      BY <2>5, FrameLost
    <3>3. ~(n = a /\ q = l) /\ ~(n = h /\ q = p)
      BY <1>1, <1>2, <3>1
    <3> QED
      BY <1>1, <3>1, <3>2, <3>3
  <2>6. CASE crash(n)
    <3>1. /\ chan' = chan /\ step'[n] = -1
          /\ \A j \in Nodes, q \in PeerIds :
                handler'[j][q] = IF workers[j][q] = n THEN Idle(j, q) ELSE handler[j][q]
      BY <2>6, CrashDoes
    <3>2. workers[a][l] # n /\ workers[h][p] # n
      BY <1>1, <1>2, <3>1
    <3> QED
      BY <1>1, <3>1, <3>2, SameFrames
  <2> QED
    BY <1>3, <2>1, <2>2, <2>3, <2>4, <2>5, <2>6 DEF main
<1> QED
  BY <1>4, <1>5

\* What the hub is going to tell a node it tells it, unless the node dies: then it will
\* ask again.
LEMMA ToldKept ==
  ASSUME IInv, IInv', Posted, Started, NEW h \in Nodes, Star(h), Direct(h), Follows,
         [Next]_vars, step[h] # -1, step'[h] # -1,
         NEW a \in Nodes \ {h}, NEW b \in Nodes \ {h}, a # b,
         node(a) \in table[h], node(b) \in table[h], Told(h, a, b)
  PROVE  Told(h, a, b)'
<1>1. PICK l, p, e : l = alias(h) /\ p = node(a) /\ e = node(b)
  OBVIOUS
<1>2. /\ 1 \in 1..Len(Bootstrap[a]) /\ Bootstrap[a][1] = h /\ Len(Bootstrap[a]) \in Nat
      /\ step[a] \in Int /\ step'[a] \in Int
  BY BootstrapFacts DEF Star, IInv, Hosted
<1>3. Both(h, a, b, l, p, e)
  <2>1. l \in PeerIds /\ p \in PeerIds /\ e \in PeerIds /\ l # p
    BY <1>1, StarIds, PeerIdFacts
  <2>2. workers[a][l] = h
    BY <1>1, <1>2 DEF Started
  <2> QED
    BY <1>1, <2>1, <2>2 DEF Both
<1>4. a \in Nodes /\ l \in PeerIds /\ p \in PeerIds /\ l # p
  BY <1>3 DEF Both
<1>5. SUFFICES Tells(h, a, l, p, e)
  BY <1>1 DEF Tells, Told, Starting, Asks, Answered, node, alias, Join
<1>6. CASE step'[a] = -1
  BY <1>2, <1>6 DEF Tells, Starting
<1>7. CASE Starting(a)
  <2>1. step'[a] > Len(Bootstrap[a]) + 1 => step[a] > Len(Bootstrap[a]) + 1 \/ Join(a) \in Frames(a, l)'
    BY <1>1, <1>2, <1>4 DEF Follows
  <2>2. step'[a] <= Len(Bootstrap[a]) + 1 \/ Join(a) \in Frames(a, l)'
    BY <1>2, <1>7, <2>1 DEF Starting
  <2> QED
    BY <2>2 DEF Tells, Starting, Asks, Join
<1>8. CASE step'[a] # -1 /\ ~Starting(a)
  <2>1. step[a] # -1
    BY <1>2, <1>8 DEF Starting
  <2>2. ASSUME Asks(a, l, e) PROVE Tells(h, a, l, p, e)
    <3>1. ASSUME NEW n \in Nodes, NEW q \in PeerIds, connection_thread(n, q)
          PROVE  Tells(h, a, l, p, e)
      <4>1. CASE n = a /\ q = l
        BY <1>3, <2>2, <3>1, <4>1, HubAnswers
      <4>2. CASE ~(n = a /\ q = l)
        <5>1. handler'[a][l] = handler[a][l] /\ Frames(a, l) \subseteq Frames(a, l)'
          BY <1>4, <3>1, <4>2, ThreadLocal
        <5> QED
          BY <2>2, <5>1, AsksKept DEF Tells
      <4> QED
        BY <4>1, <4>2
    <3>2. ASSUME \A n \in Nodes, q \in PeerIds : ~connection_thread(n, q)
          PROVE  Tells(h, a, l, p, e)
      <4>1. handler'[a][l] = handler[a][l] /\ Frames(a, l) \subseteq Frames(a, l)'
        BY <1>3, <1>8, <2>1, <3>2, OthersLeave
      <4> QED
        BY <2>2, <4>1, AsksKept DEF Tells
    <3> QED
      BY <3>1, <3>2
  <2>3. ASSUME Answered(h, p, e) PROVE Tells(h, a, l, p, e)
    <3>1. ASSUME NEW n \in Nodes, NEW q \in PeerIds, connection_thread(n, q)
          PROVE  Tells(h, a, l, p, e)
      <4>1. CASE n = h /\ q = p
        BY <1>3, <2>3, <3>1, <4>1, LeafIntegrates
      <4>2. CASE ~(n = h /\ q = p)
        <5>1. handler'[h][p] = handler[h][p] /\ Frames(h, p) \subseteq Frames(h, p)'
          BY <1>4, <3>1, <4>2, ThreadLocal
        <5> QED
          BY <2>3, <5>1, AnsweredKept DEF Tells
      <4> QED
        BY <4>1, <4>2
    <3>2. ASSUME \A n \in Nodes, q \in PeerIds : ~connection_thread(n, q)
          PROVE  Tells(h, a, l, p, e)
      <4>1. handler'[h][p] = handler[h][p] /\ Frames(h, p) \subseteq Frames(h, p)'
        BY <1>3, <1>8, <2>1, <3>2, OthersLeave
      <4> QED
        BY <2>3, <4>1, AnsweredKept DEF Tells
    <3> QED
      BY <3>1, <3>2
  <2>4. CASE e \in table[a]
    BY <1>8, <2>1, <2>4 DEF Follows, Tells
  <2> QED
    BY <1>1, <1>8, <2>2, <2>3, <2>4 DEF Told
<1> QED
  BY <1>6, <1>7, <1>8

-----------------------------------------------------------------------------
\* Of two nodes the hub lists, one is told of the other.
Pairs(h) ==
  \A a, b \in Nodes \ {h} : a # b /\ node(a) \in table[h] /\ node(b) \in table[h] =>
     Told(h, a, b) \/ Told(h, b, a)

\* Whoever lists another sends it a JOIN_REQUEST; when that is gone there is a worker
\* and the other one is told, or knows.
Back(h) ==
  \A a, b \in Nodes \ {h} : node(b) \in table[a] =>
     \/ Underway(a, node(b)) \/ Join(a) \in Frames(a, node(b))
     \/ workers[a][node(b)] = b /\ Told(h, b, a)

\* What holds around a hub that has not died.
Hubbed(h) == Lasting(h) => First(h) /\ Direct(h) /\ Pairs(h) /\ Back(h)

\* A node the hub has just listed will be told of everyone.
LEMMA PairsKept ==
  ASSUME IInv, IInv', Posted, Started, NEW h \in Nodes, Star(h), First(h), Direct(h), Pairs(h),
         Spreads, Follows, [Next]_vars, step[h] # -1, step'[h] # -1
  PROVE  Pairs(h)'
<1> SUFFICES ASSUME NEW a \in Nodes \ {h}, NEW b \in Nodes \ {h}, a # b,
                    node(a) \in table'[h], node(b) \in table'[h]
             PROVE  Told(h, a, b)' \/ Told(h, b, a)'
  BY DEF Pairs, node
<1>1. ASSUME NEW c \in Nodes \ {h}, node(c) \in table'[h], node(c) \notin table[h],
             NEW d \in Nodes
      PROVE  Told(h, c, d)'
  <2>1. handler'[c][alias(h)].pc = "ensure"
    BY <1>1, Newcomer
  <2> QED
    BY <2>1 DEF Told, Asks, alias
<1>2. CASE node(a) \in table[h] /\ node(b) \in table[h]
  BY <1>2, ToldKept DEF Pairs
<1> QED
  BY <1>1, <1>2

\* A JOIN_REQUEST that is gone was read, or its receiver has died and will ask the hub.
LEMMA BackKept ==
  ASSUME IInv, IInv', Posted, Started, NEW h \in Nodes, Star(h), First(h), Direct(h), Back(h),
         Follows, [Next]_vars, step[h] # -1, step'[h] # -1
  PROVE  Back(h)'
<1> SUFFICES ASSUME NEW a \in Nodes \ {h}, NEW b \in Nodes \ {h}, node(b) \in table'[a]
             PROVE  \/ Underway(a, node(b))' \/ Join(a) \in Frames(a, node(b))'
                    \/ workers'[a][node(b)] = b /\ Told(h, b, a)'
  BY DEF Back, node, Join
<1>1. PICK q \in PeerIds : q = node(b) /\ q.kind = "node" /\ q.of = b
  BY PeerIdFacts
<1>2. CASE q \notin table[a]
  BY <1>1, <1>2 DEF Follows, node
<1>3. CASE q \in table[a]
  <2>1. step[a] # -1 /\ step'[a] # -1
    <3>1. step[a] <= 0 => table[a] = {}
      BY DEF IInv, Hosted
    <3>2. step'[a] <= 0 => table'[a] = {}
      BY DEF IInv, Hosted
    <3> QED
      BY <1>3, <3>1, <3>2
  <2>2. a # b /\ b # NoWorker
    BY <1>1, <1>3, MembershipAssumption DEF IInv, TypeOK
  <2>3. node(a) \in table[h] /\ node(b) \in table[h]
    BY <1>1, <1>3 DEF First, Unheard
  <2>4. ASSUME Told(h, b, a) PROVE Told(h, b, a)'
    BY <2>2, <2>3, <2>4, ToldKept
  <2>5. CASE Underway(a, q)
    <3>1. Underway(a, q)' \/ Join(a) \in Frames(a, q)'
      BY <2>1, <2>5 DEF Follows
    <3> QED
      BY <1>1, <3>1 DEF node, Underway, Frames
  <2>6. CASE Join(a) \in Frames(a, q)
    <3>1. \/ Join(a) \in Frames(a, q)'
          \/ workers[a][q] = b /\ (node(a) \in table'[b] \/ step[b] = -1)
      BY <1>1, <2>1, <2>2, <2>6 DEF Follows
    <3>2. CASE Join(a) \in Frames(a, q)'
      BY <1>1, <3>2 DEF node, Frames
    <3>3. CASE workers[a][q] = b /\ (node(a) \in table'[b] \/ step[b] = -1)
      <4>1. workers'[a][q] = b
        BY <2>1, <2>2, <3>3 DEF Follows
      <4>2. step[b] = -1 => Told(h, b, a)
        BY BootstrapFacts DEF Told, Starting
      <4>3. node(a) \in table'[b] => Told(h, b, a)'
        BY DEF Told, node
      <4> QED
        BY <1>1, <2>4, <3>3, <4>1, <4>2, <4>3
    <3> QED
      BY <3>1, <3>2, <3>3
  <2>7. CASE workers[a][q] = b /\ Told(h, b, a)
    <3>1. workers'[a][q] = b
      BY <2>1, <2>2, <2>7 DEF Follows
    <3> QED
      BY <1>1, <2>4, <2>7, <3>1
  <2> QED
    BY <1>1, <1>3, <2>5, <2>6, <2>7 DEF Back
<1> QED
  BY <1>2, <1>3

\* At start-up nobody lists anybody.
LEMMA InitHubbed ==
  ASSUME Init, NEW h \in Nodes, Star(h)
  PROVE  First(h) /\ Direct(h) /\ Pairs(h) /\ Back(h)
<1>1. \A n \in Nodes : table[n] = {}
  BY DEF Init
<1>2. \A n \in Nodes, p \in PeerIds : chan[n][p] = <<>> /\ handler[n][p] = Idle(n, p)
  BY DEF Init
<1>3. \A n \in Nodes, p \in PeerIds : Frames(n, p) = {} /\ handler[n][p].peers = {}
  <2>1. \A n \in Nodes, p \in PeerIds : Frames(n, p) = {}
    BY <1>2, EmptySeq DEF Frames
  <2>2. \A n \in Nodes, p \in PeerIds : Idle(n, p).peers = {}
    BY DEF Idle
  <2> QED
    BY <1>2, <2>1, <2>2
<1>4. ASSUME NEW n \in Nodes, NEW p \in PeerIds PROVE workers[n][p] \in {NoWorker, h}
  <2>1. p.kind = "bootstrap@" => p.of = h
    BY StarIds
  <2>2. \A m : alias(m).kind = "bootstrap@"
    BY PeerIdFacts
  <2> QED
    BY <2>1, <2>2 DEF Init, bootstrap_workers
<1>5. First(h)
  BY <1>1, <1>3, <1>4, MembershipAssumption DEF First, Unheard
<1>6. Direct(h) /\ Pairs(h) /\ Back(h)
  BY <1>1 DEF Direct, Pairs, Back
<1> QED
  BY <1>5, <1>6

\* As long as the hub of a star has not died it is the first to list a node, its answer
\* does not miss its worker, and it tells one of any two nodes of the other, again
\* after every restart of a node.
THEOREM HubTells ==
  ASSUME NEW h \in Nodes, Star(h)
  PROVE  Spec => []Hubbed(h)
<1>1. Init => Hubbed(h)
  BY InitHubbed DEF Hubbed
<1>2. IInv /\ IInv' /\ Standing /\ Standing' /\ Hubbed(h) /\ [Next]_vars => Hubbed(h)'
  <2> SUFFICES ASSUME IInv, IInv', Standing, Standing', Hubbed(h), [Next]_vars, Lasting(h)'
               PROVE  First(h)' /\ Direct(h)' /\ Pairs(h)' /\ Back(h)'
    BY DEF Hubbed
  <2>1. Posted /\ Started /\ Posted' /\ Started'
    BY DEF Standing
  <2>2. Follows /\ Spreads
    BY <2>1, AllCarry, AllSpread DEF Carries
  <2>3. Lasting(h) /\ step[h] # -1 /\ step'[h] # -1
    BY <2>1, <2>2 DEF Follows, Started
  <2>4. table[h] \subseteq table'[h] /\ First(h) /\ Direct(h) /\ Pairs(h) /\ Back(h)
    BY <2>2, <2>3 DEF Follows, Hubbed
  <2>5. First(h)'
    BY <2>1, <2>2, <2>4, FirstKept
  <2>6. Direct(h)'
    BY <2>1, <2>2, <2>3, <2>4, DirectKept
  <2>7. Pairs(h)'
    BY <2>1, <2>2, <2>3, <2>4, PairsKept
  <2>8. Back(h)'
    BY <2>1, <2>2, <2>3, <2>4, BackKept
  <2> QED
    BY <2>5, <2>6, <2>7, <2>8
<1> QED
  BY <1>1, <1>2, Inductive, Stands, PTL DEF Spec

\* Once all is quiet, what was to be told is known.
LEMMA QuietIsTold ==
  ASSUME IInv, Quiet, NEW h \in Nodes, Star(h), NEW a \in Nodes \ {h}, NEW b \in Nodes \ {h},
         Told(h, a, b)
  PROVE  node(b) \in table[a]
<1>1. ~Starting(a)
  <2>1. Len(Bootstrap[a]) \in Nat /\ Len(Bootstrap[a]) > 0
    BY BootstrapFacts DEF Star
  <2> QED
    BY <2>1 DEF Starting, Quiet, Running
<1>2. alias(h) \in PeerIds /\ node(a) \in PeerIds
  BY StarIds, PeerIdFacts
<1>3. /\ Frames(a, alias(h)) = {} /\ Frames(h, node(a)) = {}
      /\ handler[a][alias(h)].pc = "read" /\ handler[h][node(a)].pc = "read"
  BY <1>2, NoFrame DEF Quiet, IInv
<1>4. ~Asks(a, alias(h), node(b)) /\ ~Answered(h, node(a), node(b))
  BY <1>3 DEF Asks, Answered
<1> QED
  BY <1>1, <1>4 DEF Told

\* In a star of any size an exchange that has died down without a crash has made
\* everyone known to everyone, although most nodes were configured with the hub's
\* address only.
THEOREM StarCloses ==
  ASSUME NEW h \in Nodes, Star(h)
  PROVE  Spec => []GossipCloses
<1>1. IInv /\ Standing /\ Hubbed(h) /\ (Quiet /\ crashes = 0 => Mutual) => GossipCloses
  <2> SUFFICES ASSUME IInv, Standing, Hubbed(h), Quiet, crashes = 0, Mutual,
                      NEW k \in Nodes, NEW m \in Nodes, k # m
               PROVE  node(m) \in table[k] /\ workers[k][node(m)] = m
    BY DEF GossipCloses, Knows
  <2>1. Lasting(h) /\ Pairs(h)
    BY DEF Lasting, Hubbed
  <2>2. \A a \in Nodes \ {h} : node(a) \in table[h] /\ node(h) \in table[a]
    BY <2>1, StarIds, NamerIsListed DEF Mutual
  <2>3. CASE k = h \/ m = h
    BY <2>2, <2>3 DEF Mutual
  <2>4. CASE k # h /\ m # h
    <3>1. Told(h, k, m) \/ Told(h, m, k)
      BY <2>1, <2>2, <2>4 DEF Pairs
    <3>2. node(m) \in table[k] \/ node(k) \in table[m]
      BY <2>4, <3>1, QuietIsTold
    <3> QED
      BY <3>2 DEF Mutual
  <2> QED
    BY <2>3, <2>4
<1> QED
  BY <1>1, Inductive, Stands, HubTells, QuietIsMutual, PTL

\* In a star whose hub does not die the nodes re-integrate after every sequence of
\* crashes, lost frames and restarts of the others, for any number of nodes: once the
\* exchange has died down each reaches every other one.
THEOREM StarReintegrates ==
  ASSUME NEW h \in Nodes, Star(h), h \notin CrashProne
  PROVE  Spec => []Reintegrates
<1>1. IInv /\ Standing /\ Hubbed(h) => Reintegrates
  <2> SUFFICES ASSUME IInv, Standing, Hubbed(h), Quiet, NEW k \in Nodes, NEW m \in Nodes, k # m
               PROVE  \E p \in table[k] : workers[k][p] = m
    BY DEF Reintegrates, Reaches
  <2>1. Lasting(h) /\ Pairs(h) /\ Back(h)
    BY DEF Lasting, Hubbed
  <2>2. \A a \in Nodes \ {h} : node(a) \in table[h]
    BY <2>1, StarIds, NamerIsListed
  <2>3. CASE m = h
    BY <2>3, StarIds, NamedIsReached
  <2>4. CASE k = h
    BY <2>2, <2>4, EntryIsReached
  <2>5. CASE k # h /\ m # h
    <3>1. Told(h, k, m) \/ Told(h, m, k)
      BY <2>1, <2>2, <2>5 DEF Pairs
    <3>2. CASE node(m) \in table[k]
      BY <3>2, EntryIsReached
    <3>3. CASE node(k) \in table[m]
      <4>1. node(k) \in PeerIds
        BY PeerIdFacts
      <4>2. Frames(m, node(k)) = {} /\ ~Underway(m, node(k))
        BY <4>1, NoFrame DEF Quiet, IInv, Underway
      <4>3. Told(h, k, m)
        BY <2>1, <2>5, <3>3, <4>2 DEF Back
      <4>4. node(m) \in table[k]
        BY <2>5, <4>3, QuietIsTold
      <4> QED
        BY <4>4, EntryIsReached
    <3> QED
      BY <2>5, <3>1, <3>2, <3>3, QuietIsTold
  <2> QED
    BY <2>3, <2>4, <2>5
<1> QED
  BY <1>1, Inductive, Stands, HubTells, PTL
=============================================================================
