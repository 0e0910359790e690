-------------------------- MODULE Membership_proofs --------------------------
(***************************************************************************)
(* Proofs about membership, for every set of nodes, every choice of        *)
(* bootstrap addresses and every number of crashes and restarts.           *)
(***************************************************************************)
EXTENDS Membership, SequenceTheorems, FiniteSetTheorems, TLAPS

\* The thread at the other end of n's worker p runs on k and is at pc.
Runs(n, p, k, pc) == workers[n][p] = k /\ handler[n][p].pc = pc

\* Only a connection that was made has a thread at work, and only at a process
\* that listens; one that does not lists nobody.
Hosted ==
  /\ step \in [Nodes -> Int]
  /\ \A n \in Nodes, p \in PeerIds :
        handler[n][p].pc # "read" =>
           workers[n][p] \in Nodes /\ step[workers[n][p]] > 0
  /\ \A k \in Nodes : step[k] <= 0 => table[k] = {}

\* Frames are queued on workers only; a worker for each bootstrap address exists
\* since start-up, and one for a discovered peer before it is sent a JOIN.
Queued ==
  /\ \A k \in Nodes, q \in PeerIds : workers[k][q] = NoWorker => chan[k][q] = <<>>
  /\ \A n \in Nodes : \A i \in 1..Len(Bootstrap[n]) :
        workers[n][alias(Bootstrap[n][i])] # NoWorker
  /\ \A n, k \in Nodes, p \in PeerIds :
        Runs(n, p, k, "discover") => workers[k][handler[n][p].peer] # NoWorker

\* A peer about to be wired is listed; two threads never wire the same peer; and
\* one wires every peer that has no worker yet.
Wiring ==
  /\ \A n, k \in Nodes, p \in PeerIds :
        Runs(n, p, k, "ensure") => handler[n][p].peer \in table[k]
  /\ \A n, m, k \in Nodes, p, r \in PeerIds :
        /\ Runs(n, p, k, "ensure") /\ Runs(m, r, k, "ensure")
        /\ handler[n][p].peer = handler[m][r].peer
        => n = m /\ p = r
  /\ \A k \in Nodes, q \in PeerIds :
        q \in table[k] /\ workers[k][q] = NoWorker =>
           \E n \in Nodes, p \in PeerIds :
              Runs(n, p, k, "ensure") /\ handler[n][p].peer = q

-----------------------------------------------------------------------------
\* Ids are told apart by kind and owner, and their owners are nodes.
LEMMA PeerIdFacts ==
  /\ \A m : node(m).kind = "node" /\ node(m).of = m
  /\ \A m : alias(m).kind = "bootstrap@" /\ alias(m).of = m
  /\ \A m, k : node(m) # alias(k)
  /\ \A m \in Nodes : node(m) \in PeerIds
  /\ \A p \in PeerIds : p.of \in Nodes
<1>1. /\ \A m : node(m).kind = "node" /\ node(m).of = m
      /\ \A m : alias(m).kind = "bootstrap@" /\ alias(m).of = m
  BY DEF node, alias
<1>2. \A m, k : node(m) # alias(k)
  BY <1>1
<1>3. \A m \in Nodes : node(m) \in PeerIds
  BY DEF PeerIds
<1>4. ASSUME NEW p \in PeerIds PROVE p.of \in Nodes
  BY <1>1 DEF PeerIds, Listed
<1> QED
  BY <1>1, <1>2, <1>3, <1>4

\* Bootstrap addresses belong to nodes and have an alias.
LEMMA BootstrapFacts ==
  ASSUME NEW n \in Nodes
  PROVE  /\ Len(Bootstrap[n]) \in Nat /\ Running(n) \in Nat /\ Running(n) > 0
         /\ \A i \in 1..Len(Bootstrap[n]) :
               Bootstrap[n][i] \in Nodes /\ alias(Bootstrap[n][i]) \in PeerIds
<1>1. Bootstrap[n] \in Seq(Nodes)
  BY MembershipAssumption
<1>2. Len(Bootstrap[n]) \in Nat /\ \A i \in 1..Len(Bootstrap[n]) : Bootstrap[n][i] \in Nodes
  BY <1>1, LenProperties, ElementOfSeq
<1>3. \A i \in 1..Len(Bootstrap[n]) : alias(Bootstrap[n][i]) \in PeerIds
  BY <1>2 DEF PeerIds, Listed
<1> QED
  BY <1>2, <1>3 DEF Running

\* The workers main() creates connect to nodes, and there is one for every
\* bootstrap address.
LEMMA BootstrapWorkers ==
  ASSUME NEW n \in Nodes
  PROVE  /\ bootstrap_workers(n) \in [PeerIds -> Nodes \cup {NoWorker, Unreachable}]
         /\ \A i \in 1..Len(Bootstrap[n]) :
               bootstrap_workers(n)[alias(Bootstrap[n][i])] \in Nodes
<1>1. \A p \in PeerIds : p.of \in Nodes
  BY PeerIdFacts
<1>2. \A i \in 1..Len(Bootstrap[n]) :
         alias(Bootstrap[n][i]) \in PeerIds /\ alias(Bootstrap[n][i]).of \in Nodes
  BY BootstrapFacts, PeerIdFacts
<1> QED
  BY <1>1, <1>2 DEF bootstrap_workers

\* Messages and threads are what the types say.
LEMMA RecordsTyped ==
  ASSUME NEW n \in Nodes, NEW ps \in SUBSET PeerIds
  PROVE  /\ Join(n) \in Message /\ PeerList(n, ps) \in Message
         /\ \A p \in PeerIds : Idle(n, p) \in Thread /\ Idle(n, p).pc = "read"
BY DEF Join, PeerList, Message, Idle, Thread

\* A frame that is queued or taken leaves queues of messages.
LEMMA SendTyped ==
  ASSUME TypeOK, NEW n \in Nodes, NEW p \in PeerIds, NEW m \in Message, send_json(n, p, m)
  PROVE  /\ chan' \in [Nodes -> [PeerIds -> Seq(Message)]]
         /\ \A k \in Nodes, q \in PeerIds : k # n \/ q # p => chan'[k][q] = chan[k][q]
<1>1. Append(chan[n][p], m) \in Seq(Message)
  BY AppendProperties DEF TypeOK
<1> QED
  BY <1>1 DEF TypeOK, send_json

\* The frame a thread reads.
LEMMA ReadTyped ==
  ASSUME TypeOK, NEW n \in Nodes, NEW p \in PeerIds, chan[n][p] # <<>>,
         chan' = [chan EXCEPT ![n][p] = Tail(@)]
  PROVE  /\ Head(chan[n][p]) \in Message
         /\ chan' \in [Nodes -> [PeerIds -> Seq(Message)]]
         /\ \A k \in Nodes, q \in PeerIds : chan[k][q] = <<>> => chan'[k][q] = <<>>
<1>1. Head(chan[n][p]) \in Message /\ Tail(chan[n][p]) \in Seq(Message)
  BY HeadTailProperties DEF TypeOK
<1> QED
  BY <1>1 DEF TypeOK

\* Only the thread of n's worker p goes on, and is then t.
Becomes(n, p, t) ==
  \A m \in Nodes, r \in PeerIds :
     handler'[m][r] = IF m = n /\ r = p THEN t ELSE handler[m][r]

\* One thread that goes on leaves threads.
LEMMA BecomesTyped ==
  ASSUME TypeOK, NEW n \in Nodes, NEW p \in PeerIds, NEW t \in Thread,
         handler' = [handler EXCEPT ![n][p] = t]
  PROVE  handler' \in [Nodes -> [PeerIds -> Thread]] /\ Becomes(n, p, t)
BY DEF TypeOK, Becomes

\* The thread of n's worker p goes on to one of pcs, still with its peer.
Goes(n, p, pcs) ==
  /\ handler' \in [Nodes -> [PeerIds -> Thread]]
  /\ \E t \in Thread : t.pc \in pcs /\ t.peer = handler[n][p].peer /\ Becomes(n, p, t)

\* It lists peer on k, where it was not listed, and goes on to wire it.
Lists(n, p, k, peer) ==
  /\ handler' \in [Nodes -> [PeerIds -> Thread]]
  /\ \E t \in Thread : t.pc = "ensure" /\ t.peer = peer /\ Becomes(n, p, t)
  /\ table' \in [Nodes -> SUBSET PeerIds]
  /\ \A j \in Nodes : table'[j] = IF j = k THEN table[k] \cup {peer} ELSE table[j]
  /\ peer # node(k) /\ peer \notin table[k]

\* peer_table.add_peer, and the callback it leads to.
LEMMA AddEffect ==
  ASSUME TypeOK, NEW n \in Nodes, NEW p \in PeerIds, NEW k \in Nodes,
         NEW peer \in PeerIds, NEW t \in Thread, add_new_peer(n, p, k, peer, t)
  PROVE  Lists(n, p, k, peer)
<1> DEFINE u == [t EXCEPT !.pc = "ensure", !.peer = peer]
<1>1. u \in Thread /\ u.pc = "ensure" /\ u.peer = peer
  BY DEF Thread
<1>2. handler' = [handler EXCEPT ![n][p] = u]
  BY DEF add_new_peer
<1> HIDE DEF u
<1>3. handler' \in [Nodes -> [PeerIds -> Thread]] /\ Becomes(n, p, u)
  BY <1>1, <1>2, BecomesTyped
<1>4. /\ table' \in [Nodes -> SUBSET PeerIds] /\ peer # node(k) /\ peer \notin table[k]
      /\ \A j \in Nodes : table'[j] = IF j = k THEN table[k] \cup {peer} ELSE table[j]
  BY DEF TypeOK, add_new_peer
<1> QED
  BY <1>1, <1>3, <1>4 DEF Lists

\* A thread that reads a frame: k listens, and nothing enters an empty queue.
Takes(n, p, k) ==
  /\ Runs(n, p, k, "read") /\ step[k] > 0
  /\ chan' \in [Nodes -> [PeerIds -> Seq(Message)]]
  /\ \A j \in Nodes, q \in PeerIds : chan[j][q] = <<>> => chan'[j][q] = <<>>
  /\ UNCHANGED <<step, workers, publisher, crashes>>

\* handle_join_request, as far as the invariants tell.
LEMMA JoinEffect ==
  ASSUME TypeOK, NEW n \in Nodes, NEW p \in PeerIds, NEW k \in Nodes,
         handle_join_request(n, p, k)
  PROVE  /\ Takes(n, p, k)
         /\ \/ UNCHANGED <<table, handler>>
            \/ \E peer \in PeerIds : Lists(n, p, k, peer)
            \/ Goes(n, p, {"list"}) /\ UNCHANGED table
<1> DEFINE j == Head(chan[n][p]).sender
           t == [handler[n][p] EXCEPT !.pc = "list", !.msg = "JOIN_REQUEST", !.sender = j]
<1>1. Takes(n, p, k) /\ Head(chan[n][p]) \in Message
  BY ReadTyped DEF handle_join_request, Reads, At, Takes, Runs
<1>2. j \in Nodes /\ node(j) \in PeerIds
  BY <1>1, PeerIdFacts DEF Message
<1>3. handler[n][p] \in Thread
  BY DEF TypeOK
<1>4. t \in Thread /\ t.pc = "list" /\ t.peer = handler[n][p].peer
  BY <1>2, <1>3 DEF Thread
<1>5. \/ UNCHANGED <<table, handler>>
      \/ add_new_peer(n, p, k, node(j), t)
      \/ handler' = [handler EXCEPT ![n][p] = t] /\ UNCHANGED table
  BY DEF handle_join_request
<1> HIDE DEF j, t
<1> QED
  BY <1>1, <1>2, <1>4, <1>5, AddEffect, BecomesTyped DEF Goes

\* handle_peer_list.
LEMMA ListEffect ==
  ASSUME TypeOK, NEW n \in Nodes, NEW p \in PeerIds, NEW k \in Nodes,
         handle_peer_list(n, p, k)
  PROVE  Takes(n, p, k) /\ Goes(n, p, {"entries"}) /\ UNCHANGED table
<1> DEFINE m == Head(chan[n][p])
           t == [handler[n][p] EXCEPT !.pc = "entries", !.msg = "PEER_LIST",
                                      !.sender = m.sender, !.peers = m.peers]
<1>1. Takes(n, p, k) /\ m \in Message /\ UNCHANGED table
  BY ReadTyped DEF handle_peer_list, Reads, At, Takes, Runs
<1>2. m.sender \in Nodes /\ m.peers \in SUBSET PeerIds
  BY <1>1 DEF Message
<1>3. handler[n][p] \in Thread
  BY DEF TypeOK
<1>4. t \in Thread /\ t.pc = "entries" /\ t.peer = handler[n][p].peer
  BY <1>2, <1>3 DEF Thread
<1>5. handler' = [handler EXCEPT ![n][p] = t]
  BY DEF handle_peer_list, TypeOK
<1> HIDE DEF t
<1> QED
  BY <1>1, <1>4, <1>5, BecomesTyped DEF Goes

\* The loop over the entries of a PEER_LIST.
LEMMA IntegrateEffect ==
  ASSUME TypeOK, NEW n \in Nodes, NEW p \in PeerIds, NEW k \in Nodes,
         integrate(n, p, k)
  PROVE  /\ Runs(n, p, k, "entries")
         /\ UNCHANGED <<step, workers, chan, publisher, crashes>>
         /\ \/ \E peer \in PeerIds : Lists(n, p, k, peer)
            \/ /\ handler' = [handler EXCEPT ![n][p] = Idle(n, p)]
               /\ UNCHANGED table
<1>1. handler[n][p] \in Thread /\ handler[n][p].peers \subseteq PeerIds
  BY DEF TypeOK, Thread
<1>2. ASSUME NEW e \in handler[n][p].peers,
             add_new_peer(n, p, k, e, [handler[n][p] EXCEPT !.peers = @ \ {e}])
      PROVE  \E peer \in PeerIds : Lists(n, p, k, peer)
  <2>1. [handler[n][p] EXCEPT !.peers = @ \ {e}] \in Thread
    BY <1>1 DEF Thread
  <2> QED
    BY <1>1, <1>2, <2>1, AddEffect
<1> QED
  BY <1>2 DEF integrate, At, Runs

\* The thread is done with its frame.
LEMMA IdleEffect ==
  ASSUME TypeOK, NEW n \in Nodes, NEW p \in PeerIds,
         handler' = [handler EXCEPT ![n][p] = Idle(n, p)]
  PROVE  /\ handler' \in [Nodes -> [PeerIds -> Thread]]
         /\ \E t \in Thread : t.pc = "read" /\ Becomes(n, p, t)
BY RecordsTyped, BecomesTyped

\* The remaining steps of a thread only move its pc on, list_peers also with
\* what it is going to send.
LEMMA PcEffect ==
  ASSUME TypeOK, NEW n \in Nodes, NEW p \in PeerIds, NEW k \in Nodes
  PROVE  /\ ensure_client_peer(n, p, k) => Goes(n, p, {"discover"})
         /\ discovery_join(n, p, k) => Goes(n, p, {"list", "entries"})
         /\ list_peers(n, p, k) => Goes(n, p, {"reply"})
<1>0. handler[n][p] \in Thread
  BY DEF TypeOK
<1>1. ASSUME NEW x \in {"discover", "list", "entries"}, handler' = [handler EXCEPT ![n][p].pc = x]
      PROVE  Goes(n, p, {x})
  <2> DEFINE t == [handler[n][p] EXCEPT !.pc = x]
  <2>1. t \in Thread /\ t.pc = x /\ t.peer = handler[n][p].peer
    BY <1>0 DEF Thread
  <2>2. handler' = [handler EXCEPT ![n][p] = t]
    BY <1>1 DEF TypeOK
  <2> HIDE DEF t
  <2> QED
    BY <2>1, <2>2, BecomesTyped DEF Goes
<1>2. ASSUME list_peers(n, p, k) PROVE Goes(n, p, {"reply"})
  <2> DEFINE t == [handler[n][p] EXCEPT !.pc = "reply", !.peers = table[k]]
  <2>1. t \in Thread /\ t.pc = "reply" /\ t.peer = handler[n][p].peer
    BY <1>0 DEF Thread, TypeOK
  <2>2. handler' = [handler EXCEPT ![n][p] = t]
    BY <1>2 DEF TypeOK, list_peers
  <2> HIDE DEF t
  <2> QED
    BY <2>1, <2>2, BecomesTyped DEF Goes
<1>3. ensure_client_peer(n, p, k) => Goes(n, p, {"discover"})
  BY <1>1 DEF ensure_client_peer
<1>4. ASSUME discovery_join(n, p, k) PROVE Goes(n, p, {"list", "entries"})
  <2>1. Goes(n, p, {"list"}) \/ Goes(n, p, {"entries"})
    BY <1>1, <1>4 DEF discovery_join
  <2> QED
    BY <2>1 DEF Goes
<1> QED
  BY <1>2, <1>3, <1>4

-----------------------------------------------------------------------------
IInv == TypeOK /\ Hosted /\ Queued /\ Wiring

\* The empty queue.
LEMMA NoFrames == <<>> \in Seq(Message)
BY EmptySeq

\* No process has joined anything yet.
LEMMA InitHolds ==
  Init => IInv
<1> SUFFICES ASSUME Init PROVE IInv
  OBVIOUS
<1>1. \A n \in Nodes, p \in PeerIds :
         handler[n][p] \in Thread /\ handler[n][p].pc = "read" /\ chan[n][p] = <<>>
  BY RecordsTyped DEF Init
<1>2. workers \in [Nodes -> [PeerIds -> Nodes \cup {NoWorker, Unreachable}]]
  BY BootstrapWorkers DEF Init
<1>3. TypeOK
  <2>1. handler \in [Nodes -> [PeerIds -> Thread]]
    BY <1>1 DEF Init
  <2>2. chan \in [Nodes -> [PeerIds -> Seq(Message)]]
    BY NoFrames DEF Init
  <2>3. \A n \in Nodes : step[n] \in -1..Running(n)
    BY BootstrapFacts DEF Init
  <2>4. table \in [Nodes -> SUBSET PeerIds] /\ \A n \in Nodes : table[n] = {}
    BY DEF Init
  <2>5. publisher \in [Nodes -> PeerIds \cup {Nobody}] /\ crashes \in 0..MaxCrashes
    BY MembershipAssumption DEF Init
  <2> QED
    BY <1>2, <2>1, <2>2, <2>3, <2>4, <2>5 DEF TypeOK
<1>4. Hosted
  BY <1>1 DEF Init, Hosted
<1>5. Queued
  <2>1. \A n \in Nodes : \A i \in 1..Len(Bootstrap[n]) :
           workers[n][alias(Bootstrap[n][i])] # NoWorker
    BY BootstrapWorkers, MembershipAssumption DEF Init
  <2> QED
    BY <1>1, <2>1 DEF Queued, Runs
<1>6. Wiring
  BY <1>1 DEF Init, Wiring, Runs
<1> QED
  BY <1>3, <1>4, <1>5, <1>6 DEF IInv

\* A frame is queued on a worker that exists.
LEMMA QueuesOnWorker ==
  ASSUME IInv, NEW k \in Nodes, NEW q \in PeerIds, NEW m \in Message,
         workers[k][q] # NoWorker, send_json(k, q, m)
  PROVE  /\ chan' \in [Nodes -> [PeerIds -> Seq(Message)]]
         /\ \A j \in Nodes, r \in PeerIds : workers[j][r] = NoWorker => chan'[j][r] = <<>>
<1> USE DEF IInv
<1>1. /\ chan' \in [Nodes -> [PeerIds -> Seq(Message)]]
      /\ \A j \in Nodes, r \in PeerIds : j # k \/ r # q => chan'[j][r] = chan[j][r]
  BY SendTyped
<1>2. ASSUME NEW j \in Nodes, NEW r \in PeerIds, workers[j][r] = NoWorker
      PROVE  chan'[j][r] = <<>>
  <2>1. chan[j][r] = <<>>
    BY <1>2 DEF Queued
  <2>2. j # k \/ r # q
    BY <1>2
  <2> QED
    BY <1>1, <2>1, <2>2
<1> QED
  BY <1>1, <1>2

\* main(): the start-up steps touch no thread and no worker.
LEMMA MainStep ==
  ASSUME IInv, NEW n \in Nodes, main(n)
  PROVE  IInv'
<1> USE DEF IInv
<1>0. step \in [Nodes -> Int] /\ \A m \in Nodes : step[m] \in -1..Running(m)
  BY DEF Hosted, TypeOK
<1>1. CASE start_server(n)
  <2>1. /\ step' \in [Nodes -> Int] /\ \A m \in Nodes : step'[m] \in -1..Running(m)
        /\ \A m \in Nodes : step[m] > 0 => step'[m] > 0
        /\ \A m \in Nodes : step'[m] <= 0 => step[m] <= 0
    BY <1>0, <1>1, BootstrapFacts DEF start_server
  <2>2. TypeOK'
    BY <1>1, <2>1 DEF start_server, TypeOK
  <2>3. Hosted'
    BY <1>1, <2>1 DEF start_server, Hosted, TypeOK
  <2>4. Queued' /\ Wiring'
    BY <1>1 DEF start_server, Queued, Wiring, Runs
  <2> QED
    BY <2>2, <2>3, <2>4
<1>2. CASE seed(n)
  <2> DEFINE a == alias(Bootstrap[n][step[n]])
  <2>1. step[n] \in 1..Len(Bootstrap[n]) /\ a \in PeerIds
    BY <1>2, BootstrapFacts DEF seed
  <2>2. workers[n][a] # NoWorker /\ a # node(n)
    BY <2>1, PeerIdFacts DEF Queued
  <2>3. /\ table' = [table EXCEPT ![n] = @ \cup {a}]
        /\ step' = [step EXCEPT ![n] = @ + 1]
        /\ UNCHANGED <<workers, chan, handler, publisher, crashes>>
    BY <1>2 DEF seed
  <2>4. /\ step' \in [Nodes -> Int] /\ \A m \in Nodes : step'[m] \in -1..Running(m)
        /\ \A m \in Nodes : step[m] > 0 => step'[m] > 0
        /\ \A m \in Nodes : step'[m] <= 0 => step[m] <= 0 /\ m # n
    BY <1>0, <2>1, <2>3, BootstrapFacts DEF Running
  <2> HIDE DEF a
  <2>5. /\ table' \in [Nodes -> SUBSET PeerIds] /\ \A m \in Nodes : node(m) \notin table'[m]
        /\ \A m \in Nodes : table'[m] = IF m = n THEN table[n] \cup {a} ELSE table[m]
    BY <2>1, <2>2, <2>3 DEF TypeOK
  <2>6. TypeOK'
    BY <2>3, <2>4, <2>5 DEF TypeOK
  <2>7. Hosted'
    BY <2>3, <2>4, <2>5 DEF Hosted, TypeOK
  <2>8. Queued'
    BY <2>3 DEF Queued, Runs
  <2>9. Wiring'
    BY <2>2, <2>3, <2>5 DEF Wiring, Runs
  <2> QED
    BY <2>6, <2>7, <2>8, <2>9
<1>3. CASE bootstrap(n)
  <2> DEFINE i == step[n] - Len(Bootstrap[n])
             a == alias(Bootstrap[n][i])
  <2>1. /\ step[n] \in (Len(Bootstrap[n]) + 1)..(2 * Len(Bootstrap[n]))
        /\ i \in 1..Len(Bootstrap[n])
    BY <1>0, <1>3, BootstrapFacts DEF bootstrap
  <2>2. a \in PeerIds /\ workers[n][a] # NoWorker
    BY <2>1, BootstrapFacts DEF Queued
  <2>3. /\ send_json(n, a, Join(n))
        /\ step' = [step EXCEPT ![n] = @ + 1]
        /\ UNCHANGED <<table, workers, handler, publisher, crashes>>
    BY <1>3 DEF bootstrap
  <2>4. /\ step' \in [Nodes -> Int] /\ \A m \in Nodes : step'[m] \in -1..Running(m)
        /\ \A m \in Nodes : step[m] > 0 => step'[m] > 0
        /\ \A m \in Nodes : step'[m] <= 0 => step[m] <= 0
    BY <1>0, <2>1, <2>3, BootstrapFacts DEF Running
  <2> HIDE DEF a, i
  <2>5. Join(n) \in Message
    BY RecordsTyped
  <2>6. /\ chan' \in [Nodes -> [PeerIds -> Seq(Message)]]
        /\ \A k \in Nodes, q \in PeerIds : workers[k][q] = NoWorker => chan'[k][q] = <<>>
    BY <2>2, <2>3, <2>5, QueuesOnWorker
  <2>7. TypeOK'
    BY <2>3, <2>4, <2>6 DEF TypeOK
  <2>8. Hosted'
    BY <2>3, <2>4 DEF Hosted, TypeOK
  <2>9. Queued'
    BY <2>3, <2>6 DEF Queued, Runs
  <2>10. Wiring'
    BY <2>3 DEF Wiring, Runs
  <2> QED
    BY <2>7, <2>8, <2>9, <2>10
<1> QED
  BY <1>1, <1>2, <1>3 DEF main

\* A thread on k that lists a peer becomes the one that wires it: nobody else
\* does, since it was not listed.
LEMMA ListsStep ==
  ASSUME IInv, NEW n \in Nodes, NEW p \in PeerIds, NEW k \in Nodes, NEW peer \in PeerIds,
         workers[n][p] = k, handler[n][p].pc # "ensure", step[k] > 0,
         Lists(n, p, k, peer),
         UNCHANGED <<step, workers, publisher, crashes>>
  PROVE  Hosted' /\ Wiring' /\ (\A m \in Nodes : node(m) \notin table'[m])
<1> USE DEF IInv
<1>1. PICK t \in Thread : t.pc = "ensure" /\ t.peer = peer /\ Becomes(n, p, t)
  BY DEF Lists
<1>2. /\ \A j \in Nodes : table'[j] = IF j = k THEN table[k] \cup {peer} ELSE table[j]
      /\ peer # node(k) /\ peer \notin table[k]
  BY DEF Lists
<1>3. \A m \in Nodes, r \in PeerIds :
         handler'[m][r] = IF m = n /\ r = p THEN t ELSE handler[m][r]
  BY <1>1 DEF Becomes
<1>4. Hosted'
  BY <1>2, <1>3 DEF Hosted
<1>5. \A m, j \in Nodes, r \in PeerIds :
         Runs(m, r, j, "ensure")' <=>
            (Runs(m, r, j, "ensure") \/ (m = n /\ r = p /\ j = k))
  BY <1>1, <1>3 DEF Runs
<1>6. \A m \in Nodes, r \in PeerIds :
         Runs(m, r, k, "ensure") => handler[m][r].peer # peer
  BY <1>2 DEF Wiring
<1>7. Wiring'
  <2>1. ASSUME NEW m \in Nodes, NEW j \in Nodes, NEW r \in PeerIds,
               Runs(m, r, j, "ensure")'
        PROVE  handler'[m][r].peer \in table'[j]
    <3>1. CASE m = n /\ r = p /\ j = k
      BY <1>1, <1>2, <1>3, <3>1
    <3>2. CASE ~(m = n /\ r = p /\ j = k)
      <4>1. Runs(m, r, j, "ensure") /\ handler'[m][r] = handler[m][r]
        BY <1>3, <1>5, <2>1, <3>2 DEF Runs
      <4> QED
        BY <1>2, <4>1 DEF Wiring
    <3> QED
      BY <3>1, <3>2
  <2>2. ASSUME NEW m \in Nodes, NEW l \in Nodes, NEW j \in Nodes,
               NEW r \in PeerIds, NEW s \in PeerIds,
               Runs(m, r, j, "ensure")', Runs(l, s, j, "ensure")',
               handler'[m][r].peer = handler'[l][s].peer
        PROVE  m = l /\ r = s
    <3>1. CASE m = n /\ r = p
      BY <1>1, <1>3, <1>5, <1>6, <2>2, <3>1 DEF Runs
    <3>2. CASE l = n /\ s = p
      BY <1>1, <1>3, <1>5, <1>6, <2>2, <3>2 DEF Runs
    <3>3. CASE ~(m = n /\ r = p) /\ ~(l = n /\ s = p)
      <4>1. Runs(m, r, j, "ensure") /\ Runs(l, s, j, "ensure")
        BY <1>5, <2>2, <3>3
      <4>2. handler[m][r].peer = handler[l][s].peer
        BY <1>3, <2>2, <3>3
      <4> QED
        BY <4>1, <4>2 DEF Wiring
    <3> QED
      BY <3>1, <3>2, <3>3
  <2>3. ASSUME NEW j \in Nodes, NEW q \in PeerIds, q \in table'[j], workers'[j][q] = NoWorker
        PROVE  \E m \in Nodes, r \in PeerIds :
                  Runs(m, r, j, "ensure")' /\ handler'[m][r].peer = q
    <3>1. CASE j = k /\ q = peer
      BY <1>1, <1>3, <1>5, <3>1
    <3>2. CASE ~(j = k /\ q = peer)
      <4>1. PICK m \in Nodes, r \in PeerIds :
               Runs(m, r, j, "ensure") /\ handler[m][r].peer = q
        BY <1>2, <2>3, <3>2 DEF Wiring
      <4>2. ~(m = n /\ r = p)
        BY <4>1 DEF Runs
      <4> QED
        BY <1>3, <1>5, <4>1, <4>2
    <3> QED
      BY <3>1, <3>2
  <2> QED
    BY <2>1, <2>2, <2>3 DEF Wiring
<1> QED
  BY <1>2, <1>4, <1>7 DEF TypeOK

\* A thread on k that goes on otherwise, not from or to wiring a peer.
LEMMA MovesStep ==
  ASSUME IInv, NEW n \in Nodes, NEW p \in PeerIds, NEW k \in Nodes, NEW t \in Thread,
         workers[n][p] = k, handler[n][p].pc # "ensure", step[k] > 0,
         t.pc # "ensure", Becomes(n, p, t),
         UNCHANGED <<step, table, workers, publisher, crashes>>
  PROVE  Hosted' /\ Wiring'
<1> USE DEF IInv
<1>1. \A m \in Nodes, r \in PeerIds :
         handler'[m][r] = IF m = n /\ r = p THEN t ELSE handler[m][r]
  BY DEF Becomes
<1>2. Hosted'
  BY <1>1 DEF Hosted
<1>3. \A m, j \in Nodes, r \in PeerIds :
         Runs(m, r, j, "ensure")' <=> Runs(m, r, j, "ensure")
  BY <1>1 DEF Runs
<1>4. \A m, j \in Nodes, r \in PeerIds :
         Runs(m, r, j, "ensure") => handler'[m][r] = handler[m][r]
  BY <1>1 DEF Runs
<1>5. Wiring'
  BY <1>3, <1>4 DEF Wiring
<1> QED
  BY <1>2, <1>5

\* No frame is queued without a worker, and no thread starts to discover.
LEMMA QueuedKept ==
  ASSUME Queued, UNCHANGED workers,
         \A j \in Nodes, q \in PeerIds : workers[j][q] = NoWorker => chan'[j][q] = <<>>,
         \A m \in Nodes, r \in PeerIds :
            handler'[m][r].pc = "discover" =>
               handler[m][r].pc = "discover" /\ handler'[m][r].peer = handler[m][r].peer
  PROVE  Queued'
BY DEF Queued, Runs

\* A thread reads a JOIN_REQUEST or a PEER_LIST, or integrates an entry.
LEMMA ReadStep ==
  ASSUME IInv, NEW n \in Nodes, NEW p \in PeerIds, NEW k \in Nodes,
         handle_join_request(n, p, k) \/ handle_peer_list(n, p, k) \/ integrate(n, p, k)
  PROVE  IInv'
<1> USE DEF IInv
<1>1. /\ workers[n][p] = k /\ handler[n][p].pc \in {"read", "entries"} /\ step[k] > 0
      /\ UNCHANGED <<step, workers, publisher, crashes>>
      /\ chan' \in [Nodes -> [PeerIds -> Seq(Message)]]
      /\ \A j \in Nodes, q \in PeerIds : chan[j][q] = <<>> => chan'[j][q] = <<>>
  <2>1. CASE handle_join_request(n, p, k)
    BY <2>1, JoinEffect DEF Takes, Runs
  <2>2. CASE handle_peer_list(n, p, k)
    BY <2>2, ListEffect DEF Takes, Runs
  <2>3. CASE integrate(n, p, k)
    BY <2>3, IntegrateEffect DEF Runs, Hosted, TypeOK
  <2> QED
    BY <2>1, <2>2, <2>3
<1>2. \/ UNCHANGED <<table, handler>>
      \/ \E peer \in PeerIds : Lists(n, p, k, peer)
      \/ /\ handler' \in [Nodes -> [PeerIds -> Thread]] /\ UNCHANGED table
         /\ \E t \in Thread : t.pc \in {"read", "list", "entries"} /\ Becomes(n, p, t)
  <2>1. CASE handle_join_request(n, p, k)
    BY <2>1, JoinEffect DEF Goes
  <2>2. CASE handle_peer_list(n, p, k)
    BY <2>2, ListEffect DEF Goes
  <2>3. CASE integrate(n, p, k)
    BY <2>3, IntegrateEffect, IdleEffect
  <2> QED
    BY <2>1, <2>2, <2>3
<1>3. \A j \in Nodes, q \in PeerIds : workers[j][q] = NoWorker => chan'[j][q] = <<>>
  BY <1>1 DEF Queued
<1>4. CASE UNCHANGED <<table, handler>>
  <2>1. TypeOK'
    BY <1>1, <1>4 DEF TypeOK
  <2>2. Queued'
    <3>1. UNCHANGED workers /\ UNCHANGED handler
      BY <1>1, <1>4
    <3> QED
      BY <1>3, <3>1, QueuedKept
  <2>3. Hosted' /\ Wiring'
    <3>1. UNCHANGED step /\ UNCHANGED table /\ UNCHANGED workers /\ UNCHANGED handler
      BY <1>1, <1>4
    <3>2. Hosted'
      BY <3>1 DEF Hosted
    <3>3. Wiring'
      BY <3>1 DEF Wiring, Runs
    <3> QED
      BY <3>2, <3>3
  <2> QED
    BY <2>1, <2>2, <2>3
<1>5. CASE \E peer \in PeerIds : Lists(n, p, k, peer)
  <2>1. PICK peer \in PeerIds : Lists(n, p, k, peer)
    BY <1>5
  <2>2. Hosted' /\ Wiring' /\ (\A m \in Nodes : node(m) \notin table'[m])
    BY <1>1, <2>1, ListsStep
  <2>3. TypeOK'
    BY <1>1, <2>1, <2>2 DEF TypeOK, Lists
  <2>4. Queued'
    BY <1>1, <1>3, <2>1, QueuedKept DEF Lists, Becomes
  <2> QED
    BY <2>2, <2>3, <2>4
<1>6. CASE /\ handler' \in [Nodes -> [PeerIds -> Thread]] /\ UNCHANGED table
           /\ \E t \in Thread : t.pc \in {"read", "list", "entries"} /\ Becomes(n, p, t)
  <2>1. PICK t \in Thread : t.pc \in {"read", "list", "entries"} /\ Becomes(n, p, t)
    BY <1>6
  <2>2. Hosted' /\ Wiring'
    BY <1>1, <1>6, <2>1, MovesStep
  <2>3. TypeOK'
    BY <1>1, <1>6 DEF TypeOK
  <2>4. Queued'
    BY <1>1, <1>3, <2>1, QueuedKept DEF Becomes
  <2> QED
    BY <2>2, <2>3, <2>4
<1> QED
  BY <1>2, <1>4, <1>5, <1>6

\* on_peer_discovered creates the worker the thread was to create; the queue it
\* gets is empty.
LEMMA EnsureStep ==
  ASSUME IInv, NEW n \in Nodes, NEW p \in PeerIds, NEW k \in Nodes,
         ensure_client_peer(n, p, k)
  PROVE  IInv'
<1> USE DEF IInv
<1> DEFINE q == handler[n][p].peer
<1>1. /\ workers[n][p] = k /\ handler[n][p].pc = "ensure"
      /\ UNCHANGED <<step, table, chan, publisher, crashes>>
      /\ workers' = IF workers[k][q] = NoWorker
                      THEN [workers EXCEPT ![k][q] = try_host(q)] ELSE workers
  BY DEF ensure_client_peer, At
<1>2. q \in PeerIds /\ q.of \in Nodes
  BY PeerIdFacts DEF TypeOK, Thread
<1>3. PICK t \in Thread : t.pc = "discover" /\ t.peer = q /\ Becomes(n, p, t)
  BY PcEffect DEF Goes
<1>4. handler' \in [Nodes -> [PeerIds -> Thread]]
  BY PcEffect DEF Goes
<1> HIDE DEF q
<1>5. /\ workers' \in [Nodes -> [PeerIds -> Nodes \cup {NoWorker, Unreachable}]]
      /\ \A j \in Nodes, r \in PeerIds :
            workers[j][r] # NoWorker => workers'[j][r] = workers[j][r]
      /\ \A j \in Nodes, r \in PeerIds :
            j # k \/ r # q => workers'[j][r] = workers[j][r]
      /\ workers'[k][q] # NoWorker
  BY <1>1, <1>2, MembershipAssumption DEF TypeOK, try_host
<1>6. \A m \in Nodes, r \in PeerIds :
         handler'[m][r] = IF m = n /\ r = p THEN t ELSE handler[m][r]
  BY <1>3 DEF Becomes
<1>7. \A m \in Nodes, r \in PeerIds :
         handler[m][r].pc # "read" => workers'[m][r] = workers[m][r]
  BY <1>5, MembershipAssumption DEF Hosted
<1>8. TypeOK'
  BY <1>1, <1>4, <1>5 DEF TypeOK
<1>9. Hosted'
  BY <1>1, <1>6, <1>7 DEF Hosted
<1>10. \A m, j \in Nodes, r \in PeerIds :
          Runs(m, r, j, "ensure")' <=>
             (Runs(m, r, j, "ensure") /\ ~(m = n /\ r = p))
  BY <1>3, <1>6, <1>7 DEF Runs
<1>11. Queued'
  <2>1. \A j \in Nodes, r \in PeerIds : workers'[j][r] = NoWorker => chan'[j][r] = <<>>
    BY <1>1, <1>5 DEF Queued
  <2>2. ASSUME NEW m \in Nodes, NEW i \in 1..Len(Bootstrap[m])
        PROVE  workers'[m][alias(Bootstrap[m][i])] # NoWorker
    <3>1. alias(Bootstrap[m][i]) \in PeerIds
      BY BootstrapFacts
    <3>2. workers[m][alias(Bootstrap[m][i])] # NoWorker
      BY DEF Queued
    <3> QED
      BY <1>5, <3>1, <3>2
  <2>3. ASSUME NEW m \in Nodes, NEW j \in Nodes, NEW r \in PeerIds,
               Runs(m, r, j, "discover")'
        PROVE  workers'[j][handler'[m][r].peer] # NoWorker
    <3>1. CASE m = n /\ r = p
      BY <1>1, <1>3, <1>5, <1>6, <1>7, <2>3, <3>1 DEF Runs
    <3>2. CASE ~(m = n /\ r = p)
      <4>1. Runs(m, r, j, "discover") /\ handler'[m][r] = handler[m][r]
        BY <1>6, <1>7, <2>3, <3>2 DEF Runs
      <4>2. handler[m][r].peer \in PeerIds
        BY DEF TypeOK, Thread
      <4> QED
        BY <1>5, <4>1, <4>2 DEF Queued
    <3> QED
      BY <3>1, <3>2
  <2> QED
    BY <2>1, <2>2, <2>3 DEF Queued
<1>12. Wiring'
  <2>1. ASSUME NEW j \in Nodes, NEW r \in PeerIds, r \in table'[j], workers'[j][r] = NoWorker
        PROVE  \E m \in Nodes, s \in PeerIds :
                  Runs(m, s, j, "ensure")' /\ handler'[m][s].peer = r
    <3>1. workers[j][r] = NoWorker /\ ~(j = k /\ r = q)
      BY <1>5, <2>1
    <3>2. PICK m \in Nodes, s \in PeerIds :
             Runs(m, s, j, "ensure") /\ handler[m][s].peer = r
      BY <1>1, <2>1, <3>1 DEF Wiring
    <3>3. ~(m = n /\ s = p)
      BY <1>1, <3>1, <3>2 DEF Runs, q
    <3> QED
      BY <1>6, <1>10, <3>2, <3>3
  <2>2. \A m, j \in Nodes, r \in PeerIds :
           Runs(m, r, j, "ensure")' => /\ Runs(m, r, j, "ensure")
                                       /\ handler'[m][r] = handler[m][r]
    BY <1>6, <1>10
  <2>3. \A m, j \in Nodes, r \in PeerIds :
           Runs(m, r, j, "ensure")' => handler'[m][r].peer \in table'[j]
    BY <1>1, <2>2 DEF Wiring
  <2>4. ASSUME NEW m \in Nodes, NEW l \in Nodes, NEW j \in Nodes,
               NEW r \in PeerIds, NEW s \in PeerIds,
               Runs(m, r, j, "ensure")', Runs(l, s, j, "ensure")',
               handler'[m][r].peer = handler'[l][s].peer
        PROVE  m = l /\ r = s
    BY <2>2, <2>4 DEF Wiring
  <2> QED
    BY <2>1, <2>3, <2>4 DEF Wiring
<1> QED
  BY <1>8, <1>9, <1>11, <1>12

\* The rest of a handler: the JOIN to the new peer, the snapshot, the reply.
LEMMA AnswerStep ==
  ASSUME IInv, NEW n \in Nodes, NEW p \in PeerIds, NEW k \in Nodes,
         discovery_join(n, p, k) \/ list_peers(n, p, k) \/ reply(n, p, k)
  PROVE  IInv'
<1> USE DEF IInv
<1>1. /\ workers[n][p] = k /\ handler[n][p].pc \in {"discover", "list", "reply"}
      /\ UNCHANGED <<step, table, workers, publisher, crashes>>
  BY DEF discovery_join, list_peers, reply, At
<1>2. step[k] > 0
  BY <1>1 DEF Hosted
<1>3. /\ handler' \in [Nodes -> [PeerIds -> Thread]]
      /\ \E t \in Thread : t.pc \in {"read", "list", "entries", "reply"} /\ Becomes(n, p, t)
  BY PcEffect, IdleEffect DEF Goes, reply
<1>4. /\ chan' \in [Nodes -> [PeerIds -> Seq(Message)]]
      /\ \A j \in Nodes, r \in PeerIds : workers[j][r] = NoWorker => chan'[j][r] = <<>>
  <2>0. handler[n][p] \in Thread
    BY DEF TypeOK
  <2>1. CASE discovery_join(n, p, k)
    <3>1. Join(k) \in Message /\ handler[n][p].peer \in PeerIds
      BY <2>0, RecordsTyped DEF Thread
    <3>2. workers[k][handler[n][p].peer] # NoWorker
      BY <2>1 DEF discovery_join, At, Runs, Queued
    <3> QED
      BY <2>1, <3>1, <3>2, QueuesOnWorker DEF discovery_join
  <2>2. CASE list_peers(n, p, k)
    BY <2>2 DEF list_peers, TypeOK, Queued
  <2>3. CASE reply(n, p, k)
    <3> DEFINE q == node(handler[n][p].sender)
               m == PeerList(k, handler[n][p].peers)
    <3>1. q \in PeerIds /\ m \in Message
      BY <2>0, RecordsTyped, PeerIdFacts DEF Thread
    <3>2. IF workers[k][q] = NoWorker THEN UNCHANGED chan ELSE send_json(k, q, m)
      BY <2>3 DEF reply
    <3> HIDE DEF q, m
    <3>3. CASE workers[k][q] = NoWorker
      BY <3>2, <3>3 DEF TypeOK, Queued
    <3>4. CASE workers[k][q] # NoWorker
      BY <3>1, <3>2, <3>4, QueuesOnWorker
    <3> QED
      BY <3>3, <3>4
  <2> QED
    BY <2>1, <2>2, <2>3
<1>5. PICK t \in Thread : t.pc \in {"read", "list", "entries", "reply"} /\ Becomes(n, p, t)
  BY <1>3
<1>6. Hosted' /\ Wiring'
  BY <1>1, <1>2, <1>5, MovesStep
<1>7. TypeOK'
  BY <1>1, <1>3, <1>4 DEF TypeOK
<1>8. Queued'
  BY <1>1, <1>4, <1>5, QueuedKept DEF Becomes
<1> QED
  BY <1>6, <1>7, <1>8

\* The publisher adds a worker: whoever was to wire that peer finds it wired.
LEMMA PublisherStep ==
  ASSUME IInv, NEW n \in Nodes,
         publisher_add(n) \/ \E p \in PeerIds : publisher_miss(n, p)
  PROVE  IInv'
<1> USE DEF IInv
<1>1. UNCHANGED step /\ UNCHANGED table /\ UNCHANGED chan /\ UNCHANGED handler /\ UNCHANGED crashes
  BY DEF publisher_add, publisher_miss
<1>2. publisher' \in [Nodes -> PeerIds \cup {Nobody}]
  BY DEF publisher_add, publisher_miss, TypeOK
<1>3. /\ workers' \in [Nodes -> [PeerIds -> Nodes \cup {NoWorker, Unreachable}]]
      /\ \A j \in Nodes, r \in PeerIds :
            workers[j][r] # NoWorker => workers'[j][r] = workers[j][r]
  <2>1. CASE \E p \in PeerIds : publisher_miss(n, p)
    BY <2>1 DEF publisher_miss, TypeOK
  <2>2. CASE publisher_add(n)
    <3> DEFINE p == publisher[n]
    <3>1. p \in PeerIds
      BY <2>2 DEF publisher_add, TypeOK
    <3>2. raw_host(p) \in Nodes \cup {Unreachable}
      BY <3>1, PeerIdFacts DEF raw_host
    <3>3. workers' = IF workers[n][p] = NoWorker
                       THEN [workers EXCEPT ![n][p] = raw_host(p)] ELSE workers
      BY <2>2 DEF publisher_add
    <3> HIDE DEF p
    <3> QED
      BY <3>1, <3>2, <3>3 DEF TypeOK
  <2> QED
    BY <2>1, <2>2
<1>4. \A m \in Nodes, r \in PeerIds :
         handler[m][r].pc # "read" => workers'[m][r] = workers[m][r]
  BY <1>3, MembershipAssumption DEF Hosted
<1>5. TypeOK'
  BY <1>1, <1>2, <1>3 DEF TypeOK
<1>6. Hosted'
  BY <1>1, <1>4 DEF Hosted
<1>7. \A m, j \in Nodes, r \in PeerIds, x \in {"ensure", "discover"} :
         Runs(m, r, j, x)' <=> Runs(m, r, j, x)
  BY <1>1, <1>4 DEF Runs
<1>8. Queued'
  <2>1. \A j \in Nodes, r \in PeerIds : workers'[j][r] = NoWorker => chan'[j][r] = <<>>
    BY <1>1, <1>3 DEF Queued
  <2>2. \A m \in Nodes : \A i \in 1..Len(Bootstrap[m]) :
           workers'[m][alias(Bootstrap[m][i])] # NoWorker
    BY <1>3, BootstrapFacts DEF Queued
  <2>3. ASSUME NEW m \in Nodes, NEW j \in Nodes, NEW r \in PeerIds, Runs(m, r, j, "discover")'
        PROVE  workers'[j][handler'[m][r].peer] # NoWorker
    <3>1. Runs(m, r, j, "discover") /\ handler[m][r].peer \in PeerIds
      BY <1>7, <2>3 DEF TypeOK, Thread
    <3> QED
      BY <1>1, <1>3, <3>1 DEF Queued
  <2> QED
    BY <2>1, <2>2, <2>3 DEF Queued
<1>9. Wiring'
  <2>1. \A j \in Nodes, r \in PeerIds : workers'[j][r] = NoWorker => workers[j][r] = NoWorker
    BY <1>3
  <2> QED
    BY <1>1, <1>7, <2>1 DEF Wiring
<1> QED
  BY <1>5, <1>6, <1>8, <1>9

\* A frame lost with a process leaves queues of messages.
LEMMA LoseStep ==
  ASSUME IInv, NEW n \in Nodes, NEW p \in PeerIds, lose(n, p)
  PROVE  IInv'
<1> USE DEF IInv
<1>1. /\ UNCHANGED step /\ UNCHANGED table /\ UNCHANGED workers /\ UNCHANGED handler
      /\ UNCHANGED publisher /\ UNCHANGED crashes
  BY DEF lose
<1>2. PICK s : /\ chan' = [chan EXCEPT ![n][p] = s]
               /\ s = SubSeq(chan[n][p], 1, Len(chan[n][p]) - 1) \/ s = Tail(chan[n][p])
  BY DEF lose, TypeOK
<1>3. chan[n][p] \in Seq(Message) /\ chan[n][p] # <<>>
  BY DEF lose, TypeOK
<1>4. s \in Seq(Message)
  <2>1. Tail(chan[n][p]) \in Seq(Message)
    BY <1>3, HeadTailProperties
  <2>2. /\ Len(chan[n][p]) \in Nat
        /\ \A i \in 1..(Len(chan[n][p]) - 1) : chan[n][p][i] \in Message
    BY <1>3, LenProperties, ElementOfSeq
  <2>3. SubSeq(chan[n][p], 1, Len(chan[n][p]) - 1) \in Seq(Message)
    BY <1>3, <2>2, SubSeqProperties
  <2> QED
    BY <1>2, <2>1, <2>3
<1>5. /\ chan' \in [Nodes -> [PeerIds -> Seq(Message)]]
      /\ \A j \in Nodes, r \in PeerIds : j # n \/ r # p => chan'[j][r] = chan[j][r]
  BY <1>2, <1>4 DEF TypeOK
<1>6. ASSUME NEW j \in Nodes, NEW r \in PeerIds, workers[j][r] = NoWorker
      PROVE  chan'[j][r] = <<>>
  <2>1. chan[j][r] = <<>>
    BY <1>6 DEF Queued
  <2>2. j # n \/ r # p
    BY <1>3, <2>1
  <2> QED
    BY <1>5, <2>1, <2>2
<1>7. TypeOK'
  BY <1>1, <1>5 DEF TypeOK
<1>8. Queued'
  BY <1>1, <1>6, QueuedKept
<1>9. Hosted'
  BY <1>1 DEF Hosted
<1>10. Wiring'
  BY <1>1 DEF Wiring, Runs
<1> QED
  BY <1>7, <1>8, <1>9, <1>10

\* A process that dies takes its table and its threads with it.
LEMMA CrashStep ==
  ASSUME IInv, NEW n \in Nodes, crash(n)
  PROVE  IInv'
<1> USE DEF IInv
<1>1. UNCHANGED workers /\ UNCHANGED chan
  BY DEF crash
<1>2. /\ step' \in [Nodes -> Int] /\ \A m \in Nodes : step'[m] \in -1..Running(m)
      /\ \A m \in Nodes : m # n => step'[m] = step[m]
  BY BootstrapFacts DEF crash, Hosted, TypeOK
<1>3. /\ table' \in [Nodes -> SUBSET PeerIds]
      /\ \A m \in Nodes : table'[m] = IF m = n THEN {} ELSE table[m]
  BY DEF crash, TypeOK
<1>4. publisher' \in [Nodes -> PeerIds \cup {Nobody}] /\ crashes' \in 0..MaxCrashes
  BY MembershipAssumption DEF crash, TypeOK
<1>5. \A m \in Nodes, r \in PeerIds :
         handler'[m][r] = IF workers[m][r] = n THEN Idle(m, r) ELSE handler[m][r]
  BY DEF crash
<1>6. \A m \in Nodes, r \in PeerIds : Idle(m, r) \in Thread /\ Idle(m, r).pc = "read"
  BY RecordsTyped
<1>7. handler' \in [Nodes -> [PeerIds -> Thread]]
  BY <1>5, <1>6 DEF crash, TypeOK
<1>8. \A m \in Nodes, r \in PeerIds : handler'[m][r].pc # "read" =>
         workers[m][r] # n /\ handler'[m][r] = handler[m][r]
  BY <1>5, <1>6
<1>9. TypeOK'
  BY <1>1, <1>2, <1>3, <1>4, <1>7 DEF TypeOK
<1>10. Hosted'
  BY <1>1, <1>2, <1>3, <1>8 DEF Hosted
<1>11. Queued'
  <2>1. \A j \in Nodes, q \in PeerIds : workers[j][q] = NoWorker => chan'[j][q] = <<>>
    BY <1>1 DEF Queued
  <2> QED
    BY <1>1, <1>8, <2>1, QueuedKept
<1>12. Wiring'
  <2>1. \A m, j \in Nodes, r \in PeerIds :
           Runs(m, r, j, "ensure")' <=> Runs(m, r, j, "ensure") /\ j # n
    BY <1>1, <1>5, <1>6 DEF Runs
  <2>2. \A m, j \in Nodes, r \in PeerIds :
           Runs(m, r, j, "ensure")' => handler'[m][r] = handler[m][r]
    BY <1>8 DEF Runs
  <2>3. \A m, j \in Nodes, r \in PeerIds :
           Runs(m, r, j, "ensure")' => handler'[m][r].peer \in table'[j]
    BY <1>3, <2>1, <2>2 DEF Wiring
  <2>4. ASSUME NEW m \in Nodes, NEW l \in Nodes, NEW j \in Nodes,
               NEW r \in PeerIds, NEW s \in PeerIds,
               Runs(m, r, j, "ensure")', Runs(l, s, j, "ensure")',
               handler'[m][r].peer = handler'[l][s].peer
        PROVE  m = l /\ r = s
    BY <2>1, <2>2, <2>4 DEF Wiring
  <2>5. ASSUME NEW j \in Nodes, NEW q \in PeerIds, q \in table'[j], workers'[j][q] = NoWorker
        PROVE  \E m \in Nodes, r \in PeerIds :
                  Runs(m, r, j, "ensure")' /\ handler'[m][r].peer = q
    <3>1. j # n /\ q \in table[j] /\ workers[j][q] = NoWorker
      BY <1>1, <1>3, <2>5
    <3>2. PICK m \in Nodes, r \in PeerIds :
             Runs(m, r, j, "ensure") /\ handler[m][r].peer = q
      BY <3>1 DEF Wiring
    <3> QED
      BY <2>1, <2>2, <3>1, <3>2
  <2> QED
    BY <2>3, <2>4, <2>5 DEF Wiring
<1> QED
  BY <1>9, <1>10, <1>11, <1>12

\* It starts again with the workers of main() and nobody in its table.
LEMMA RestartStep ==
  ASSUME IInv, NEW n \in Nodes, restart(n)
  PROVE  IInv'
<1> USE DEF IInv
<1>1. /\ UNCHANGED table /\ UNCHANGED chan /\ UNCHANGED handler /\ UNCHANGED publisher
      /\ UNCHANGED crashes /\ step[n] = -1
      /\ \A p \in PeerIds : chan[n][p] = <<>> /\ handler[n][p].pc = "read"
  BY DEF restart
<1>2. /\ step' \in [Nodes -> Int] /\ \A m \in Nodes : step'[m] \in -1..Running(m)
      /\ \A m \in Nodes : step'[m] = IF m = n THEN 0 ELSE step[m]
  BY BootstrapFacts DEF restart, Hosted, TypeOK
<1>3. /\ workers' \in [Nodes -> [PeerIds -> Nodes \cup {NoWorker, Unreachable}]]
      /\ \A m \in Nodes : workers'[m] = IF m = n THEN bootstrap_workers(n) ELSE workers[m]
  BY BootstrapWorkers DEF restart, TypeOK
<1>4. table[n] = {}
  BY <1>1 DEF Hosted
<1>5. \A m, j \in Nodes, r \in PeerIds, x \in {"ensure", "discover"} :
         /\ Runs(m, r, j, x)' <=> Runs(m, r, j, x)
         /\ Runs(m, r, j, x) => j # n
  BY <1>1, <1>3 DEF Runs, Hosted
<1>6. TypeOK'
  BY <1>1, <1>2, <1>3 DEF TypeOK
<1>7. Hosted'
  <2>1. ASSUME NEW m \in Nodes, NEW r \in PeerIds, handler'[m][r].pc # "read"
        PROVE  workers'[m][r] \in Nodes /\ step'[workers'[m][r]] > 0
    <3>1. m # n /\ handler[m][r].pc # "read"
      BY <1>1, <2>1
    <3>2. workers'[m][r] = workers[m][r] /\ workers[m][r] \in Nodes /\ step[workers[m][r]] > 0
      BY <1>3, <3>1 DEF Hosted
    <3>3. workers[m][r] # n
      BY <1>1, <3>2
    <3> QED
      BY <1>2, <3>2, <3>3
  <2>2. \A m \in Nodes : step'[m] <= 0 => table'[m] = {}
    BY <1>1, <1>2, <1>4 DEF Hosted
  <2> QED
    BY <1>2, <2>1, <2>2 DEF Hosted
<1>8. Queued'
  <2>1. \A j \in Nodes, r \in PeerIds : workers'[j][r] = NoWorker => chan'[j][r] = <<>>
    BY <1>1, <1>3 DEF Queued
  <2>2. ASSUME NEW m \in Nodes, NEW i \in 1..Len(Bootstrap[m])
        PROVE  workers'[m][alias(Bootstrap[m][i])] # NoWorker
    <3>1. CASE m = n
      BY <1>3, <3>1, BootstrapWorkers, MembershipAssumption
    <3>2. CASE m # n
      BY <1>3, <3>2 DEF Queued
    <3> QED
      BY <3>1, <3>2
  <2>3. \A m, j \in Nodes, r \in PeerIds :
           Runs(m, r, j, "discover")' => workers'[j][handler'[m][r].peer] # NoWorker
    BY <1>1, <1>3, <1>5 DEF Queued
  <2> QED
    BY <2>1, <2>2, <2>3 DEF Queued
<1>9. Wiring'
  <2>1. \A j \in Nodes, q \in PeerIds :
           q \in table[j] => workers'[j][q] = workers[j][q]
    BY <1>3, <1>4
  <2> QED
    BY <1>1, <1>5, <2>1 DEF Wiring
<1> QED
  BY <1>6, <1>7, <1>8, <1>9

-----------------------------------------------------------------------------
\* The inductive invariant: the types, Hosted, Queued and Wiring hold of every
\* reachable state, for any topology and any number of crashes.
THEOREM Inductive == Spec => []IInv
<1>1. Init => IInv
  BY InitHolds
<1>2. IInv /\ [Next]_vars => IInv'
  <2> SUFFICES ASSUME IInv, [Next]_vars PROVE IInv'
    OBVIOUS
  <2>1. CASE UNCHANGED vars
    BY <2>1 DEF vars, IInv, TypeOK, Hosted, Queued, Wiring, Runs
  <2>2. CASE Next
    <3>1. PICK n \in Nodes :
             \/ main(n)
             \/ \E p \in PeerIds : connection_thread(n, p) \/ publisher_miss(n, p) \/ lose(n, p)
             \/ publisher_add(n)
             \/ crash(n) \/ restart(n)
      BY <2>2 DEF Next
    <3>2. ASSUME NEW p \in PeerIds, connection_thread(n, p) PROVE IInv'
      BY <3>2, ReadStep, EnsureStep, AnswerStep DEF connection_thread
    <3> QED
      BY <3>1, <3>2, MainStep, PublisherStep, LoseStep, CrashStep, RestartStep
  <2> QED
    BY <2>1, <2>2
<1> QED
  BY <1>1, <1>2, PTL DEF Spec

\* The model's types are kept.
THEOREM Typed == Spec => []TypeOK
<1>1. IInv => TypeOK
  BY DEF IInv
<1> QED
  BY <1>1, Inductive, PTL

\* A listed peer has a worker or exactly one thread about to create it, and only
\* workers have frames: whatever the handler threads, the publisher, crashes and
\* restarts do in between.
THEOREM Wired == Spec => []WiredOrPending
<1>1. ASSUME IInv PROVE WiredOrPending
  <2> USE DEF IInv
  <2>1. ASSUME NEW k \in Nodes, NEW q \in PeerIds, q \in table[k], workers[k][q] = NoWorker
        PROVE  Cardinality({c \in ThreadsOf(k) :
                  /\ handler[c[1]][c[2]].pc = "ensure"
                  /\ handler[c[1]][c[2]].peer = q}) = 1
    <3> DEFINE T == {c \in ThreadsOf(k) :
                        /\ handler[c[1]][c[2]].pc = "ensure"
                        /\ handler[c[1]][c[2]].peer = q}
    <3>1. PICK n \in Nodes, p \in PeerIds :
             Runs(n, p, k, "ensure") /\ handler[n][p].peer = q
      BY <1>1, <2>1 DEF Wiring
    <3>2. <<n, p>> \in T
      BY <3>1 DEF Runs, ThreadsOf
    <3>3. ASSUME NEW c \in T PROVE c = <<n, p>>
      <4>1. /\ c \in Nodes \X PeerIds
            /\ Runs(c[1], c[2], k, "ensure") /\ handler[c[1]][c[2]].peer = q
        BY DEF Runs, ThreadsOf
      <4>2. c[1] \in Nodes /\ c[2] \in PeerIds /\ c = <<c[1], c[2]>>
        BY <4>1
      <4>3. c[1] = n /\ c[2] = p
        BY <1>1, <3>1, <4>1, <4>2 DEF Wiring
      <4> QED
        BY <4>2, <4>3
    <3>4. T = {<<n, p>>}
      BY <3>2, <3>3
    <3> QED
      BY <3>4, FS_Singleton
  <2> QED
    BY <1>1, <2>1 DEF WiredOrPending, Queued
<1> QED
  BY <1>1, Inductive, PTL

\* The only way to a worker that misses its peer is the publisher's use of the
\* advertised host 0.0.0.0: when no node is configured with it, every worker of
\* every node connects to the peer it was created for.
THEOREM MissesOnlyBindAll ==
  ASSUME BindAll = {}
  PROVE  Spec => []ConnectsToPeer
<1>0. \A n \in Nodes, q \in PeerIds : bootstrap_workers(n)[q] \in {NoWorker, q.of}
  BY DEF bootstrap_workers
<1>1. Init => ConnectsToPeer
  BY <1>0 DEF Init, ConnectsToPeer
<1>2. ASSUME IInv, ConnectsToPeer, [Next]_vars PROVE ConnectsToPeer'
  <2> USE DEF IInv
  <2>0. workers \in [Nodes -> [PeerIds -> Nodes \cup {NoWorker, Unreachable}]]
    BY <1>2 DEF TypeOK
  <2>1. CASE UNCHANGED workers
    BY <1>2, <2>1 DEF ConnectsToPeer
  <2>2. ASSUME NEW k \in Nodes, NEW q \in PeerIds, workers' = [workers EXCEPT ![k][q] = q.of]
        PROVE  ConnectsToPeer'
    BY <1>2, <2>0, <2>2 DEF ConnectsToPeer
  <2>3. ASSUME NEW n \in Nodes, NEW p \in PeerIds, NEW k \in Nodes, ensure_client_peer(n, p, k)
        PROVE  ConnectsToPeer'
    <3>1. handler[n][p].peer \in PeerIds
      BY <1>2 DEF TypeOK, Thread
    <3> QED
      BY <2>1, <2>2, <2>3, <3>1 DEF ensure_client_peer, try_host
  <2>4. ASSUME NEW n \in Nodes, publisher_add(n) PROVE ConnectsToPeer'
    <3>1. publisher[n] \in PeerIds
      BY <1>2, <2>4 DEF publisher_add, TypeOK
    <3>2. raw_host(publisher[n]) = publisher[n].of
      BY DEF raw_host
    <3> QED
      BY <2>1, <2>2, <2>4, <3>1, <3>2 DEF publisher_add
  <2>5. ASSUME NEW n \in Nodes, restart(n) PROVE ConnectsToPeer'
    <3>1. \A m \in Nodes : workers'[m] = IF m = n THEN bootstrap_workers(n) ELSE workers[m]
      BY <2>0, <2>5 DEF restart
    <3> QED
      BY <1>0, <1>2, <3>1 DEF ConnectsToPeer
  <2>6. ASSUME NEW n \in Nodes, main(n) \/ crash(n) PROVE UNCHANGED workers
    BY <2>6 DEF main, start_server, seed, bootstrap, crash
  <2>7. ASSUME NEW n \in Nodes, NEW p \in PeerIds,
               connection_thread(n, p) \/ publisher_miss(n, p) \/ lose(n, p)
        PROVE  ConnectsToPeer'
    BY <2>1, <2>3, <2>7 DEF connection_thread, handle_join_request, handle_peer_list,
       integrate, discovery_join, list_peers, reply, publisher_miss, lose
  <2> QED
    BY <1>2, <2>1, <2>4, <2>5, <2>6, <2>7 DEF Next, vars
<1> QED
  BY <1>1, <1>2, Inductive, PTL DEF Spec

-----------------------------------------------------------------------------
\* k's JOIN_REQUEST is on its way on its worker p.
Sends(k, p) == \E i \in 1..Len(chan[k][p]) : chan[k][p][i] = Join(k)

\* A thread of k is about to send p a JOIN_REQUEST, or to wire it first.
Underway(k, p) ==
  \E n \in Nodes, r \in PeerIds :
     /\ workers[n][r] = k /\ handler[n][r].pc \in {"ensure", "discover"}
     /\ handler[n][r].peer = p

\* Workers connect to their peer or to nobody, and carry their node's frames.
Addressed ==
  \A n \in Nodes, p \in PeerIds :
     /\ workers[n][p] \in {NoWorker, Unreachable, p.of}
     /\ \A i \in 1..Len(chan[n][p]) : chan[n][p][i].sender = n

\* Whoever was sent a JOIN_REQUEST at start-up lists its sender, or will.
Introduced ==
  \A n \in Nodes : \A i \in 1..Len(Bootstrap[n]) :
     step[n] > Len(Bootstrap[n]) + i /\ Bootstrap[n][i] # n =>
        Sends(n, alias(Bootstrap[n][i])) \/ node(n) \in table[Bootstrap[n][i]]

\* Whoever is listed lists the other, or will.
Returned ==
  \A k, m \in Nodes :
     node(m) \in table[k] =>
        \/ Underway(k, node(m)) \/ Sends(k, node(m))
        \/ workers[k][node(m)] = m /\ node(k) \in table[m]

\* Until the first crash JOIN_REQUESTs are not lost.
Greets ==
  crashes = 0 => (\A n \in Nodes : step[n] # -1) /\ Addressed /\ Introduced /\ Returned

\* What a step must do to keep Greets: lists and workers stay, a JOIN_REQUEST that
\* leaves a queue puts its sender on a list, a thread that no longer has one to
\* send has sent it, and a new entry makes a thread send one.
LEMMA GreetsKept ==
  ASSUME IInv, Greets, crashes' = 0 => crashes = 0,
         crashes' = 0 =>
            /\ \A n \in Nodes : step'[n] # -1
            /\ Addressed'
            /\ \A k \in Nodes : table[k] \subseteq table'[k]
            /\ \A k \in Nodes, p \in PeerIds :
                  workers[k][p] # NoWorker => workers'[k][p] = workers[k][p]
            /\ \A k \in Nodes, p \in PeerIds :
                  Sends(k, p) /\ p.of # k =>
                     Sends(k, p)' \/ (workers'[k][p] = p.of /\ node(k) \in table'[p.of])
            /\ \A k, m \in Nodes :
                  Underway(k, node(m)) => Underway(k, node(m))' \/ Sends(k, node(m))'
            /\ \A k, m \in Nodes :
                  node(m) \in table'[k] => node(m) \in table[k] \/ Underway(k, node(m))'
            /\ \A n \in Nodes : \A i \in 1..Len(Bootstrap[n]) :
                  step'[n] > Len(Bootstrap[n]) + i =>
                     step[n] > Len(Bootstrap[n]) + i \/ Sends(n, alias(Bootstrap[n][i]))'
  PROVE  Greets'
<1> SUFFICES ASSUME crashes' = 0
             PROVE  (\A n \in Nodes : step'[n] # -1) /\ Addressed' /\ Introduced' /\ Returned'
  BY DEF Greets
<1> USE DEF IInv
<1>1. crashes = 0 /\ Addressed /\ Introduced /\ Returned
  BY DEF Greets
<1>2. ASSUME NEW n \in Nodes, NEW i \in 1..Len(Bootstrap[n]),
             step'[n] > Len(Bootstrap[n]) + i, Bootstrap[n][i] # n
      PROVE  Sends(n, alias(Bootstrap[n][i]))' \/ node(n) \in table'[Bootstrap[n][i]]
  <2> DEFINE m == Bootstrap[n][i]
  <2>1. m \in Nodes /\ alias(m) \in PeerIds /\ alias(m).of = m
    BY BootstrapFacts, PeerIdFacts
  <2>2. CASE Sends(n, alias(m))'
    BY <2>2
  <2>3. CASE ~Sends(n, alias(m))'
    <3>1. step[n] > Len(Bootstrap[n]) + i
      BY <1>2, <2>3
    <3>2. Sends(n, alias(m)) \/ node(n) \in table[m]
      BY <1>1, <1>2, <3>1 DEF Introduced
    <3> HIDE DEF m
    <3>3. m # n
      BY <1>2 DEF m
    <3>4. node(n) \in table'[m]
      BY <2>1, <2>3, <3>2, <3>3
    <3> QED
      BY <3>4 DEF m
  <2> QED
    BY <2>2, <2>3
<1>3. ASSUME NEW k \in Nodes, NEW m \in Nodes, node(m) \in table'[k]
      PROVE  \/ Underway(k, node(m))' \/ Sends(k, node(m))'
             \/ workers'[k][node(m)] = m /\ node(k) \in table'[m]
  <2>1. node(m) \in PeerIds /\ node(m).of = m
    BY PeerIdFacts
  <2>2. CASE node(m) \in table[k]
    <3>1. m # k
      BY <2>2 DEF TypeOK
    <3>2. CASE Underway(k, node(m))
      BY <3>2
    <3>3. CASE Sends(k, node(m))
      <4>1. Sends(k, node(m))' \/ (workers'[k][node(m)] = node(m).of /\ node(k) \in table'[node(m).of])
        BY <2>1, <3>1, <3>3
      <4> QED
        BY <2>1, <4>1
    <3>4. CASE workers[k][node(m)] = m /\ node(k) \in table[m]
      <4>1. m # NoWorker
        BY MembershipAssumption
      <4>2. workers'[k][node(m)] = workers[k][node(m)]
        BY <2>1, <3>4, <4>1
      <4> QED
        BY <3>4, <4>2
    <3> QED
      BY <1>1, <2>2, <3>2, <3>3, <3>4 DEF Returned
  <2>3. CASE node(m) \notin table[k]
    BY <1>3, <2>3
  <2> QED
    BY <2>2, <2>3
<1>4. Introduced'
  BY <1>2 DEF Introduced
<1>5. Returned'
  BY <1>3 DEF Returned
<1> QED
  BY <1>4, <1>5

\* A frame that is queued delays none, and is one of its node's.
LEMMA QueueEffect ==
  ASSUME TypeOK, Addressed, UNCHANGED workers, NEW n \in Nodes, NEW p \in PeerIds,
         NEW m \in Message, m.sender = n, send_json(n, p, m)
  PROVE  /\ Addressed'
         /\ \A k \in Nodes, q \in PeerIds : Sends(k, q) => Sends(k, q)'
         /\ m = Join(n) => Sends(n, p)'
<1> DEFINE s == chan[n][p]
<1>1. s \in Seq(Message) /\ Len(s) \in Nat
  BY LenProperties DEF TypeOK
<1>2. /\ chan'[n][p] = Append(s, m)
      /\ \A k \in Nodes, q \in PeerIds : k # n \/ q # p => chan'[k][q] = chan[k][q]
  BY DEF send_json, TypeOK
<1>3. /\ Len(Append(s, m)) = Len(s) + 1 /\ Append(s, m)[Len(s) + 1] = m
      /\ \A i \in 1..Len(s) : Append(s, m)[i] = s[i]
  BY <1>1, AppendProperties
<1>4. Addressed'
  <2>1. ASSUME NEW k \in Nodes, NEW q \in PeerIds, NEW i \in 1..Len(chan'[k][q])
        PROVE  chan'[k][q][i].sender = k
    <3>1. CASE k = n /\ q = p
      <4>1. i \in 1..Len(s) \/ i = Len(s) + 1
        BY <1>1, <1>2, <1>3, <3>1
      <4>2. CASE i \in 1..Len(s)
        BY <1>2, <1>3, <3>1, <4>2 DEF Addressed
      <4>3. CASE i = Len(s) + 1
        BY <1>2, <1>3, <3>1, <4>3
      <4> QED
        BY <4>1, <4>2, <4>3
    <3>2. CASE ~(k = n /\ q = p)
      BY <1>2, <3>2 DEF Addressed
    <3> QED
      BY <3>1, <3>2
  <2> QED
    BY <2>1 DEF Addressed
<1>5. ASSUME NEW k \in Nodes, NEW q \in PeerIds, Sends(k, q) PROVE Sends(k, q)'
  <2>1. CASE k = n /\ q = p
    <3>1. PICK i \in 1..Len(s) : s[i] = Join(n)
      BY <1>5, <2>1 DEF Sends
    <3>2. i \in 1..Len(chan'[n][p]) /\ chan'[n][p][i] = Join(n)
      BY <1>1, <1>2, <1>3, <3>1
    <3>3. Sends(n, p)'
      BY <3>2 DEF Sends, Join
    <3> QED
      BY <2>1, <3>3
  <2>2. CASE ~(k = n /\ q = p)
    BY <1>2, <1>5, <2>2 DEF Sends, Join
  <2> QED
    BY <2>1, <2>2
<1>6. ASSUME m = Join(n) PROVE Sends(n, p)'
  <2>1. Len(s) + 1 \in 1..Len(chan'[n][p]) /\ chan'[n][p][Len(s) + 1] = Join(n)
    BY <1>1, <1>2, <1>3, <1>6
  <2> QED
    BY <2>1 DEF Sends, Join
<1> QED
  BY <1>4, <1>5, <1>6

\* A frame that is read was its node's, and only it leaves the queue.
LEMMA DequeueEffect ==
  ASSUME TypeOK, Addressed, UNCHANGED workers, NEW n \in Nodes, NEW p \in PeerIds,
         chan[n][p] # <<>>, chan' = [chan EXCEPT ![n][p] = Tail(@)]
  PROVE  /\ Addressed' /\ Head(chan[n][p]).sender = n
         /\ \A k \in Nodes, q \in PeerIds :
               Sends(k, q) => \/ Sends(k, q)'
                              \/ k = n /\ q = p /\ Head(chan[n][p]) = Join(n)
<1> DEFINE s == chan[n][p]
<1>1. s \in Seq(Message) /\ Len(s) \in Nat /\ s # <<>>
  BY LenProperties DEF TypeOK
<1>2. /\ chan'[n][p] = Tail(s)
      /\ \A k \in Nodes, q \in PeerIds : k # n \/ q # p => chan'[k][q] = chan[k][q]
  BY DEF TypeOK
<1>3. Len(s) > 0 /\ Head(s) = s[1]
  BY <1>1, EmptySeq
<1>4. Len(Tail(s)) = Len(s) - 1 /\ \A i \in 1..Len(Tail(s)) : Tail(s)[i] = s[i + 1]
  BY <1>1, HeadTailProperties
<1>5. Head(s).sender = n
  BY <1>1, <1>3 DEF Addressed
<1>6. Addressed'
  <2>1. ASSUME NEW k \in Nodes, NEW q \in PeerIds, NEW i \in 1..Len(chan'[k][q])
        PROVE  chan'[k][q][i].sender = k
    <3>1. CASE k = n /\ q = p
      <4>1. chan'[k][q] = Tail(s) /\ i \in 1..Len(Tail(s))
        BY <1>2, <3>1
      <4>2. Tail(s)[i] = s[i + 1]
        BY <1>4, <4>1
      <4>3. i + 1 \in 1..Len(s)
        BY <1>1, <1>4, <4>1
      <4>4. s[i + 1].sender = n
        BY <4>3 DEF Addressed
      <4> QED
        BY <3>1, <4>1, <4>2, <4>4
    <3>2. CASE ~(k = n /\ q = p)
      BY <1>2, <3>2 DEF Addressed
    <3> QED
      BY <3>1, <3>2
  <2> QED
    BY <2>1 DEF Addressed
<1>7. ASSUME NEW k \in Nodes, NEW q \in PeerIds, Sends(k, q)
      PROVE  Sends(k, q)' \/ (k = n /\ q = p /\ Head(s) = Join(n))
  <2>1. CASE k = n /\ q = p
    <3>1. PICK i \in 1..Len(s) : s[i] = Join(n)
      BY <1>7, <2>1 DEF Sends
    <3>2. CASE i = 1
      BY <1>3, <2>1, <3>1, <3>2
    <3>3. CASE i # 1
      <4>1. i - 1 \in 1..Len(Tail(s)) /\ Tail(s)[i - 1] = s[i]
        BY <1>1, <1>4, <3>3
      <4>2. Sends(n, p)'
        BY <1>2, <3>1, <4>1 DEF Sends, Join
      <4> QED
        BY <2>1, <4>2
    <3> QED
      BY <3>2, <3>3
  <2>2. CASE ~(k = n /\ q = p)
    BY <1>2, <1>7, <2>2 DEF Sends, Join
  <2> QED
    BY <2>1, <2>2
<1> QED
  BY <1>5, <1>6, <1>7

\* A step that leaves the queues alone.
LEMMA SameQueues ==
  ASSUME UNCHANGED chan
  PROVE  \A k \in Nodes, q \in PeerIds : Sends(k, q) <=> Sends(k, q)'
BY DEF Sends, Join

\* main(): a JOIN_REQUEST is queued before the step counts as done.
LEMMA MainGreets ==
  ASSUME IInv, Greets, NEW n \in Nodes, main(n)
  PROVE  Greets'
<1> USE DEF IInv
<1>0. /\ UNCHANGED workers /\ UNCHANGED handler /\ UNCHANGED crashes
      /\ step \in [Nodes -> Int]
  BY DEF main, start_server, seed, bootstrap, Hosted
<1>1. SUFFICES ASSUME crashes = 0, Addressed, \A m \in Nodes : step[m] # -1 PROVE Greets'
  BY <1>0 DEF Greets
<1>2. \A k, m \in Nodes : Underway(k, node(m)) => Underway(k, node(m))'
  BY <1>0 DEF Underway, node
<1>3. \A m \in Nodes : Len(Bootstrap[m]) \in Nat
  BY BootstrapFacts
<1>4. CASE start_server(n) \/ seed(n)
  <2>1. UNCHANGED chan
    BY <1>4 DEF start_server, seed
  <2>2. \A k \in Nodes, q \in PeerIds : Sends(k, q) => Sends(k, q)'
    BY <2>1, SameQueues
  <2>3. Addressed'
    BY <1>0, <1>1, <2>1 DEF Addressed
  <2>0. PICK b : UNCHANGED table \/ table' = [table EXCEPT ![n] = @ \cup {alias(b)}]
    BY <1>4 DEF start_server, seed
  <2>4. \A k \in Nodes : table[k] \subseteq table'[k] /\ table'[k] \subseteq table[k] \cup {alias(b)}
    <3>1. table \in [Nodes -> SUBSET PeerIds]
      BY DEF TypeOK
    <3> QED
      BY <2>0, <3>1
  <2>5. \A k, m \in Nodes : node(m) \in table'[k] => node(m) \in table[k]
    BY <2>4, PeerIdFacts
  <2>6. \A m \in Nodes : step'[m] # -1 /\ (m # n => step'[m] = step[m])
    BY <1>0, <1>1, <1>3, <1>4 DEF start_server, seed
  <2>7. step'[n] <= Len(Bootstrap[n]) + 1 /\ step'[n] \in Int
    BY <1>0, <1>3, <1>4 DEF start_server, seed
  <2>8. ASSUME NEW m \in Nodes, NEW i \in 1..Len(Bootstrap[m]), step'[m] > Len(Bootstrap[m]) + i
        PROVE  step[m] > Len(Bootstrap[m]) + i
    BY <1>3, <2>6, <2>7, <2>8
  <2> QED
    BY <1>0, <1>2, <2>2, <2>3, <2>4, <2>5, <2>6, <2>8, GreetsKept
<1>5. CASE bootstrap(n)
  <2> DEFINE L == Len(Bootstrap[n])
  <2>0. L \in Nat /\ step[n] - L \in 1..L /\ step[n] = L + (step[n] - L)
    BY <1>0, <1>3, <1>5 DEF bootstrap
  <2>9. PICK i0 \in 1..L : i0 = step[n] - L
    BY <2>0
  <2>10. PICK p : p = alias(Bootstrap[n][i0])
    OBVIOUS
  <2>1. L \in Nat /\ step[n] = L + i0 /\ UNCHANGED table /\ send_json(n, p, Join(n))
    BY <1>5, <2>0, <2>9, <2>10 DEF bootstrap
  <2>2. /\ step'[n] = step[n] + 1 /\ \A m \in Nodes : m # n => step'[m] = step[m]
    BY <1>0, <1>5 DEF bootstrap
  <2>3. p \in PeerIds
    BY <2>10, BootstrapFacts
  <2>4. Join(n) \in Message /\ Join(n).sender = n
    BY DEF Join, Message
  <2>5. /\ Addressed' /\ Sends(n, p)'
        /\ \A k \in Nodes, q \in PeerIds : Sends(k, q) => Sends(k, q)'
    BY <1>0, <1>1, <2>1, <2>3, <2>4, QueueEffect
  <2>6. ASSUME NEW m \in Nodes, NEW i \in 1..Len(Bootstrap[m]), step'[m] > Len(Bootstrap[m]) + i
        PROVE  step[m] > Len(Bootstrap[m]) + i \/ Sends(m, alias(Bootstrap[m][i]))'
    <3>1. CASE m # n
      BY <2>2, <2>6, <3>1
    <3>2. CASE m = n /\ i = i0
      BY <2>5, <2>10, <3>2
    <3>3. CASE m = n /\ i # i0
      BY <1>0, <2>1, <2>2, <2>6, <3>3
    <3> QED
      BY <3>1, <3>2, <3>3
  <2>7. \A m \in Nodes : step'[m] # -1
    BY <1>1, <2>1, <2>2
  <2> QED
    BY <1>0, <1>2, <2>1, <2>5, <2>6, <2>7, GreetsKept
<1> QED
  BY <1>4, <1>5 DEF main

\* A thread that has nothing to do with a peer becomes one that wires a peer it has
\* just listed, or one that still has nothing to do with a peer.
LEMMA ThreadsGreet ==
  ASSUME IInv, NEW n \in Nodes, NEW p \in PeerIds, NEW k \in Nodes, NEW t,
         workers[n][p] = k, handler[n][p].pc \notin {"ensure", "discover"},
         UNCHANGED workers, Becomes(n, p, t),
         \/ UNCHANGED table
         \/ \E peer \in PeerIds : t.pc = "ensure" /\ t.peer = peer /\ Lists(n, p, k, peer)
  PROVE  /\ \A j \in Nodes : table[j] \subseteq table'[j]
         /\ \A j, m \in Nodes : Underway(j, node(m)) => Underway(j, node(m))'
         /\ \A j, m \in Nodes :
               node(m) \in table'[j] => node(m) \in table[j] \/ Underway(j, node(m))'
<1>1. \A m \in Nodes, r \in PeerIds :
         handler'[m][r] = IF m = n /\ r = p THEN t ELSE handler[m][r]
  BY DEF Becomes
<1>2. ASSUME NEW j \in Nodes, NEW m \in Nodes, Underway(j, node(m)) PROVE Underway(j, node(m))'
  <2>1. PICK a \in Nodes, r \in PeerIds :
           /\ workers[a][r] = j /\ handler[a][r].pc \in {"ensure", "discover"}
           /\ handler[a][r].peer = node(m)
    BY <1>2 DEF Underway
  <2>2. handler'[a][r] = handler[a][r] /\ workers'[a][r] = workers[a][r]
    BY <1>1, <2>1
  <2> QED
    BY <2>1, <2>2 DEF Underway, node
<1>3. CASE UNCHANGED table
  BY <1>2, <1>3
<1>4. ASSUME NEW peer \in PeerIds, t.pc = "ensure", t.peer = peer, Lists(n, p, k, peer)
      PROVE  /\ \A j \in Nodes : table[j] \subseteq table'[j]
             /\ \A j, m \in Nodes :
                   node(m) \in table'[j] => node(m) \in table[j] \/ Underway(j, node(m))'
  <2>1. \A j \in Nodes : table'[j] = IF j = k THEN table[k] \cup {peer} ELSE table[j]
    BY <1>4 DEF Lists
  <2>2. \A m \in Nodes : node(m) = peer => Underway(k, node(m))'
    BY <1>1, <1>4 DEF Underway, node
  <2> QED
    BY <2>1, <2>2
<1> QED
  BY <1>2, <1>3, <1>4

\* A thread reads a frame, or integrates an entry: the sender of a JOIN_REQUEST
\* is listed when it has been read.
LEMMA ReadGreets ==
  ASSUME IInv, Greets, NEW n \in Nodes, NEW p \in PeerIds, NEW k \in Nodes,
         handle_join_request(n, p, k) \/ handle_peer_list(n, p, k) \/ integrate(n, p, k)
  PROVE  Greets'
<1> USE DEF IInv
<1>0. /\ UNCHANGED workers /\ UNCHANGED step /\ UNCHANGED crashes
      /\ workers[n][p] = k /\ handler[n][p].pc \in {"read", "entries"}
  BY DEF handle_join_request, handle_peer_list, integrate, Reads, At
<1>1. SUFFICES ASSUME crashes = 0, Addressed, \A m \in Nodes : step[m] # -1 PROVE Greets'
  BY <1>0 DEF Greets
<1>2. k = p.of
  BY <1>0, <1>1, MembershipAssumption DEF Addressed
<1>3. \E t : /\ Becomes(n, p, t)
             /\ \/ UNCHANGED table
                \/ \E peer \in PeerIds : t.pc = "ensure" /\ t.peer = peer /\ Lists(n, p, k, peer)
  <2>1. ASSUME UNCHANGED <<table, handler>>
        PROVE  Becomes(n, p, handler[n][p]) /\ UNCHANGED table
    BY <2>1 DEF Becomes
  <2>2. ASSUME NEW peer \in PeerIds, Lists(n, p, k, peer)
        PROVE  \E t : Becomes(n, p, t) /\ t.pc = "ensure" /\ t.peer = peer
    BY <2>2 DEF Lists
  <2>3. CASE handle_join_request(n, p, k)
    BY <2>1, <2>2, <2>3, JoinEffect DEF Goes
  <2>4. CASE handle_peer_list(n, p, k)
    BY <2>4, ListEffect DEF Goes
  <2>5. CASE integrate(n, p, k)
    BY <2>2, <2>5, IntegrateEffect, IdleEffect
  <2> QED
    BY <2>3, <2>4, <2>5
<1>4. /\ \A j \in Nodes : table[j] \subseteq table'[j]
      /\ \A j, m \in Nodes : Underway(j, node(m)) => Underway(j, node(m))'
      /\ \A j, m \in Nodes :
            node(m) \in table'[j] => node(m) \in table[j] \/ Underway(j, node(m))'
  BY <1>0, <1>3, ThreadsGreet
<1>5. /\ Addressed'
      /\ \A j \in Nodes, q \in PeerIds :
            Sends(j, q) /\ q.of # j =>
               Sends(j, q)' \/ (workers'[j][q] = q.of /\ node(j) \in table'[q.of])
  <2>1. CASE integrate(n, p, k)
    <3>1. UNCHANGED chan
      BY <2>1 DEF integrate
    <3>2. Addressed'
      BY <1>0, <1>1, <3>1 DEF Addressed
    <3> QED
      BY <3>1, <3>2, SameQueues
  <2>2. CASE handle_peer_list(n, p, k)
    <3>1. /\ chan[n][p] # <<>> /\ chan' = [chan EXCEPT ![n][p] = Tail(@)]
          /\ Head(chan[n][p]).type = "PEER_LIST"
      BY <2>2 DEF handle_peer_list, Reads
    <3>2. Head(chan[n][p]) # Join(n)
      BY <3>1 DEF Join
    <3> QED
      BY <1>0, <1>1, <3>1, <3>2, DequeueEffect
  <2>3. CASE handle_join_request(n, p, k)
    <3>1. chan[n][p] # <<>> /\ chan' = [chan EXCEPT ![n][p] = Tail(@)]
      BY <2>3 DEF handle_join_request, Reads
    <3>2. /\ Addressed' /\ Head(chan[n][p]).sender = n
          /\ \A j \in Nodes, q \in PeerIds :
                Sends(j, q) => \/ Sends(j, q)'
                               \/ j = n /\ q = p /\ Head(chan[n][p]) = Join(n)
      BY <1>0, <1>1, <3>1, DequeueEffect
    <3>3. n # k => node(n) \in table'[k]
      BY <2>3, <3>2 DEF handle_join_request, add_new_peer, TypeOK
    <3> QED
      BY <1>0, <1>2, <3>2, <3>3
  <2> QED
    BY <2>1, <2>2, <2>3
<1> QED
  BY <1>0, <1>1, <1>4, <1>5, GreetsKept

\* New workers leave the threads at work where they are.
LEMMA WorkersGreet ==
  ASSUME IInv, Greets, UNCHANGED <<step, table, chan, crashes>>,
         \A j \in Nodes, r \in PeerIds :
            /\ workers[j][r] # NoWorker => workers'[j][r] = workers[j][r]
            /\ workers'[j][r] \in {workers[j][r], Unreachable, r.of},
         \A m \in Nodes, r \in PeerIds :
            /\ handler'[m][r].peer = handler[m][r].peer
            /\ handler[m][r].pc \in {"ensure", "discover"} =>
                  handler'[m][r].pc \in {"ensure", "discover"}
  PROVE  Greets'
<1> USE DEF IInv
<1>1. SUFFICES ASSUME crashes = 0, Addressed, \A m \in Nodes : step[m] # -1 PROVE Greets'
  BY DEF Greets
<1>2. Addressed'
  <2>1. ASSUME NEW j \in Nodes, NEW r \in PeerIds
        PROVE  workers'[j][r] \in {NoWorker, Unreachable, r.of}
    BY <1>1 DEF Addressed
  <2> QED
    BY <1>1, <2>1 DEF Addressed
<1>3. ASSUME NEW j \in Nodes, NEW m \in Nodes, Underway(j, node(m)) PROVE Underway(j, node(m))'
  <2>1. PICK a \in Nodes, r \in PeerIds :
           /\ workers[a][r] = j /\ handler[a][r].pc \in {"ensure", "discover"}
           /\ handler[a][r].peer = node(m)
    BY <1>3 DEF Underway
  <2>2. workers'[a][r] = j
    BY <2>1, MembershipAssumption
  <2> QED
    BY <2>1, <2>2 DEF Underway, node
<1>4. \A k \in Nodes, q \in PeerIds : Sends(k, q) => Sends(k, q)'
  BY SameQueues
<1> QED
  BY <1>1, <1>2, <1>3, <1>4, GreetsKept

\* _ensure_client_peer, and the publisher's way to add a worker.
LEMMA AddGreets ==
  ASSUME IInv, Greets, NEW n \in Nodes,
         \/ \E p \in PeerIds, k \in Nodes : ensure_client_peer(n, p, k)
         \/ publisher_add(n) \/ \E p \in PeerIds : publisher_miss(n, p)
  PROVE  Greets'
<1> USE DEF IInv
<1>0. workers \in [Nodes -> [PeerIds -> Nodes \cup {NoWorker, Unreachable}]]
  BY DEF TypeOK
<1>1. UNCHANGED step /\ UNCHANGED table /\ UNCHANGED chan /\ UNCHANGED crashes
  BY DEF ensure_client_peer, publisher_add, publisher_miss
<1>2. ASSUME NEW k \in Nodes, NEW q \in PeerIds, NEW h \in {Unreachable, q.of},
             workers' = IF workers[k][q] = NoWorker
                          THEN [workers EXCEPT ![k][q] = h] ELSE workers
      PROVE  \A j \in Nodes, r \in PeerIds :
                /\ workers[j][r] # NoWorker => workers'[j][r] = workers[j][r]
                /\ workers'[j][r] \in {workers[j][r], Unreachable, r.of}
  BY <1>0, <1>2
<1>3. ASSUME NEW p \in PeerIds, NEW k \in Nodes, ensure_client_peer(n, p, k) PROVE Greets'
  <2>1. handler[n][p].peer \in PeerIds /\ handler[n][p].pc = "ensure"
    BY <1>3 DEF TypeOK, Thread, ensure_client_peer, At
  <2>2. \A j \in Nodes, r \in PeerIds :
           /\ workers[j][r] # NoWorker => workers'[j][r] = workers[j][r]
           /\ workers'[j][r] \in {workers[j][r], Unreachable, r.of}
    BY <1>2, <1>3, <2>1 DEF ensure_client_peer, try_host
  <2>3. PICK t \in Thread : t.pc = "discover" /\ t.peer = handler[n][p].peer /\ Becomes(n, p, t)
    BY <1>3, PcEffect DEF Goes
  <2>4. \A m \in Nodes, r \in PeerIds :
           /\ handler'[m][r].peer = handler[m][r].peer
           /\ handler[m][r].pc \in {"ensure", "discover"} =>
                 handler'[m][r].pc \in {"ensure", "discover"}
    BY <2>3 DEF Becomes
  <2> QED
    BY <1>1, <2>2, <2>4, WorkersGreet
<1>4. CASE publisher_add(n)
  <2>1. publisher[n] \in PeerIds /\ UNCHANGED handler
    BY <1>4 DEF publisher_add, TypeOK
  <2>2. raw_host(publisher[n]) \in {Unreachable, publisher[n].of}
    BY DEF raw_host
  <2>3. \A j \in Nodes, r \in PeerIds :
           /\ workers[j][r] # NoWorker => workers'[j][r] = workers[j][r]
           /\ workers'[j][r] \in {workers[j][r], Unreachable, r.of}
    BY <1>2, <1>4, <2>1, <2>2 DEF publisher_add
  <2> QED
    BY <1>1, <2>1, <2>3, WorkersGreet
<1>5. CASE \E p \in PeerIds : publisher_miss(n, p)
  <2>1. UNCHANGED workers /\ UNCHANGED handler
    BY <1>5 DEF publisher_miss
  <2> QED
    BY <1>1, <2>1, WorkersGreet
<1> QED
  BY <1>3, <1>4, <1>5

\* on_peer_discovered sends its JOIN_REQUEST; the reply is prepared and sent.
LEMMA AnswerGreets ==
  ASSUME IInv, Greets, NEW n \in Nodes, NEW p \in PeerIds, NEW k \in Nodes,
         discovery_join(n, p, k) \/ list_peers(n, p, k) \/ reply(n, p, k)
  PROVE  Greets'
<1> USE DEF IInv
<1>0. /\ UNCHANGED workers /\ UNCHANGED step /\ UNCHANGED crashes /\ UNCHANGED table
      /\ workers[n][p] = k
  BY DEF discovery_join, list_peers, reply, At
<1>1. SUFFICES ASSUME crashes = 0, Addressed, \A m \in Nodes : step[m] # -1 PROVE Greets'
  BY <1>0 DEF Greets
<1>2. CASE discovery_join(n, p, k)
  <2>1. PICK q \in PeerIds : q = handler[n][p].peer
    BY DEF TypeOK, Thread
  <2>2. send_json(k, q, Join(k)) /\ Join(k) \in Message /\ Join(k).sender = k
    BY <1>2, <2>1 DEF discovery_join, Join, Message
  <2>3. /\ Addressed' /\ Sends(k, q)'
        /\ \A j \in Nodes, r \in PeerIds : Sends(j, r) => Sends(j, r)'
    BY <1>0, <1>1, <2>2, QueueEffect
  <2>4. PICK t \in Thread : Becomes(n, p, t)
    BY <1>2, PcEffect DEF Goes
  <2>5. ASSUME NEW j \in Nodes, NEW m \in Nodes, Underway(j, node(m))
        PROVE  Underway(j, node(m))' \/ Sends(j, node(m))'
    <3>1. PICK a \in Nodes, r \in PeerIds :
             /\ workers[a][r] = j /\ handler[a][r].pc \in {"ensure", "discover"}
             /\ handler[a][r].peer = node(m)
      BY <2>5 DEF Underway
    <3>2. CASE a = n /\ r = p
      <4>1. j = k /\ q = node(m)
        BY <1>0, <2>1, <3>1, <3>2
      <4>2. Sends(j, q)'
        BY <2>3, <4>1
      <4> QED
        BY <4>1, <4>2 DEF Sends, node
    <3>3. CASE ~(a = n /\ r = p)
      <4>1. handler'[a][r] = handler[a][r] /\ workers'[a][r] = workers[a][r]
        BY <1>0, <2>4, <3>3 DEF Becomes
      <4> QED
        BY <3>1, <4>1 DEF Underway, node
    <3> QED
      BY <3>2, <3>3
  <2> QED
    BY <1>0, <1>1, <2>3, <2>5, GreetsKept
<1>3. CASE list_peers(n, p, k) \/ reply(n, p, k)
  <2>1. handler[n][p].pc \in {"list", "reply"} /\ \E t \in Thread : Becomes(n, p, t)
    BY <1>3, PcEffect, IdleEffect DEF Goes, list_peers, reply, At
  <2>2. \A j, m \in Nodes : Underway(j, node(m)) => Underway(j, node(m))'
    BY <1>0, <2>1, ThreadsGreet
  <2>3. Addressed' /\ \A j \in Nodes, r \in PeerIds : Sends(j, r) => Sends(j, r)'
    <3>1. CASE UNCHANGED chan
      <4>1. Addressed'
        BY <1>0, <1>1, <3>1 DEF Addressed
      <4> QED
        BY <3>1, <4>1, SameQueues
    <3>2. CASE ~UNCHANGED chan
      <4>1. PICK q \in PeerIds : q = node(handler[n][p].sender)
        BY PeerIdFacts DEF TypeOK, Thread
      <4>2. PICK m \in Message : m = PeerList(k, handler[n][p].peers)
        BY RecordsTyped DEF TypeOK, Thread
      <4>3. m.sender = k /\ send_json(k, q, m)
        BY <1>3, <3>2, <4>1, <4>2 DEF list_peers, reply, PeerList
      <4> QED
        BY <1>0, <1>1, <4>3, QueueEffect
    <3> QED
      BY <3>1, <3>2
  <2> QED
    BY <1>0, <1>1, <2>2, <2>3, GreetsKept
<1> QED
  BY <1>2, <1>3

\* Without a crash nobody dies, loses a frame or restarts.
LEMMA CrashGreets ==
  ASSUME IInv, Greets, NEW n \in Nodes,
         crash(n) \/ restart(n) \/ \E p \in PeerIds : lose(n, p)
  PROVE  Greets'
<1>1. crashes \in Nat
  BY MembershipAssumption DEF IInv, TypeOK
<1>2. CASE crash(n)
  BY <1>1, <1>2 DEF crash, Greets
<1>3. CASE restart(n) \/ \E p \in PeerIds : lose(n, p)
  <2>1. UNCHANGED crashes /\ \E m \in Nodes : step[m] = -1
    BY <1>3 DEF restart, lose
  <2> QED
    BY <2>1 DEF Greets
<1> QED
  BY <1>2, <1>3

\* Until the first crash every JOIN_REQUEST that was sent is on its way or has put
\* its sender on a list, and every entry of a list leads to one.
THEOREM Greeting == Spec => []Greets
<1>1. Init => Greets
  <2> SUFFICES ASSUME Init PROVE Greets
    OBVIOUS
  <2>1. \A n \in Nodes : step[n] = 0 /\ table[n] = {} /\ Len(Bootstrap[n]) \in Nat
    BY BootstrapFacts DEF Init
  <2>2. \A n \in Nodes, p \in PeerIds :
           chan[n][p] = <<>> /\ workers[n][p] \in {NoWorker, Unreachable, p.of}
    BY DEF Init, bootstrap_workers
  <2>3. Addressed
    BY <2>2, EmptySeq DEF Addressed
  <2> QED
    BY <2>1, <2>3 DEF Greets, Introduced, Returned
<1>2. IInv /\ Greets /\ [Next]_vars => Greets'
  <2> SUFFICES ASSUME IInv, Greets, [Next]_vars PROVE Greets'
    OBVIOUS
  <2>1. CASE UNCHANGED vars
    <3>1. /\ UNCHANGED step /\ UNCHANGED table /\ UNCHANGED chan /\ UNCHANGED crashes
          /\ UNCHANGED workers /\ UNCHANGED handler
      BY <2>1 DEF vars
    <3> QED
      BY <3>1, WorkersGreet
  <2>2. CASE Next
    <3>1. PICK n \in Nodes :
             \/ main(n)
             \/ \E p \in PeerIds : connection_thread(n, p) \/ publisher_miss(n, p) \/ lose(n, p)
             \/ publisher_add(n)
             \/ crash(n) \/ restart(n)
      BY <2>2 DEF Next
    <3>2. ASSUME NEW p \in PeerIds, connection_thread(n, p) PROVE Greets'
      BY <3>2, ReadGreets, AddGreets, AnswerGreets DEF connection_thread
    <3> QED
      BY <3>1, <3>2, MainGreets, AddGreets, CrashGreets
  <2> QED
    BY <2>1, <2>2
<1> QED
  BY <1>1, <1>2, Inductive, PTL DEF Spec

\* Peers list each other.
Mutual ==
  \A k, m \in Nodes :
     node(m) \in table[k] => workers[k][node(m)] = m /\ node(k) \in table[m]

\* When the exchange has died down without a crash, "lists" is symmetric and every
\* entry has a worker that connects to it, whatever the bootstrap addresses, the
\* publishers' races and the advertised hosts.
THEOREM QuietIsMutual == Spec => [](Quiet /\ crashes = 0 => Mutual)
<1>1. IInv /\ Greets => (Quiet /\ crashes = 0 => Mutual)
  <2> SUFFICES ASSUME Greets, Quiet, crashes = 0, NEW k \in Nodes, NEW m \in Nodes,
                      node(m) \in table[k]
               PROVE  workers[k][node(m)] = m /\ node(k) \in table[m]
    BY DEF Mutual
  <2>1. node(m) \in PeerIds
    BY PeerIdFacts
  <2>2. ~Sends(k, node(m))
    <3>1. chan[k][node(m)] = <<>>
      BY <2>1 DEF Quiet
    <3>2. 1..Len(chan[k][node(m)]) = {}
      BY <3>1
    <3> QED
      BY <3>2 DEF Sends
  <2>3. ~Underway(k, node(m))
    BY DEF Quiet, Underway
  <2> QED
    BY <2>2, <2>3 DEF Greets, Returned
<1> QED
  BY <1>1, Inductive, Greeting, PTL

\* Of any two nodes one was configured with the address of the other.
Meshed ==
  \A k, m \in Nodes : k # m =>
     \/ \E i \in 1..Len(Bootstrap[k]) : Bootstrap[k][i] = m
     \/ \E i \in 1..Len(Bootstrap[m]) : Bootstrap[m][i] = k

\* With such addresses, as two nodes that name each other have, an exchange that
\* has died down has made everyone known to everyone, for any number of nodes and
\* although replies are lost to workers that are missing.
THEOREM MeshCloses ==
  ASSUME Meshed
  PROVE  Spec => []GossipCloses
<1>1. IInv /\ Greets /\ (Quiet /\ crashes = 0 => Mutual) => GossipCloses
  <2> SUFFICES ASSUME IInv, Greets, Quiet, crashes = 0, Mutual,
                      NEW k \in Nodes, NEW m \in Nodes, k # m
               PROVE  node(m) \in table[k] /\ workers[k][node(m)] = m
    BY DEF GossipCloses, Knows
  <2>1. ASSUME NEW a \in Nodes, NEW i \in 1..Len(Bootstrap[a]), Bootstrap[a][i] # a
        PROVE  node(a) \in table[Bootstrap[a][i]]
    <3>1. Len(Bootstrap[a]) \in Nat /\ alias(Bootstrap[a][i]) \in PeerIds
      BY BootstrapFacts
    <3>2. step[a] > Len(Bootstrap[a]) + i
      BY <3>1 DEF Quiet, Running
    <3>3. ~Sends(a, alias(Bootstrap[a][i]))
      <4>1. chan[a][alias(Bootstrap[a][i])] = <<>>
        BY <3>1 DEF Quiet
      <4>2. 1..Len(chan[a][alias(Bootstrap[a][i])]) = {}
        BY <4>1
      <4> QED
        BY <4>2 DEF Sends
    <3> QED
      BY <2>1, <3>2, <3>3 DEF Greets, Introduced
  <2>2. CASE \E i \in 1..Len(Bootstrap[k]) : Bootstrap[k][i] = m
    <3>1. node(k) \in table[m]
      BY <2>1, <2>2
    <3> QED
      BY <3>1 DEF Mutual
  <2>3. CASE \E i \in 1..Len(Bootstrap[m]) : Bootstrap[m][i] = k
    <3>1. node(m) \in table[k]
      BY <2>1, <2>3
    <3> QED
      BY <3>1 DEF Mutual
  <2> QED
    BY <2>2, <2>3 DEF Meshed
<1> QED
  BY <1>1, Inductive, Greeting, QuietIsMutual, PTL
=============================================================================
