----------------------------- MODULE Node_proofs -----------------------------
(***************************************************************************)
(* Proofs about one process from start-up to clean-up, for every sequence  *)
(* of environments and every set of peers.                                 *)
(***************************************************************************)
EXTENDS Node, SequenceTheorems, TLAPS

\* Where the two callers of TcpClient are; at the last ones they have a peer.
WithPeer == {"send", "add", "resend", "ensure", "discover", "reply"}
Pcs == {"none", "check", "next", "done"} \cup WithPeer

\* Callers and registered workers are well formed.
Callers ==
  /\ caller \in [{"publisher", "handler"} -> [pc : Pcs, peer : Peers \cup {NoPeer}]]
  /\ workers \in [Peers -> Workers \cup {NoWorker}]

\* main() goes on only with a configuration, and past the sensors only when they
\* could all be built.
Configured ==
  /\ main \notin {"config", "raised"} => load_config(Envs[env]) # Raises
  /\ main = "publisher" => load_from_env(Envs[env]) # Raises

\* TcpClient.stop has raised the flag before it takes the workers out; a worker
\* made after that never connects; and those it found are closed before it ends.
Shut ==
  /\ cleared \/ main = "clear_workers" => "client" \in stopping
  /\ \A w \in Workers : w[2] /\ thread[w] # "none" => "client" \in stopping
  /\ \A w \in Workers : thread[w] = "open" /\ w[2] => FALSE
  /\ main \in {"join_workers", "exited"} => \A w \in Workers : thread[w] # "open"

IInv == TypeOK /\ Callers /\ Configured /\ Shut

-----------------------------------------------------------------------------
Threads == {"publisher", "handler"}

\* The conjunct of TypeOK about callers.
PeerAtWork ==
  \A t \in Threads : caller[t].peer \in Peers <=> caller[t].pc \in WithPeer

\* The conjunct of TypeOK about workers.
Registered ==
  \A p \in Peers : workers[p] # NoWorker =>
     workers[p] \in {p} \X BOOLEAN /\ thread[workers[p]] # "none"

\* The two parts of TypeOK that steps disturb.
LEMMA TypeParts == TypeOK => PeerAtWork /\ Registered
BY DEF TypeOK, PeerAtWork, Registered, WithPeer, Threads

\* What remains of TypeOK.
Rest ==
  /\ env \in DOMAIN Envs
  /\ run \in [{"worker", "sensors", "web"} ->
                {"none", "empty", "started", "running", "done"}]
  /\ stopping \subseteq {"publisher", "sensors", "worker", "web", "client"}
  /\ pending \in BOOLEAN /\ serving \in BOOLEAN
  /\ table \subseteq Peers /\ served \subseteq Peers /\ todo \subseteq Peers
  /\ thread \in [Workers -> {"none", "loop", "open", "done"}]

\* TypeOK is those two parts and the rest.
LEMMA TypeWhole == TypeOK <=> Rest /\ PeerAtWork /\ Registered
BY DEF TypeOK, Rest, PeerAtWork, Registered, WithPeer, Threads

\* The same, for the state after a step.
LEMMA TypeWholeNext == Rest' /\ PeerAtWork' /\ Registered' => TypeOK'
BY DEF TypeOK, Rest, PeerAtWork, Registered, WithPeer, Threads

\* No peer is NoPeer, so no worker object is NoWorker.
LEMMA WorkerFacts ==
  /\ \A p \in Peers, b \in BOOLEAN : <<p, b>> \in Workers /\ <<p, b>> # NoWorker
  /\ \A w \in Workers : w[1] \in Peers /\ w[2] \in BOOLEAN /\ w = <<w[1], w[2]>>
<1>1. ASSUME NEW p \in Peers, NEW b \in BOOLEAN PROVE <<p, b>> \in Workers
  BY DEF Workers
<1>2. ASSUME NEW p \in Peers, NEW b \in BOOLEAN PROVE <<p, b>> # NoWorker
  <2>1. <<p, b>>[1] = p /\ NoWorker[1] = NoPeer
    BY DEF NoWorker
  <2> QED
    BY <2>1, NodeAssumption
<1>3. ASSUME NEW w \in Workers
      PROVE  w[1] \in Peers /\ w[2] \in BOOLEAN /\ w = <<w[1], w[2]>>
  BY DEF Workers
<1> QED
  BY <1>1, <1>2, <1>3

\* Bootstrap ids are peers.
LEMMA BootstrapIds ==
  ASSUME TypeOK, Configured, main \notin {"config", "raised"}
  PROVE  bootstrap_ids(env) \subseteq Peers
BY NodeAssumption DEF TypeOK, Configured, Peers

\* The invariant holds before main has done anything.
LEMMA InitHolds == Init => IInv
<1> SUFFICES ASSUME Init PROVE IInv
  OBVIOUS
<1>1. Callers
  BY DEF Init, Callers, Pcs
<1>2. Rest
  BY DEF Init, Rest
<1>3. PeerAtWork /\ Registered
  BY NodeAssumption DEF Init, PeerAtWork, Registered, WithPeer, Threads
<1>4. Configured
  BY DEF Init, Configured
<1>5. Shut
  BY DEF Init, Shut, cleared
<1> QED
  BY <1>1, <1>2, <1>3, <1>4, <1>5, TypeWhole DEF IInv

-----------------------------------------------------------------------------
\* A caller that goes on keeps its peer while it needs one, and drops it at the
\* end of its round.
LEMMA GotoTyped ==
  ASSUME Callers, PeerAtWork, NEW t \in Threads, NEW from \in Pcs, NEW to \in Pcs,
         CallerGoto(t, from, to),
         to \in {"none", "next"} \/ (from \in WithPeer <=> to \in WithPeer)
  PROVE  /\ caller' \in [Threads -> [pc : Pcs, peer : Peers \cup {NoPeer}]]
         /\ PeerAtWork'
<1> DEFINE c == [pc |-> to, peer |-> IF to \in {"none", "next"} THEN NoPeer ELSE caller[t].peer]
<1>1. caller \in [Threads -> [pc : Pcs, peer : Peers \cup {NoPeer}]]
  BY DEF Callers, Threads
<1>2. c.pc = to /\ c \in [pc : Pcs, peer : Peers \cup {NoPeer}]
  BY <1>1
<1>3. caller' = [caller EXCEPT ![t] = c] /\ caller[t].pc = from
  BY <1>1 DEF CallerGoto
<1>4. c.peer \in Peers <=> to \in WithPeer
  <2>1. CASE to \in {"none", "next"}
    BY <2>1, NodeAssumption DEF WithPeer
  <2>2. CASE to \notin {"none", "next"}
    BY <1>3, <2>2 DEF PeerAtWork
  <2> QED
    BY <2>1, <2>2
<1> HIDE DEF c
<1>5. \A u \in Threads : caller'[u] = IF u = t THEN c ELSE caller[u]
  BY <1>1, <1>3
<1> QED
  BY <1>1, <1>2, <1>3, <1>4, <1>5 DEF PeerAtWork

\* A caller at work has a peer.
LEMMA AtWork ==
  ASSUME PeerAtWork, NEW t \in Threads, NEW from \in WithPeer, caller[t].pc = from
  PROVE  caller[t].peer \in Peers
BY DEF PeerAtWork

\* add_peer registers a worker with a thread, unless there is one; a worker made
\* after stop() took the others out starts with the flag raised.
LEMMA AddPeerEffect ==
  ASSUME IInv, NEW t \in Threads, NEW from \in WithPeer,
         NEW ok \in WithPeer \cup {"next"}, NEW raised \in WithPeer \cup {"next"},
         add_peer(t, from, ok, raised), UNCHANGED <<main, stopping>>
  PROVE  /\ Callers' /\ PeerAtWork' /\ Registered' /\ Shut'
         /\ thread' \in [Workers -> {"none", "loop", "open", "done"}]
<1> USE DEF IInv
<1> DEFINE p == caller[t].peer
           w == <<p, cleared>>
<1>1. PeerAtWork /\ Registered /\ thread \in [Workers -> {"none", "loop", "open", "done"}]
  BY TypeWhole DEF Rest
<1>2. caller[t].pc = from /\ p \in Peers
  BY <1>1, AtWork DEF add_peer, CallerGoto
<1>3. /\ caller' \in [Threads -> [pc : Pcs, peer : Peers \cup {NoPeer}]]
      /\ PeerAtWork'
  <2>1. CASE CallerGoto(t, from, ok)
    BY <1>1, <2>1, GotoTyped DEF Pcs, WithPeer
  <2>2. CASE CallerGoto(t, from, raised)
    BY <1>1, <2>2, GotoTyped DEF Pcs, WithPeer
  <2> QED
    BY <2>1, <2>2 DEF add_peer
<1>4. w \in Workers /\ w # NoWorker /\ w[1] = p /\ w[2] = cleared /\ w \in {p} \X BOOLEAN
  <2>1. cleared \in BOOLEAN
    BY DEF cleared
  <2>2. w \in Workers /\ w # NoWorker
    BY <1>2, <2>1, WorkerFacts
  <2>3. w[1] = p
    OBVIOUS
  <2>4. w[2] = cleared
    OBVIOUS
  <2>5. w \in {p} \X BOOLEAN
    BY <2>1
  <2> QED
    BY <2>2, <2>3, <2>4, <2>5
<1>5. \/ UNCHANGED client
      \/ /\ workers[p] = NoWorker /\ workers' = [workers EXCEPT ![p] = w]
         /\ thread' = [thread EXCEPT ![w] = "loop"]
  BY DEF add_peer
<1> HIDE DEF p, w
<1>6. CASE UNCHANGED client
  <2>1. UNCHANGED workers /\ UNCHANGED thread
    BY <1>6 DEF client
  <2> QED
    BY <1>1, <1>3, <2>1 DEF Callers, Threads, Registered, Shut, cleared
<1>7. CASE /\ workers[p] = NoWorker /\ workers' = [workers EXCEPT ![p] = w]
           /\ thread' = [thread EXCEPT ![w] = "loop"]
  <2>1. /\ workers' \in [Peers -> Workers \cup {NoWorker}]
        /\ \A q \in Peers : workers'[q] = IF q = p THEN w ELSE workers[q]
    BY <1>2, <1>4, <1>7 DEF Callers
  <2>2. /\ thread' \in [Workers -> {"none", "loop", "open", "done"}]
        /\ \A v \in Workers : thread'[v] = IF v = w THEN "loop" ELSE thread[v]
    BY <1>1, <1>4, <1>7
  <2>3. Callers'
    BY <1>3, <2>1 DEF Callers, Threads
  <2>4. Registered'
    <3>1. ASSUME NEW q \in Peers, workers'[q] # NoWorker
          PROVE  workers'[q] \in {q} \X BOOLEAN /\ thread'[workers'[q]] # "none"
      <4>1. CASE q = p
        BY <1>4, <2>1, <2>2, <4>1
      <4>2. CASE q # p
        BY <1>1, <2>1, <2>2, <3>1, <4>2 DEF Registered, Callers
      <4> QED
        BY <4>1, <4>2
    <3> QED
      BY <3>1 DEF Registered
  <2>5. Shut'
    BY <1>4, <2>2 DEF Shut, cleared
  <2> QED
    BY <1>3, <2>2, <2>3, <2>4, <2>5
<1> QED
  BY <1>5, <1>6, <1>7

\* send_json leaves the client alone.
LEMMA SendEffect ==
  ASSUME IInv, NEW t \in Threads, NEW from \in WithPeer,
         NEW ok \in WithPeer \cup {"next", "none"}, NEW raised \in WithPeer \cup {"next", "none"},
         send_json(t, from, ok, raised), UNCHANGED <<main, stopping>>
  PROVE  /\ Callers' /\ PeerAtWork' /\ Registered' /\ Shut'
         /\ thread' \in [Workers -> {"none", "loop", "open", "done"}]
<1> USE DEF IInv
<1>1. PeerAtWork /\ Registered /\ thread \in [Workers -> {"none", "loop", "open", "done"}]
  BY TypeWhole DEF Rest
<1>2. /\ caller' \in [Threads -> [pc : Pcs, peer : Peers \cup {NoPeer}]]
      /\ PeerAtWork'
  <2>1. CASE CallerGoto(t, from, ok)
    BY <1>1, <2>1, GotoTyped DEF Pcs, WithPeer
  <2>2. CASE CallerGoto(t, from, raised)
    BY <1>1, <2>2, GotoTyped DEF Pcs, WithPeer
  <2> QED
    BY <2>1, <2>2 DEF send_json
<1>3. UNCHANGED workers /\ UNCHANGED thread
  BY DEF send_json, client
<1> QED
  BY <1>1, <1>2, <1>3 DEF Callers, Threads, Registered, Shut, cleared

\* A handler step: add the peer, send it a JOIN, reply.
LEMMA HandlerStep ==
  ASSUME IInv, handler_run
  PROVE  IInv'
<1> USE DEF IInv
<1>1. UNCHANGED <<env, main, run, stopping, pending, serving, table, todo, served>>
  BY DEF handler_run, local, server
<1>2. /\ Callers' /\ PeerAtWork' /\ Registered' /\ Shut'
      /\ thread' \in [Workers -> {"none", "loop", "open", "done"}]
  BY <1>1, AddPeerEffect, SendEffect DEF handler_run, Threads, WithPeer
<1>3. Rest'
  BY <1>1, <1>2, TypeWhole DEF Rest
<1>4. Configured'
  BY <1>1 DEF Configured
<1> QED
  BY <1>2, <1>3, <1>4, TypeWholeNext

\* A step of _send_to_peer.
LEMMA SendToPeerStep ==
  ASSUME IInv, send_to_peer
  PROVE  IInv'
<1> USE DEF IInv
<1>1. UNCHANGED <<env, main, run, stopping, pending, serving, table, todo>>
  BY DEF send_to_peer, local, server
<1>2. /\ Callers' /\ PeerAtWork' /\ Registered' /\ Shut'
      /\ thread' \in [Workers -> {"none", "loop", "open", "done"}]
  BY <1>1, AddPeerEffect, SendEffect DEF send_to_peer, Threads, WithPeer
<1>3. caller["publisher"].peer \in Peers
  <2>1. caller["publisher"].pc \in WithPeer
    BY DEF send_to_peer, send_json, add_peer, CallerGoto, WithPeer
  <2> QED
    BY <2>1, TypeWhole DEF PeerAtWork, Threads
<1>4. served' \subseteq Peers
  BY <1>3, TypeWhole DEF send_to_peer, Rest
<1>5. Rest'
  BY <1>1, <1>2, <1>4, TypeWhole DEF Rest
<1>6. Configured'
  BY <1>1 DEF Configured
<1> QED
  BY <1>2, <1>5, <1>6, TypeWholeNext

\* Steps that only move callers.
LEMMA CallersMove ==
  ASSUME IInv, UNCHANGED <<env, main, stopping, workers, thread>>, Rest', PeerAtWork',
         caller' \in [Threads -> [pc : Pcs, peer : Peers \cup {NoPeer}]]
  PROVE  IInv'
<1> USE DEF IInv
<1>1. Registered'
  BY TypeWhole DEF Registered
<1>2. Callers' /\ Configured' /\ Shut'
  BY DEF Callers, Threads, Configured, Shut, cleared
<1> QED
  BY <1>1, <1>2, TypeWholeNext

\* One caller takes up a peer.
LEMMA TakesUp ==
  ASSUME IInv, NEW t \in Threads, NEW p \in Peers, NEW pc \in WithPeer,
         caller' = [caller EXCEPT ![t] = [pc |-> pc, peer |-> p]]
  PROVE  /\ caller' \in [Threads -> [pc : Pcs, peer : Peers \cup {NoPeer}]]
         /\ PeerAtWork'
<1> USE DEF IInv
<1> DEFINE c == [pc |-> pc, peer |-> p]
<1>1. c \in [pc : Pcs, peer : Peers \cup {NoPeer}] /\ c.pc \in WithPeer /\ c.peer \in Peers
  BY DEF Pcs
<1>2. caller \in [Threads -> [pc : Pcs, peer : Peers \cup {NoPeer}]] /\ PeerAtWork
  BY TypeWhole DEF Callers, Threads
<1>3. caller' = [caller EXCEPT ![t] = c]
  OBVIOUS
<1> HIDE DEF c
<1> QED
  BY <1>1, <1>2, <1>3 DEF PeerAtWork

\* The publisher: pop, look for a worker, add one, send.
LEMMA PublisherStep ==
  ASSUME IInv, publisher_run
  PROVE  IInv'
<1> USE DEF IInv
<1>0. UNCHANGED <<env, main, run, stopping, serving, table, workers, thread, served>>
  BY DEF publisher_run, server, client
<1>1. Rest'
  BY <1>0, TypeWhole DEF publisher_run, Rest
<1>2. /\ caller' \in [Threads -> [pc : Pcs, peer : Peers \cup {NoPeer}]]
      /\ PeerAtWork'
  <2>1. ASSUME NEW from \in {"check", "next"}, NEW to \in {"check", "next", "done"},
               CallerGoto("publisher", from, to)
        PROVE  /\ caller' \in [Threads -> [pc : Pcs, peer : Peers \cup {NoPeer}]]
               /\ PeerAtWork'
    BY <2>1, GotoTyped, TypeWhole DEF Threads, Pcs, WithPeer
  <2>2. ASSUME NEW p \in todo, caller' = [caller EXCEPT !["publisher"] = [pc |-> "send", peer |-> p]]
        PROVE  /\ caller' \in [Threads -> [pc : Pcs, peer : Peers \cup {NoPeer}]]
               /\ PeerAtWork'
    <3>1. p \in Peers
      BY TypeWhole DEF Rest
    <3> QED
      BY <2>2, <3>1, TakesUp DEF Threads, WithPeer
  <2> QED
    BY <2>1, <2>2 DEF publisher_run
<1> QED
  BY <1>0, <1>1, <1>2, CallersMove

\* A stranger joins: it is listed, and the handler goes on to give it a worker.
LEMMA JoinStep ==
  ASSUME IInv, NEW p \in Strangers, handle_join_request(p)
  PROVE  IInv'
<1> USE DEF IInv
<1>0. UNCHANGED <<env, main, run, stopping, pending, serving, todo, workers, thread, served>>
  BY DEF handle_join_request, local, client
<1>1. p \in Peers
  BY DEF Peers
<1>2. Rest'
  BY <1>0, <1>1, TypeWhole DEF handle_join_request, Rest
<1>3. PICK pc \in WithPeer : caller' = [caller EXCEPT !["handler"] = [pc |-> pc, peer |-> p]]
  BY DEF handle_join_request, WithPeer
<1> QED
  BY <1>0, <1>1, <1>2, <1>3, TakesUp, CallersMove DEF Threads

\* A worker connects only while the flag is down, so never once it was made after
\* the flag was raised, and none does after stop() closed the sockets.
LEMMA WorkerLoopStep ==
  ASSUME IInv, NEW w \in Workers, worker_loop(w)
  PROVE  IInv'
<1> USE DEF IInv
<1>0. UNCHANGED <<env, main, run, stopping, pending, serving, table, caller, todo, workers, served>>
  BY DEF worker_loop, local, server, callers
<1>1. PICK to \in {"loop", "open", "done"} :
         /\ thread' = [thread EXCEPT ![w] = to] /\ thread[w] # "none"
         /\ to = "open" => "client" \notin stopping
  BY DEF worker_loop, should_stop
<1>2. /\ thread' \in [Workers -> {"none", "loop", "open", "done"}]
      /\ \A v \in Workers : thread'[v] = IF v = w THEN to ELSE thread[v]
  BY <1>1, TypeWhole DEF Rest
<1>3. Rest' /\ PeerAtWork' /\ Callers' /\ Configured'
  BY <1>0, <1>2, TypeWhole DEF Rest, PeerAtWork, Callers, Configured
<1>4. \A p \in Peers : workers[p] \in Workers \cup {NoWorker}
  BY DEF Callers
<1>5. Registered'
  <2>1. Registered
    BY TypeWhole
  <2>2. \A v \in Workers : thread[v] # "none" => thread'[v] # "none"
    BY <1>2
  <2> QED
    BY <1>0, <1>4, <2>1, <2>2 DEF Registered
<1>6. Shut'
  BY <1>0, <1>1, <1>2 DEF Shut, cleared
<1> QED
  BY <1>3, <1>5, <1>6, TypeWholeNext

-----------------------------------------------------------------------------
\* Steps of main and of the threads it starts, which leave callers and client
\* alone and do not end TcpClient.stop.
LEMMA MainMoves ==
  ASSUME IInv, UNCHANGED <<env, caller, workers, thread>>, Rest', Configured',
         stopping \subseteq stopping',
         main' = main \/ main' \notin {"close_workers", "join_workers", "exited"},
         main' = "clear_workers" => "client" \in stopping'
  PROVE  IInv'
<1> USE DEF IInv
<1>1. Registered' /\ PeerAtWork'
  BY TypeWhole DEF Registered, PeerAtWork
<1>2. Callers' /\ Shut'
  BY DEF Callers, Shut, cleared
<1> QED
  BY <1>1, <1>2, TypeWholeNext

\* Start-up, but for the steps that touch client or publisher.
LEMMA StartStep ==
  ASSUME IInv,
         start_config \/ start_worker \/ start_server \/ bootstrap \/ start_sensors \/ start_web
  PROVE  IInv'
<1> USE DEF IInv
<1>1. UNCHANGED <<env, caller, workers, thread, stopping, pending, todo, served>>
  BY DEF start_config, start_worker, start_server, bootstrap, start_sensors, start_web,
         local, callers, client
<1>2. Rest
  BY TypeWhole
<1>3. run' \in [{"worker", "sensors", "web"} -> {"none", "empty", "started", "running", "done"}]
  BY <1>2 DEF start_config, start_worker, start_server, bootstrap, start_sensors, start_web,
              local, Rest
<1>4. serving' \in BOOLEAN /\ table' \subseteq Peers
  <2>1. bootstrap => bootstrap_ids(env) \subseteq Peers
    BY BootstrapIds DEF bootstrap, MainGoto
  <2> QED
    BY <1>2, <2>1 DEF start_config, start_worker, start_server, bootstrap, start_sensors,
                      start_web, server, Rest
<1>5. Rest'
  BY <1>1, <1>2, <1>3, <1>4 DEF Rest
<1>6. Configured' /\ main' \notin {"clear_workers", "close_workers", "join_workers", "exited"}
  BY <1>1 DEF start_config, start_worker, start_server, bootstrap, start_sensors, start_web,
              MainGoto, Configured
<1> QED
  BY <1>1, <1>5, <1>6, MainMoves

\* A worker for every bootstrap address.
LEMMA AddBootstrapStep ==
  ASSUME IInv, add_bootstrap_peers
  PROVE  IInv'
<1> USE DEF IInv
<1> DEFINE ids == bootstrap_ids(env)
<1>1. /\ UNCHANGED <<env, run, stopping, pending, serving, table, caller, todo, served>>
      /\ main = "client" /\ main' = "server"
  BY DEF add_bootstrap_peers, MainGoto, local, server, callers
<1>2. \A p \in Peers : workers'[p] = IF p \in ids THEN <<p, FALSE>> ELSE NoWorker
  BY DEF add_bootstrap_peers
<1>3. \A w \in Workers : thread'[w] = IF w[1] \in ids /\ ~w[2] THEN "loop" ELSE "none"
  BY DEF add_bootstrap_peers
<1>4. workers' \in [Peers -> Workers \cup {NoWorker}]
  BY WorkerFacts DEF add_bootstrap_peers
<1>5. thread' \in [Workers -> {"none", "loop", "open", "done"}]
  BY DEF add_bootstrap_peers
<1> HIDE DEF ids
<1>6. Rest' /\ PeerAtWork' /\ Callers'
  BY <1>1, <1>4, <1>5, TypeWhole DEF Rest, PeerAtWork, Callers
<1>7. Registered'
  <2>1. ASSUME NEW p \in Peers, workers'[p] # NoWorker
        PROVE  workers'[p] \in {p} \X BOOLEAN /\ thread'[workers'[p]] # "none"
    <3>1. p \in ids /\ workers'[p] = <<p, FALSE>>
      BY <1>2, <2>1
    <3>2. <<p, FALSE>> \in Workers /\ <<p, FALSE>>[1] = p /\ ~ <<p, FALSE>>[2]
      BY WorkerFacts
    <3>3. thread'[<<p, FALSE>>] = "loop"
      BY <1>3, <3>1, <3>2
    <3>4. <<p, FALSE>> \in {p} \X BOOLEAN
      OBVIOUS
    <3> QED
      BY <3>1, <3>3, <3>4
  <2> QED
    BY <2>1 DEF Registered
<1>8. Configured' /\ Shut'
  BY <1>1, <1>3 DEF Configured, Shut, cleared
<1> QED
  BY <1>6, <1>7, <1>8, TypeWholeNext

\* main starts the publisher.
LEMMA StartPublisherStep ==
  ASSUME IInv, start_publisher
  PROVE  IInv'
<1> USE DEF IInv
<1>1. /\ UNCHANGED <<env, run, stopping, pending, serving, table, todo, workers, thread, served>>
      /\ main = "publisher" /\ main' = "web"
  BY DEF start_publisher, MainGoto, local, server, client
<1>2. /\ caller' \in [Threads -> [pc : Pcs, peer : Peers \cup {NoPeer}]]
      /\ PeerAtWork'
  BY GotoTyped, TypeWhole DEF start_publisher, Threads, Pcs, WithPeer
<1>3. Rest' /\ Registered'
  BY <1>1, TypeWhole DEF Rest, Registered
<1>4. Callers' /\ Configured' /\ Shut'
  BY <1>1, <1>2 DEF Callers, Threads, Configured, Shut, cleared
<1> QED
  BY <1>2, <1>3, <1>4, TypeWholeNext

\* Failure, the interrupt, and the stops before TcpClient's.
LEMMA StopStep ==
  ASSUME IInv,
         \/ raise \/ interrupt \/ stop_local \/ stop_server
         \/ Tell("client.stop", "client", "clear_workers")
  PROVE  IInv'
<1> USE DEF IInv
<1>1. UNCHANGED <<env, caller, workers, thread, run, pending, table, todo, served>>
  BY DEF raise, interrupt, stop_local, stop_server, Tell, Await, local, server, callers, client
<1>2. /\ stopping \subseteq stopping' /\ serving' \in BOOLEAN
      /\ stopping' \subseteq {"publisher", "sensors", "worker", "web", "client"}
  BY TypeWhole DEF Rest, raise, interrupt, stop_local, stop_server, Tell, Await, local, server
<1>3. Rest'
  BY <1>1, <1>2, TypeWhole DEF Rest
<1>4. /\ main' \notin {"close_workers", "join_workers", "exited"}
      /\ main' = "clear_workers" => "client" \in stopping'
      /\ Configured'
  BY <1>1 DEF raise, interrupt, stop_local, stop_server, Tell, Await, MainGoto, Configured
<1> QED
  BY <1>1, <1>2, <1>3, <1>4, MainMoves

\* TcpClient.stop takes the workers out, closes the sockets of those it found and
\* waits.
LEMMA StopClientStep ==
  ASSUME IInv, stop_client
  PROVE  IInv'
<1> USE DEF IInv
<1>1. CASE Tell("client.stop", "client", "clear_workers")
  BY <1>1, StopStep
<1>2. CASE ~Tell("client.stop", "client", "clear_workers")
  <2>1. /\ UNCHANGED <<env, run, stopping, pending, serving, table, caller, todo, served>>
        /\ \/ /\ main = "clear_workers" /\ main' = "close_workers"
              /\ workers' = [p \in Peers |-> NoWorker] /\ UNCHANGED thread
           \/ /\ main = "close_workers" /\ main' = "join_workers"
              /\ thread' = [w \in Workers |->
                    IF thread[w] = "open" /\ ~w[2] THEN "loop" ELSE thread[w]]
              /\ UNCHANGED workers
           \/ main = "join_workers" /\ main' = "exited" /\ UNCHANGED <<workers, thread>>
    BY <1>2 DEF stop_client, MainGoto, local, server, callers, client
  <2>2. thread \in [Workers -> {"none", "loop", "open", "done"}]
    BY TypeWhole DEF Rest
  <2>3. /\ thread' \in [Workers -> {"none", "loop", "open", "done"}]
        /\ \A w \in Workers : thread'[w] = "none" <=> thread[w] = "none"
        /\ \A w \in Workers : thread'[w] = "open" => thread[w] = "open"
    BY <2>1, <2>2
  <2>4. /\ workers' \in [Peers -> Workers \cup {NoWorker}]
        /\ \A p \in Peers : workers'[p] \in {workers[p], NoWorker}
    BY <2>1 DEF Callers
  <2>5. Rest' /\ PeerAtWork' /\ Callers' /\ Configured'
    BY <2>1, <2>3, <2>4, TypeWhole DEF Rest, PeerAtWork, Callers, Configured
  <2>6. Registered'
    <3>1. Registered
      BY TypeWhole
    <3>2. \A p \in Peers : workers[p] \in Workers \cup {NoWorker}
      BY DEF Callers
    <3> QED
      BY <2>3, <2>4, <3>1, <3>2 DEF Registered
  <2>7. Shut'
    <3>1. main' \in {"close_workers", "join_workers", "exited"} /\ "client" \in stopping'
      BY <2>1 DEF Shut, cleared
    <3>2. \A w \in Workers : thread'[w] = "open" /\ w[2] => FALSE
      BY <2>3 DEF Shut
    <3>3. main' \in {"join_workers", "exited"} => \A w \in Workers : thread'[w] # "open"
      BY <2>1 DEF Shut
    <3> QED
      BY <3>1, <3>2, <3>3 DEF Shut
  <2> QED
    BY <2>5, <2>6, <2>7, TypeWholeNext
<1> QED
  BY <1>1, <1>2

\* The threads of sensors, state worker and Web API.
LEMMA LocalStep ==
  ASSUME IInv, sensor_loop \/ worker_run \/ web_run
  PROVE  IInv'
<1> USE DEF IInv
<1>1. /\ UNCHANGED <<env, caller, workers, thread, stopping, serving, table, todo, served>>
      /\ main' = main
  BY DEF sensor_loop, worker_run, web_run, server, callers, client
<1>2. Rest'
  BY <1>1, TypeWhole DEF Rest, sensor_loop, worker_run, web_run
<1>3. Configured' /\ (main' = "clear_workers" => "client" \in stopping')
  BY <1>1 DEF Configured, Shut
<1> QED
  BY <1>1, <1>2, <1>3, MainMoves

-----------------------------------------------------------------------------
\* The inductive invariant of the process.
THEOREM Inductive == Spec => []IInv
<1>1. Init => IInv
  BY InitHolds
<1>2. IInv /\ [Next]_vars => IInv'
  <2> SUFFICES ASSUME IInv, [Next]_vars PROVE IInv'
    OBVIOUS
  <2>1. CASE UNCHANGED vars
    <3>1. UNCHANGED <<env, main, run, stopping, pending, serving, table, caller, todo,
                      workers, thread, served>>
      BY <2>1 DEF vars, local, server, callers, client
    <3> QED
      BY <3>1 DEF IInv, TypeOK, Callers, Configured, Shut, cleared
  <2>2. CASE Next
    BY <2>2, StartStep, AddBootstrapStep, StartPublisherStep, StopStep, StopClientStep,
       LocalStep, PublisherStep, SendToPeerStep, HandlerStep, JoinStep, WorkerLoopStep
       DEF Next, start_up, clean_up, publishing
  <2> QED
    BY <2>1, <2>2
<1> QED
  BY <1>1, <1>2, PTL DEF Spec

\* A thread runs for every registered worker, and whoever is about to use the
\* client has a peer.
THEOREM Typed == Spec => []TypeOK
<1>1. IInv => TypeOK
  BY DEF IInv
<1> QED
  BY <1>1, Inductive, PTL

\* After clean-up no connection to a peer is open, although publisher and
\* handlers may add peers to the client at any moment of stop() and after it.
THEOREM SilentOnceExited == Spec => []SilentAfterExit
<1>1. IInv => SilentAfterExit
  BY DEF IInv, Shut, SilentAfterExit
<1> QED
  BY <1>1, Inductive, PTL

-----------------------------------------------------------------------------
\* A name as a sequence.
LEMMA ListIsSeq ==
  ASSUME NEW name, Len(name) \in Nat, name = [j \in 1..Len(name) |-> name[j]]
  PROVE  \E S : name \in Seq(S)
<1> DEFINE S == {name[j] : j \in 1..Len(name)}
<1>1. name \in [1..Len(name) -> S]
  <2>1. [j \in 1..Len(name) |-> name[j]] \in [1..Len(name) -> S]
    OBVIOUS
  <2> QED
    BY <2>1
<1> HIDE DEF S
<1>2. name \in Seq(S)
  BY <1>1, SeqDef
<1> QED
  BY <1>2

\* The number at its end tells two ids apart.
LEMMA LastPart ==
  ASSUME NEW S, NEW s \in Seq(S), NEW T, NEW t \in Seq(T), NEW i, NEW j,
         Append(s, i) = Append(t, j)
  PROVE  i = j
<1> DEFINE U == S \cup T \cup {i, j}
<1>1. s \in Seq(U) /\ t \in Seq(U)
  BY SeqMonotonic
<1> HIDE DEF U
<1>2. i \in U /\ j \in U
  BY DEF U
<1>3. /\ Len(Append(s, i)) = Len(s) + 1 /\ Append(s, i)[Len(s) + 1] = i
      /\ Len(Append(t, j)) = Len(t) + 1 /\ Append(t, j)[Len(t) + 1] = j
  BY <1>1, <1>2, AppendProperties
<1>4. Len(s) \in Nat /\ Len(t) \in Nat
  BY LenProperties
<1>5. Len(s) = Len(t)
  BY <1>3, <1>4
<1> QED
  BY <1>3, <1>5

\* The variables of sensor i, as load_from_env reads them.
Variables(e, i) ==
  LET all == getenv(e, "SENSOR_", <<>>) IN IF i < Len(all) THEN all[i + 1] ELSE <<>>

\* A name, configured or not, is a sequence.
LEMMA NameIsSeq ==
  ASSUME NEW e, NamesAreLists(e), NEW i \in Nat
  PROVE  \E S : getenv(Variables(e, i), "NAME", <<"sensor_", i>>) \in Seq(S)
<1> DEFINE all == getenv(e, "SENSOR_", <<>>)
           v == Variables(e, i)
<1>1. CASE "NAME" \in DOMAIN v
  <2>1. i < Len(all) /\ v = all[i + 1] /\ i + 1 \in 1..Len(all)
    <3>1. Len(all) \in Nat
      BY DEF NamesAreLists
    <3>2. DOMAIN <<>> = {}
      OBVIOUS
    <3> HIDE DEF all
    <3>3. v = IF i < Len(all) THEN all[i + 1] ELSE <<>>
      BY DEF Variables, all
    <3> QED
      BY <1>1, <3>1, <3>2, <3>3
  <2>2. Len(v["NAME"]) \in Nat /\ v["NAME"] = [j \in 1..Len(v["NAME"]) |-> v["NAME"][j]]
    BY <1>1, <2>1 DEF NamesAreLists
  <2>3. getenv(v, "NAME", <<"sensor_", i>>) = v["NAME"]
    BY <1>1 DEF getenv
  <2> HIDE DEF v
  <2> QED
    BY <2>2, <2>3, ListIsSeq DEF v
<1>2. CASE "NAME" \notin DOMAIN v
  <2>1. getenv(v, "NAME", <<"sensor_", i>>) = <<"sensor_", i>>
    BY <1>2 DEF getenv
  <2>2. <<"sensor_", i>> \in Seq({"sensor_", i})
    OBVIOUS
  <2> QED
    BY <2>1, <2>2
<1> QED
  BY <1>1, <1>2

\* The ids load_from_env gives are distinct, whatever the names.
LEMMA DistinctIds ==
  ASSUME NEW e, NamesAreLists(e), load_from_env(e) # Raises
  PROVE  \A i, j \in 1..Len(load_from_env(e)) :
            i # j => load_from_env(e)[i] # load_from_env(e)[j]
<1> DEFINE count == getenv(e, "SENSORS", 0)
           id(i) == sensor_id(Variables(e, i - 1), i - 1)
           ids == [i \in 1..count |-> id(i)]
<1>1. count \in Int /\ load_from_env(e) = ids
  BY DEF load_from_env, Variables
<1>2. ASSUME NEW i \in 1..count, NEW j \in 1..count, i # j PROVE id(i) # id(j)
  <2>1. i - 1 \in Nat /\ j - 1 \in Nat /\ i - 1 # j - 1
    BY <1>1, <1>2
  <2> DEFINE s == getenv(Variables(e, i - 1), "NAME", <<"sensor_", i - 1>>)
             t == getenv(Variables(e, j - 1), "NAME", <<"sensor_", j - 1>>)
             k == i - 1
             l == j - 1
  <2>2. PICK S : s \in Seq(S)
    BY <2>1, NameIsSeq
  <2>3. PICK T : t \in Seq(T)
    BY <2>1, NameIsSeq
  <2>4. id(i) = Append(s, k) /\ id(j) = Append(t, l)
    BY DEF sensor_id
  <2>5. k # l
    BY <2>1
  <2> HIDE DEF s, t, k, l
  <2>6. Append(s, k) # Append(t, l)
    BY <2>2, <2>3, <2>5, LastPart
  <2> QED
    BY <2>4, <2>6
<1> HIDE DEF count, id
<1>3. 1..Len(ids) \subseteq 1..count
  <2>1. PICK n \in Nat : 1..n = 1..count
    <3>1. CASE count >= 0
      BY <1>1, <3>1
    <3>2. CASE count < 0
      <4>1. 1..0 = 1..count
        BY <1>1, <3>2
      <4> QED
        BY <4>1
    <3> QED
      BY <1>1, <3>1, <3>2
  <2> DEFINE S == {id(i) : i \in 1..count}
  <2>2. ids \in [1..n -> S]
    BY <2>1
  <2> HIDE DEF ids, S
  <2>3. ids \in Seq(S)
    BY <2>2, SeqDef
  <2>4. DOMAIN ids = 1..Len(ids) /\ DOMAIN ids = 1..n
    BY <2>2, <2>3, LenProperties
  <2> QED
    BY <2>1, <2>4
<1> QED
  BY <1>1, <1>2, <1>3

\* No two sensors of a process share an id.
THEOREM SensorsDistinct == Spec => []DistinctSensors
<1>1. ASSUME IInv PROVE DistinctSensors
  <2>1. ASSUME main = "publisher"
        PROVE  NamesAreLists(Envs[env]) /\ load_from_env(Envs[env]) # Raises
    BY <1>1, <2>1, NodeAssumption DEF IInv, TypeOK, Configured
  <2> QED
    BY <2>1, DistinctIds DEF DistinctSensors
<1> QED
  BY <1>1, Inductive, PTL
=============================================================================
