-------------------------------- MODULE Node --------------------------------
(***************************************************************************)
(* One process of node.py from start-up to clean-up: the main thread, the  *)
(* state worker, the sensors, the publisher, a connection thread of the    *)
(* server that discovers peers, the Web API's thread, and the workers of   *)
(* TcpClient under add_peer, send_json and stop.                           *)
(*                                                                         *)
(* Details of other modules are left out: what a worker does with its      *)
(* queue (PeerWorker), the inside of TcpServer.stop (TcpServer), what is   *)
(* merged (Replication), who answers a JOIN_REQUEST (Membership).  A queue *)
(* or stream only has something in it or not.                              *)
(***************************************************************************)
EXTENDS Config, Functions

CONSTANTS
  Envs,       \* a sequence of environments the process may be started in
  Addresses,  \* the addresses BOOTSTRAP_PEERS names in them
  Strangers,  \* ids of peers that may send a JOIN_REQUEST
  NoPeer

VARIABLES
  env,       \* the index of the process's environment
  main,      \* where main() is; "raised": an exception ended the process
  run,       \* run[t]: the threads of state worker, sensors and Web API
  stopping,  \* the parts whose stop event is set (web: shutdown requested)
  pending,   \* _updates_replication is not empty
  serving,   \* the server accepts connections and reads frames
  table,     \* keys of the peer table
  caller,    \* caller[t]: where publisher and handler are, and for which peer
  todo,      \* peers the publisher has yet to send the update to
  workers,   \* workers[p]: the worker in TcpClient._workers
  thread,    \* thread[w]: where the thread of worker w is
  served     \* history: peers an update was queued for

client == <<workers, thread>>
server == <<serving, table>>
local == <<run, stopping, pending>>
callers == <<caller, todo>>
vars == <<env, main, local, server, callers, client, served>>

Peers == Strangers \cup Addresses

\* The ids bootstrap_peer addresses are known by (f"bootstrap@{host}:{port}"; an
\* address stands for its id).
bootstrap_ids(e) == Range(load_config(Envs[e]).bootstrap_peers)

ASSUME NodeAssumption ==
  /\ NoPeer \notin Peers
  /\ \A e \in DOMAIN Envs :
        /\ load_config(Envs[e]) # Raises => bootstrap_ids(e) \subseteq Addresses
        /\ NamesAreLists(Envs[e])

\* A worker object: the peer it is for, and whether TcpClient.stop had cleared
\* _workers when it was created.  Without remove_peer there are no others.
Workers == Peers \X BOOLEAN
NoWorker == <<NoPeer, FALSE>>

Init ==
  /\ env \in DOMAIN Envs /\ main = "config"
  /\ run = [t \in {"worker", "sensors", "web"} |-> "none"]
  /\ stopping = {} /\ pending = FALSE
  /\ serving = FALSE /\ table = {}
  /\ caller = [t \in {"publisher", "handler"} |-> [pc |-> "none", peer |-> NoPeer]]
  /\ todo = {}
  /\ workers = [p \in Peers |-> NoWorker]
  /\ thread = [w \in Workers |-> "none"] /\ served = {}

\* All threads but main's are daemons: they end with it.
Alive == main # "raised"

-----------------------------------------------------------------------------
\* TcpClient.stop has taken the workers out of the table.
cleared == main \in {"close_workers", "join_workers", "exited"}

\* Only the workers that stop() found are told to stop.
StopsIfListed(w) == "client" \in stopping /\ ~w[2]

\* _should_stop.
should_stop(w) == "client" \in stopping

\* The thread of a worker, PeerWorker in short: it publishes a connected
\* socket, loses the connection, or sees that it has to stop.
worker_loop(w) ==
  LET Goto(from, to) == thread[w] = from /\ thread' = [thread EXCEPT ![w] = to]
  IN /\ Alive
     /\ \/ Goto("loop", IF should_stop(w) THEN "done" ELSE "open")
        \/ Goto("open", "loop")
     /\ UNCHANGED <<env, main, local, server, callers, workers, served>>

\* Callers go on, and at "none" and "next" are done with their peer.
CallerGoto(t, from, to) ==
  /\ caller[t].pc = from
  /\ caller' = [caller EXCEPT ![t] =
        [pc |-> to, peer |-> IF to \in {"none", "next"} THEN NoPeer ELSE @.peer]]

\* TcpClient.add_peer on behalf of t, who goes to `ok` with a worker registered
\* and started, or to `raised`.
add_peer(t, from, ok, raised) ==
  LET p == caller[t].peer
  IN \/ /\ CallerGoto(t, from, ok) /\ workers[p] = NoWorker
        /\ workers' = [workers EXCEPT ![p] = <<p, cleared>>]
        /\ thread' = [thread EXCEPT ![<<p, cleared>>] = "loop"]
     \/ CallerGoto(t, from, raised) /\ workers[p] # NoWorker /\ UNCHANGED client

\* send_json: the frame goes to the queue of the worker, or KeyError.  (The
\* queue of a worker that is being stopped takes it as well.)
send_json(t, from, ok, raised) ==
  /\ \/ CallerGoto(t, from, ok) /\ workers[caller[t].peer] # NoWorker
     \/ CallerGoto(t, from, raised) /\ workers[caller[t].peer] = NoWorker
  /\ UNCHANGED client

-----------------------------------------------------------------------------
\* Sensors run until they are told to stop.
sensor_loop ==
  /\ Alive /\ run["sensors"] = "running" /\ "sensors" \in stopping
  /\ run' = [run EXCEPT !["sensors"] = "done"]
  /\ UNCHANGED <<env, main, stopping, pending, server, callers, client, served>>

\* The state worker merges an event of a sensor, or ends with events left.
worker_run ==
  /\ Alive /\ run["worker"] = "running"
  /\ \/ /\ "worker" \in stopping
        /\ run' = [run EXCEPT !["worker"] = "done"] /\ UNCHANGED pending
     \/ /\ "worker" \notin stopping /\ run["sensors"] \in {"running", "done"}
        /\ pending' = TRUE /\ UNCHANGED run
  /\ UNCHANGED <<env, main, stopping, server, callers, client, served>>

\* The Web API's thread enters serve_forever and leaves it on request.
web_run ==
  /\ Alive
  /\ \/ run["web"] = "started" /\ run' = [run EXCEPT !["web"] = "running"]
     \/ /\ run["web"] = "running" /\ "web" \in stopping
        /\ run' = [run EXCEPT !["web"] = "done"]
  /\ UNCHANGED <<env, main, stopping, pending, server, callers, client, served>>

\* The publisher's loop, and _publish_once over the peers listed at this moment.
publisher_run ==
  /\ Alive
  /\ \/ /\ "publisher" \in stopping /\ CallerGoto("publisher", "check", "done")
        /\ UNCHANGED <<pending, todo>>
     \/ /\ "publisher" \notin stopping /\ CallerGoto("publisher", "check", "next")
        /\ pending /\ pending' = FALSE /\ todo' = table
     \/ /\ CallerGoto("publisher", "next", "check") /\ todo = {}
        /\ UNCHANGED <<pending, todo>>
     \/ /\ caller["publisher"].pc = "next" /\ UNCHANGED pending
        /\ \E p \in todo : /\ todo' = todo \ {p}
                           /\ caller' = [caller EXCEPT !["publisher"] =
                                            [pc |-> "send", peer |-> p]]
  /\ UNCHANGED <<env, main, run, stopping, server, client, served>>

\* An error of add_peer ends the publisher's thread.
AddErrorEnds ==
  /\ Alive
  /\ \/ send_json("publisher", "send", "next", "add")
     \/ add_peer("publisher", "add", "resend", "done")
     \/ send_json("publisher", "resend", "next", "next")
  /\ served' = IF caller["publisher"].pc = "add" THEN served
               ELSE served \cup {p \in {caller["publisher"].peer} : workers[p] # NoWorker}
  /\ UNCHANGED <<env, main, local, server, todo>>

\* _send_to_peer: without a worker it adds one and tries again; when add_peer
\* or the second attempt raises, this update is not sent.
send_to_peer ==
  /\ Alive
  /\ \/ send_json("publisher", "send", "next", "add")
     \/ add_peer("publisher", "add", "resend", "next")
     \/ send_json("publisher", "resend", "next", "next")
  /\ served' = IF caller["publisher"].pc = "add" THEN served
               ELSE served \cup {p \in {caller["publisher"].peer} : workers[p] # NoWorker}
  /\ UNCHANGED <<env, main, local, server, todo>>

\* A connection thread reads a JOIN_REQUEST and lists its sender if it is new.
handle_join_request(p) ==
  /\ Alive /\ serving /\ caller["handler"].pc = "none"
  /\ table' = table \cup {p}
  /\ caller' = [caller EXCEPT !["handler"] =
                   [pc |-> IF p \in table THEN "reply" ELSE "ensure", peer |-> p]]
  /\ UNCHANGED <<env, main, local, serving, todo, client, served>>

\* on_peer_discovered adds a worker and sends a JOIN_REQUEST, errors swallowed;
\* then the handler replies, and a KeyError ends only this message.
handler_run ==
  /\ Alive
  /\ \/ add_peer("handler", "ensure", "discover", "discover")
     \/ send_json("handler", "discover", "reply", "reply")
     \/ send_json("handler", "reply", "none", "none")
  /\ UNCHANGED <<env, main, local, server, todo, served>>

-----------------------------------------------------------------------------
MainGoto(from, to) == main = from /\ main' = to

\* load_config and setup_logging.
start_config ==
  /\ MainGoto("config", "logging") \/ MainGoto("logging", "worker")
  /\ load_config(Envs[env]) # Raises
  /\ UNCHANGED <<env, local, server, callers, client, served>>

start_worker ==
  /\ MainGoto("worker", "client")
  /\ run' = [run EXCEPT !["worker"] = "running"]
  /\ UNCHANGED <<env, stopping, pending, server, callers, client, served>>

\* The workers of bootstrap peers are registered and not started.
BootstrapNotStarted ==
  /\ MainGoto("client", "server")
  /\ workers' = [p \in Peers |-> IF p \in bootstrap_ids(env) THEN <<p, FALSE>> ELSE NoWorker]
  /\ UNCHANGED <<env, local, server, callers, thread, served>>

\* A worker for every bootstrap address (the second for an address is refused,
\* which is ignored).
add_bootstrap_peers ==
  LET ids == bootstrap_ids(env)
  IN /\ MainGoto("client", "server")
     /\ workers' = [p \in Peers |-> IF p \in ids THEN <<p, FALSE>> ELSE NoWorker]
     /\ thread' = [w \in Workers |-> IF w[1] \in ids /\ ~w[2] THEN "loop" ELSE "none"]
     /\ UNCHANGED <<env, local, server, callers, served>>

\* setup_protocol and server.start.
start_server ==
  /\ MainGoto("server", "bootstrap") /\ serving' = TRUE
  /\ UNCHANGED <<env, local, table, callers, client, served>>

\* The bootstrap peers are listed, and bootstrap() queues a JOIN for each.
bootstrap ==
  /\ MainGoto("bootstrap", "sensors")
  /\ table' = table \cup bootstrap_ids(env)
  /\ UNCHANGED <<env, local, serving, callers, client, served>>

\* load_from_env and start_all (no thread, if no sensor is configured).
start_sensors ==
  /\ MainGoto("sensors", "publisher") /\ load_from_env(Envs[env]) # Raises
  /\ run' = [run EXCEPT !["sensors"] =
               IF load_from_env(Envs[env]) = <<>> THEN "empty" ELSE "running"]
  /\ UNCHANGED <<env, stopping, pending, server, callers, client, served>>

start_publisher ==
  /\ MainGoto("publisher", "web") /\ CallerGoto("publisher", "none", "check")
  /\ UNCHANGED <<env, local, server, todo, client, served>>

\* The Web API is created and not started.
WebNotStarted ==
  /\ MainGoto("web", "loop") /\ bindable(web_api_port(Envs[env]))
  /\ UNCHANGED <<env, local, server, callers, client, served>>

\* WebAPIServer binds and its thread is started.
start_web ==
  /\ MainGoto("web", "loop") /\ bindable(web_api_port(Envs[env]))
  /\ run' = [run EXCEPT !["web"] = "started"]
  /\ UNCHANGED <<env, stopping, pending, server, callers, client, served>>

\* The first step that raises ends the process: a bad environment, a log file
\* that does not open, a port that is taken, or a KeyboardInterrupt outside the
\* main loop, during clean-up too.
raise ==
  /\ main \notin {"loop", "exited", "raised"} /\ main' = "raised"
  /\ UNCHANGED <<env, local, server, callers, client, served>>

\* A KeyboardInterrupt in the main loop: clean-up begins.
interrupt ==
  /\ MainGoto("loop", "publisher.stop")
  /\ UNCHANGED <<env, local, server, callers, client, served>>

-----------------------------------------------------------------------------
\* One stop() of the clean-up sets the flag of `part`, ...
Tell(from, part, to) ==
  /\ MainGoto(from, to) /\ stopping' = stopping \cup {part}
  /\ UNCHANGED <<env, run, pending, server, callers, client, served>>

\* ... and some wait for its thread.
Await(from, part, to) ==
  /\ run[part] \in {"empty", "done"} /\ MainGoto(from, to)
  /\ UNCHANGED <<env, local, server, callers, client, served>>

\* Publisher and state worker are told, sensors and Web API also waited for (a
\* sensor waits for nothing but its stop event and needs none of the 2 s that
\* join gives it; shutdown() waits for serve_forever without a limit).
stop_local ==
  \/ Tell("publisher.stop", "publisher", "sensors.stop_all")
  \/ Tell("sensors.stop_all", "sensors", "join_sensors")
  \/ Await("join_sensors", "sensors", "state_worker.stop")
  \/ Tell("state_worker.stop", "worker", "web_api.stop")
  \/ Tell("web_api.stop", "web", "join_web")
  \/ Await("join_web", "web", "server.stop")

\* server.stop reads no more frames; it waits for handlers, though not for ever.
stop_server ==
  /\ MainGoto("server.stop", "client.stop") /\ serving' = FALSE
  /\ UNCHANGED <<env, local, table, callers, client, served>>

\* client.stop raises the workers' flag, takes them out of the table, closes
\* their sockets and waits for each, though one that connects may outlive that.
stop_client ==
  \/ Tell("client.stop", "client", "clear_workers")
  \/ /\ \/ /\ MainGoto("clear_workers", "close_workers")
           /\ workers' = [p \in Peers |-> NoWorker] /\ UNCHANGED thread
        \/ /\ MainGoto("close_workers", "join_workers")
           /\ thread' = [w \in Workers |->
                 IF thread[w] = "open" /\ ~w[2] THEN "loop" ELSE thread[w]]
           /\ UNCHANGED workers
        \/ /\ MainGoto("join_workers", "exited")
           /\ UNCHANGED client
     /\ UNCHANGED <<env, local, server, callers, served>>

start_up ==
  \/ start_config \/ start_worker \/ add_bootstrap_peers \/ start_server \/ bootstrap
  \/ start_sensors \/ start_publisher \/ start_web
clean_up == stop_local \/ stop_server \/ stop_client
publishing == publisher_run \/ send_to_peer

Next ==
  \/ start_up \/ raise \/ interrupt \/ clean_up
  \/ sensor_loop \/ worker_run \/ web_run \/ publishing \/ handler_run
  \/ \E p \in Strangers : handle_join_request(p)
  \/ \E w \in Workers : worker_loop(w)

Spec == Init /\ [][Next]_vars

\* Every thread of the process keeps running.
FairSpec ==
  /\ Spec
  /\ WF_vars(start_up) /\ WF_vars(clean_up)
  /\ WF_vars(sensor_loop) /\ WF_vars(worker_run) /\ WF_vars(web_run)
  /\ WF_vars(publishing) /\ WF_vars(handler_run)
  /\ \A w \in Workers : WF_vars(worker_loop(w))

-----------------------------------------------------------------------------
\* Workers are registered under the peer they are for, and a thread runs for
\* every registered worker; whoever is about to use the client has a peer.
TypeOK ==
  /\ env \in DOMAIN Envs
  /\ run \in [{"worker", "sensors", "web"} ->
                {"none", "empty", "started", "running", "done"}]
  /\ stopping \subseteq {"publisher", "sensors", "worker", "web", "client"}
  /\ pending \in BOOLEAN /\ serving \in BOOLEAN
  /\ table \subseteq Peers /\ served \subseteq Peers /\ todo \subseteq Peers
  /\ \A t \in {"publisher", "handler"} :
        caller[t].peer \in Peers <=>
           caller[t].pc \in {"send", "add", "resend", "ensure", "discover", "reply"}
  /\ thread \in [Workers -> {"none", "loop", "open", "done"}]
  /\ \A p \in Peers : workers[p] # NoWorker =>
        workers[p] \in {p} \X BOOLEAN /\ thread[workers[p]] # "none"

\* When clean-up is complete no connection to a peer is open and none will be
\* opened, although the publisher was never waited for and may still add a peer
\* to the stopped client, start a worker for it and queue an update on it.
SilentAfterExit == main = "exited" => \A w \in Workers : thread[w] # "open"

\* Two sensors that are started never share an id, whatever their names: state
\* is keyed by it and one would hide the other.
DistinctSensors ==
  main = "publisher" =>
     LET ids == load_from_env(Envs[env])
     IN \A i, j \in 1..Len(ids) : i # j => ids[i] # ids[j]

\* Clean-up ends: no stop() or join waits in vain, however early the interrupt
\* comes (the Web API's thread may not have reached serve_forever).
CleanUpEnds == (main = "publisher.stop") ~> (main \in {"exited", "raised"})

\* As long as the process runs, every listed peer is sent updates: one lost in
\* the race with the handler that adds the same peer is followed by others.
PeersServed ==
  \A p \in Peers : (p \in table /\ run["sensors"] = "running")
                      ~> (p \in served \/ main # "loop")
=============================================================================
