------------------------------ MODULE TcpServer ------------------------------
(***************************************************************************)
(* TcpServer: the thread that owns it (start, stop, start again), the      *)
(* accept thread, one thread per connection, and the clients that connect, *)
(* send and hang up.                                                       *)
(*                                                                         *)
(* A frame that a client cuts off is no frame.  A handler that raises ends *)
(* like one that returns.                                                  *)
(***************************************************************************)
EXTENDS Codec, FiniteSets

CONSTANTS
  Conns,      \* connections clients may make
  NoConn,
  Frames,     \* a sequence of what they may send: a header and a JSON value
  MaxFrameSize,
  MaxFrames,  \* bound: frames clients send
  MaxStarts   \* bound: calls of start()

ASSUME TcpServerAssumption ==
  /\ NoConn \notin Conns
  /\ MaxFrames \in Nat /\ MaxStarts \in Nat /\ MaxFrameSize \in Nat

VARIABLES
  owner,         \* where the owner's start() or stop() is
  stop_event,    \* _stop_event
  listening,     \* _server_sock is open
  acceptor,      \* where _accept_loop is
  held,          \* the connection _accept_loop just accepted
  connections,   \* _connections
  conn_threads,  \* _conn_threads
  snap,          \* stop()'s copy of one of these sets, as far as not done
  sock,          \* sock[c]: the server's end of c
  client_open,   \* client_open[c]: the client has not hung up
  inbox,         \* inbox[c]: frames sent and not read, each by its outcome
  sent,          \* how many frames were sent
  thread,        \* thread[c]: where _connection_loop is
  starts,        \* calls of start() so far
  born,          \* history: born[c]: the start() under which c was accepted
  late           \* history: connections whose handler outlived stop()'s wait

owning == <<owner, stop_event, listening, snap, starts>>
tracking == <<connections, conn_threads>>
client == <<client_open, inbox, sent>>
vars == <<owning, acceptor, held, tracking, sock, client, thread, born, late>>

\* What _read_frame and _decode_message will make of a frame.
Kinds == {"good", "bad", "huge"}
outcome(f) ==
  CASE f.length > MaxFrameSize -> "huge"
    [] f.length = 0 -> "bad"
    [] OTHER -> IF from_json(f.json) = Raises THEN "bad" ELSE "good"

Init ==
  /\ owner = "stopped" /\ stop_event = FALSE /\ listening = FALSE
  /\ snap = {} /\ starts = 0
  /\ acceptor = "none" /\ held = NoConn
  /\ connections = {} /\ conn_threads = {}
  /\ sock = [c \in Conns |-> "none"]
  /\ client_open = [c \in Conns |-> TRUE]
  /\ inbox = [c \in Conns |-> <<>>]
  /\ sent = 0
  /\ thread = [c \in Conns |-> "none"]
  /\ born = [c \in Conns |-> 0] /\ late = {}

-----------------------------------------------------------------------------
\* start(): the socket listens and the accept thread runs.
start ==
  /\ owner = "stopped" /\ starts < MaxStarts
  /\ owner' = "running" /\ stop_event' = FALSE /\ listening' = TRUE
  /\ starts' = starts + 1 /\ acceptor' = "check"
  /\ UNCHANGED <<snap, held, tracking, sock, client, thread, born, late>>

\* start() raises before the socket is kept (the port is taken): only the flag
\* was lowered by then.
start_fails ==
  /\ owner = "stopped"
  /\ stop_event' = FALSE
  /\ UNCHANGED <<owner, listening, snap, starts, acceptor, held, tracking, sock,
                 client, thread, born, late>>

\* The server's ends of S are closed; what was not read from them is lost.
CloseEnds(S) ==
  /\ sock' = [c \in Conns |-> IF c \in S THEN "closed" ELSE sock[c]]
  /\ inbox' = [c \in Conns |-> IF c \in S THEN <<>> ELSE inbox[c]]

OwnerGoto(from, to) == owner = from /\ owner' = to

\* stop() that only closes sockets.
StopForgetsEvent ==
  /\ OwnerGoto("running", "close_listen")
  /\ UNCHANGED <<stop_event, listening, snap, starts, acceptor, held, tracking,
                 sock, client, thread, born, late>>

\* stop() raises the flag, ...
stop_set ==
  /\ OwnerGoto("running", "close_listen")
  /\ stop_event' = TRUE
  /\ UNCHANGED <<listening, snap, starts, acceptor, held, tracking, sock, client,
                 thread, born, late>>

\* ... closes the listening socket, which resets what nobody accepted, ...
stop_close_listening ==
  /\ OwnerGoto("close_listen", "snapshot")
  /\ listening' = FALSE
  /\ CloseEnds({c \in Conns : sock[c] = "backlog"})
  /\ UNCHANGED <<stop_event, snap, starts, acceptor, held, tracking, client_open, sent,
                 thread, born, late>>

\* ... copies the set of connections, ...
stop_snapshot ==
  /\ OwnerGoto("snapshot", "close_conns")
  /\ snap' = connections
  /\ UNCHANGED <<stop_event, listening, starts, acceptor, held, tracking, sock,
                 client, thread, born, late>>

\* stop() that trusts the flag and leaves connections open.
StopLeavesConns ==
  /\ OwnerGoto("close_conns", "join_accept")
  /\ snap' = {}
  /\ UNCHANGED <<stop_event, listening, starts, acceptor, held, tracking, sock,
                 client, thread, born, late>>

\* ... closes them one after the other, ...
stop_close_conns ==
  /\ \/ \E c \in snap : /\ OwnerGoto("close_conns", "close_conns")
                        /\ CloseEnds({c})
                        /\ snap' = snap \ {c}
     \/ /\ snap = {} /\ OwnerGoto("close_conns", "join_accept")
        /\ UNCHANGED <<sock, inbox, snap>>
  /\ UNCHANGED <<stop_event, listening, starts, acceptor, held, tracking,
                 client_open, sent, thread, born, late>>

\* stop() that does not wait for the accept thread.
StopSkipsAccept ==
  /\ OwnerGoto("join_accept", "list_threads")
  /\ UNCHANGED <<stop_event, listening, snap, starts, acceptor, held, tracking, sock,
                 client, thread, born, late>>

\* ... waits for the accept thread (which never takes as long as the timeout),
stop_join_accept ==
  /\ OwnerGoto("join_accept", "list_threads")
  /\ acceptor = "done" /\ acceptor' = "none"
  /\ UNCHANGED <<stop_event, listening, snap, starts, held, tracking, sock, client,
                 thread, born, late>>

\* ... copies the set of threads, ...
stop_list_threads ==
  /\ OwnerGoto("list_threads", "join")
  /\ snap' = conn_threads
  /\ UNCHANGED <<stop_event, listening, starts, acceptor, held, tracking, sock,
                 client, thread, born, late>>

\* ... waits for each, though no longer than a slow handler may take, ...
stop_join ==
  /\ \/ \E c \in snap : /\ OwnerGoto("join", "join")
                        /\ thread[c] \in {"done", "dispatch"}
                        /\ late' = IF thread[c] = "done" THEN late ELSE late \cup {c}
                        /\ snap' = snap \ {c}
     \/ snap = {} /\ OwnerGoto("join", "clear") /\ UNCHANGED <<snap, late>>
  /\ UNCHANGED <<stop_event, listening, starts, acceptor, held, tracking, sock,
                 client, thread, born>>

\* ... and forgets everything it tracked.
stop_clear ==
  /\ OwnerGoto("clear", "stopped")
  /\ connections' = {} /\ conn_threads' = {}
  /\ UNCHANGED <<stop_event, listening, snap, starts, acceptor, held, sock, client,
                 thread, born, late>>

-----------------------------------------------------------------------------
\* The accept thread goes on and leaves what the others see alone.
AcceptGoto(from, to) ==
  /\ acceptor = from /\ acceptor' = to
  /\ UNCHANGED <<owning, client>>

accept_check ==
  /\ AcceptGoto("check", IF stop_event THEN "done" ELSE "accept")
  /\ UNCHANGED <<held, tracking, sock, thread, born, late>>

accept_conn(c) ==
  /\ AcceptGoto("accept", "track")
  /\ listening /\ sock[c] = "backlog"
  /\ sock' = [sock EXCEPT ![c] = "open"]
  /\ held' = c /\ born' = [born EXCEPT ![c] = starts]
  /\ UNCHANGED <<tracking, thread, late>>

\* A quiet second ends the accept thread.
AcceptGivesUp ==
  /\ AcceptGoto("accept", "done")
  /\ listening /\ \A c \in Conns : sock[c] # "backlog"
  /\ UNCHANGED <<held, tracking, sock, thread, born, late>>

\* A quiet second is passed over instead of starting the loop again: the code
\* goes on to track a connection although accept() returned none.
TimeoutFallsThrough ==
  /\ AcceptGoto("accept", "track")
  /\ listening /\ \A c \in Conns : sock[c] # "backlog"
  /\ UNCHANGED <<held, tracking, sock, thread, born, late>>

accept_timeout ==
  /\ AcceptGoto("accept", "check")
  /\ listening /\ \A c \in Conns : sock[c] # "backlog"
  /\ UNCHANGED <<held, tracking, sock, thread, born, late>>

\* accept() raises OSError: the listening socket was closed.
accept_closed ==
  /\ AcceptGoto("accept", "done")
  /\ ~listening
  /\ UNCHANGED <<held, tracking, sock, thread, born, late>>

track_conn ==
  /\ AcceptGoto("track", "thread")
  /\ connections' = connections \cup {held}
  /\ UNCHANGED <<held, conn_threads, sock, thread, born, late>>

\* The new thread is tracked before it is started.
track_thread ==
  /\ AcceptGoto("thread", "spawn")
  /\ conn_threads' = conn_threads \cup {held}
  /\ UNCHANGED <<held, connections, sock, thread, born, late>>

spawn ==
  /\ AcceptGoto("spawn", "check")
  /\ thread' = [thread EXCEPT ![held] = "loop"]
  /\ held' = NoConn
  /\ UNCHANGED <<tracking, sock, born, late>>

-----------------------------------------------------------------------------
\* The thread of c goes on; no other actor but the clients is affected.
ThreadGoto(c, from, to) ==
  /\ thread[c] = from /\ thread' = [thread EXCEPT ![c] = to]
  /\ UNCHANGED <<owning, acceptor, held, client_open, sent, born, late>>

loop(c) ==
  /\ ThreadGoto(c, "loop", IF stop_event THEN "finally" ELSE "read")
  /\ UNCHANGED <<tracking, sock, inbox>>

\* _read_frame and _decode_message: a good frame goes to the dispatcher, a bad
\* one is skipped, a huge one ends the connection.
read_frame(c) ==
  /\ sock[c] = "open" /\ inbox[c] # <<>>
  /\ ThreadGoto(c, "read", CASE Head(inbox[c]) = "good" -> "dispatch"
                             [] Head(inbox[c]) = "bad"  -> "loop"
                             [] Head(inbox[c]) = "huge" -> "finally")
  /\ inbox' = [inbox EXCEPT ![c] = Tail(@)]
  /\ UNCHANGED <<tracking, sock>>

\* _recv_exact gives up: closed at either end, or stopped.
read_nothing(c) ==
  /\ ThreadGoto(c, "read", "finally")
  /\ \/ sock[c] = "closed"
     \/ ~client_open[c] /\ inbox[c] = <<>>
     \/ stop_event
  /\ UNCHANGED <<tracking, sock, inbox>>

\* dispatch returns or raises.
dispatched(c) ==
  /\ ThreadGoto(c, "dispatch", "loop")
  /\ UNCHANGED <<tracking, sock, inbox>>

\* The thread ends without closing its connection.
UntrackOnly(c) ==
  /\ ThreadGoto(c, "finally", "untrack")
  /\ connections' = connections \ {c}
  /\ UNCHANGED <<conn_threads, sock, inbox>>

\* The finally block, in three steps.
untrack_conn(c) ==
  /\ ThreadGoto(c, "finally", "close")
  /\ connections' = connections \ {c}
  /\ UNCHANGED <<conn_threads, sock, inbox>>

close_conn(c) ==
  /\ ThreadGoto(c, "close", "untrack")
  /\ CloseEnds({c})
  /\ UNCHANGED tracking

untrack_thread(c) ==
  /\ ThreadGoto(c, "untrack", "done")
  /\ conn_threads' = conn_threads \ {c}
  /\ UNCHANGED <<connections, sock, inbox>>

-----------------------------------------------------------------------------
\* Clients connect, send and hang up.
connect(c) ==
  /\ listening /\ sock[c] = "none"
  /\ sock' = [sock EXCEPT ![c] = "backlog"]
  /\ UNCHANGED <<owning, acceptor, held, tracking, client, thread, born, late>>

send(c, f) ==
  /\ sock[c] \in {"backlog", "open"} /\ client_open[c] /\ sent < MaxFrames
  /\ inbox' = [inbox EXCEPT ![c] = Append(@, outcome(f))]
  /\ sent' = sent + 1
  /\ UNCHANGED <<owning, acceptor, held, tracking, sock, client_open, thread, born, late>>

hang_up(c) ==
  /\ sock[c] \in {"backlog", "open"} /\ client_open[c]
  /\ client_open' = [client_open EXCEPT ![c] = FALSE]
  /\ UNCHANGED <<owning, acceptor, held, tracking, sock, inbox, sent, thread, born, late>>

stop == \/ stop_close_listening \/ stop_snapshot \/ stop_close_conns
        \/ stop_join_accept \/ stop_list_threads \/ stop_join \/ stop_clear

accept_loop ==
  \/ accept_check \/ accept_timeout \/ accept_closed
  \/ track_conn \/ track_thread \/ spawn
  \/ \E c \in Conns : accept_conn(c)

connection_loop(c) ==
  \/ loop(c) \/ read_frame(c) \/ read_nothing(c) \/ dispatched(c)
  \/ untrack_conn(c) \/ close_conn(c) \/ untrack_thread(c)

Next ==
  \/ start \/ start_fails \/ stop_set \/ stop \/ accept_loop
  \/ \E c \in Conns :
        \/ connection_loop(c)
        \/ connect(c) \/ hang_up(c) \/ \E i \in DOMAIN Frames : send(c, Frames[i])

Spec == Init /\ [][Next]_vars

\* The accept thread, the connection threads and a stop() under way go on;
\* handlers return.
FairSpec ==
  /\ Spec
  /\ WF_vars(stop) /\ WF_vars(accept_loop)
  /\ WF_vars(\E c \in Conns : connection_loop(c))

-----------------------------------------------------------------------------
\* Sets hold connections; the accept thread has one in hand exactly between
\* accept() and the start of its thread.
TypeOK ==
  /\ owner \in {"stopped", "running", "close_listen", "snapshot", "close_conns",
                "join_accept", "list_threads", "join", "clear"}
  /\ stop_event \in BOOLEAN /\ listening \in BOOLEAN
  /\ acceptor \in {"none", "check", "accept", "track", "thread", "spawn", "done"}
  /\ held \in Conns \cup {NoConn}
  /\ held # NoConn <=> acceptor \in {"track", "thread", "spawn"}
  /\ connections \subseteq Conns /\ conn_threads \subseteq Conns /\ snap \subseteq Conns
  /\ sock \in [Conns -> {"none", "backlog", "open", "closed"}]
  /\ client_open \in [Conns -> BOOLEAN]
  /\ inbox \in [Conns -> Seq(Kinds)]
  /\ sent \in 0..MaxFrames
  /\ thread \in [Conns -> {"none", "loop", "read", "dispatch", "finally", "close",
                           "untrack", "done"}]
  /\ starts \in 0..MaxStarts /\ born \in [Conns -> 0..MaxStarts]
  /\ late \subseteq Conns

\* When stop() has returned no socket of the server is open, also none accepted
\* after stop() copied the set of connections; and every connection thread has
\* ended, except one whose handler outlived the wait.
NothingLeft ==
  owner = "stopped" =>
     /\ acceptor = "none" /\ ~listening
     /\ \A c \in Conns :
           /\ sock[c] \in {"none", "closed"}
           /\ thread[c] \in {"none", "done"} \/ c \in late

\* stop() only waits for threads that were started (join raises RuntimeError
\* for any other): the accept thread tracks a thread before it starts it, and
\* stop() lists the threads after the accept thread has ended.
JoinsStarted == owner = "join" => \A c \in snap : thread[c] # "none"

\* Whatever other nodes will send to a server that waits for its first client is,
\* written to JSON and read back, understood by its handlers: the checks of
\* decoder, dispatcher and handlers refuse nothing that this code's senders build.
SentIsHandled ==
  listening /\ (\A c \in Conns : sock[c] = "none")
     => \A a, b, s \in Ids : Understood(a, b, s)

\* A connection accepted before a stop() never gives a frame to the dispatcher
\* after that stop() has returned, although start() lowers the flag again while
\* a slow handler of that connection may still be at work.
StaleNeverDispatch ==
  [][\A c \in Conns :
        thread'[c] = "dispatch" /\ thread[c] # "dispatch"
           => owner # "stopped" /\ born[c] = starts]_vars

\* A stop() that was called returns, and waits for no thread in vain.
StopReturns == (owner = "close_listen") ~> (owner = "stopped")

\* What clients have sent does not wait for ever: it is read, or the connection
\* is closed.
Served == <>[](\A c \in Conns : inbox[c] = <<>>)
=============================================================================
