----------------------------- MODULE PeerWorker -----------------------------
(***************************************************************************)
(* One _PeerWorker of TcpClient: its send queue, its thread (connect,      *)
(* drain, detect closure, back off), enqueue and stop() called by other    *)
(* threads, and the server at the other end, which accepts, reads, goes    *)
(* away and comes back.                                                    *)
(*                                                                         *)
(* Frames are numbered in the order they are enqueued; connections in the  *)
(* order they are made.  Time is left out: a sleep, a connect and a        *)
(* sendall take as long as they like, and join(timeout=5.0) may end before *)
(* the thread does.                                                        *)
(***************************************************************************)
EXTENDS Integers, Sequences, Functions

CONSTANTS
  MaxFrames,    \* bound: frames enqueued
  MaxConns,     \* bound: connections established
  MaxFailures,  \* bound: times the server goes away or a sendall times out
  BackoffMax,   \* _backoff_max_s in units of _backoff_initial_s
  Linear        \* _backoff_mode = "linear" (the default is "exponential")

ASSUME PeerWorkerAssumption ==
  /\ MaxFrames \in Nat /\ MaxConns \in Nat /\ MaxFailures \in Nat
  /\ MaxConns > MaxFailures
  /\ BackoffMax \in Nat \ {0} /\ Linear \in BOOLEAN

Frame == 1..MaxFrames
Conn == 1..MaxConns
None == 0   \* no frame, no connection

VARIABLES
  queue,       \* _queue
  payload,     \* the frame _drain_send_queue_once has taken, or None
  sock,        \* _sock
  fresh,       \* the connected socket _connect has not published yet, or None
  pc,          \* where _run is
  backoff_s,   \* in units of _backoff_initial_s
  stop_flag,   \* _should_stop()
  stopper,     \* where stop() is
  client_end,  \* client_end[c]: "new", "open" or "closed"
  server_end,  \* server_end[c]: "new", "open" or "closed"
  wire,        \* wire[c]: frames written to c, not yet read by the server
  up,          \* the server accepts connections
  failures,    \* how often the server went away or a sendall timed out
  enqueued,    \* how many frames were enqueued
  dispatched,  \* frames dispatched by the server's threads, in order
  broken       \* history: a connection failed, or stop() was called

thread == <<payload, sock, fresh, pc, backoff_s>>
ends == <<client_end, server_end, wire>>
server == <<up, failures, dispatched>>
vars == <<queue, thread, stop_flag, stopper, ends, server, enqueued, broken>>

Init ==
  /\ queue = <<>> /\ payload = None /\ sock = None /\ fresh = None
  /\ pc = "top" /\ backoff_s = 1
  /\ stop_flag = FALSE /\ stopper = "idle"
  /\ client_end = [c \in Conn |-> "new"] /\ server_end = client_end
  /\ wire = [c \in Conn |-> <<>>]
  /\ up = FALSE /\ failures = 0 /\ enqueued = 0 /\ dispatched = <<>>
  /\ broken = FALSE

\* send_json: the frame goes to the end of the queue, also on a stopped worker
\* the caller still holds.
enqueue ==
  /\ enqueued < MaxFrames
  /\ enqueued' = enqueued + 1
  /\ queue' = Append(queue, enqueued + 1)
  /\ UNCHANGED <<thread, stop_flag, stopper, ends, server, broken>>

-----------------------------------------------------------------------------
\* There is a connection, and neither end has closed it.
Healthy(c) ==
  IF c = None THEN FALSE ELSE client_end[c] = "open" /\ server_end[c] = "open"

Goto(from, to) == pc = from /\ pc' = to

\* A loop that only stops when it has nothing to connect or to send.
TopIgnoresStop ==
  /\ Goto("top", IF sock = None THEN "connect" ELSE "drain")
  /\ UNCHANGED <<queue, payload, sock, fresh, backoff_s, stop_flag, stopper, ends,
                 server, enqueued, broken>>

\* The head of the loop of _run.
top ==
  /\ Goto("top", IF stop_flag THEN "done"
                 ELSE IF sock = None THEN "connect" ELSE "drain")
  /\ UNCHANGED <<queue, payload, sock, fresh, backoff_s, stop_flag, stopper, ends,
                 server, enqueued, broken>>

\* The first failed connect ends the thread.
ConnectGivesUp ==
  /\ Goto("connect", "done")
  /\ UNCHANGED <<queue, payload, sock, fresh, backoff_s, stop_flag, stopper, ends,
                 server, enqueued, broken>>

\* _connect gives up: it was stopped, or connect() failed or timed out.
connect_fails ==
  /\ Goto("connect", "backoff")
  /\ UNCHANGED <<queue, payload, sock, fresh, backoff_s, stop_flag, stopper, ends,
                 server, enqueued, broken>>

\* sock.connect succeeds, perhaps after stop() was called; the socket is not yet
\* in _sock.
connect_succeeds ==
  /\ up
  /\ Goto("connect", "publish")
  /\ \E c \in Conn :
        /\ client_end[c] = "new"
        /\ \A d \in Conn : d < c => client_end[d] # "new"
        /\ fresh' = c
        /\ client_end' = [client_end EXCEPT ![c] = "open"]
        /\ server_end' = [server_end EXCEPT ![c] = "open"]
  /\ UNCHANGED <<queue, payload, sock, backoff_s, stop_flag, stopper, wire, server,
                 enqueued, broken>>

\* Publishing without looking at the stop flag again.
PublishUnchecked ==
  /\ Goto("publish", "drain")
  /\ sock' = fresh /\ fresh' = None /\ backoff_s' = 1
  /\ UNCHANGED <<queue, payload, stop_flag, stopper, ends, server, enqueued, broken>>

\* Under _sock_lock the socket becomes _sock, unless stop() was quicker: then
\* it is closed and the connect counts as failed.
publish_socket ==
  /\ IF stop_flag
       THEN /\ Goto("publish", "backoff")
            /\ client_end' = [client_end EXCEPT ![fresh] = "closed"]
            /\ UNCHANGED <<sock, backoff_s>>
       ELSE /\ Goto("publish", "drain")
            /\ sock' = fresh /\ backoff_s' = 1
            /\ UNCHANGED client_end
  /\ fresh' = None
  /\ UNCHANGED <<queue, payload, stop_flag, stopper, server_end, wire, server,
                 enqueued, broken>>

\* The delay after b, before it is capped.
Grown(b) == IF Linear THEN b + 1 ELSE b * 2

\* _next_backoff without its cap.
NextBackoffUncapped(b) == Grown(b)

\* _next_backoff.
next_backoff(b) == IF Grown(b) > BackoffMax THEN BackoffMax ELSE Grown(b)

\* _sleep_backoff, and the next delay.
sleep_backoff ==
  /\ Goto("backoff", "top")
  /\ backoff_s' = next_backoff(backoff_s)
  /\ UNCHANGED <<queue, payload, sock, fresh, stop_flag, stopper, ends, server,
                 enqueued, broken>>

\* _drain_send_queue_once leaves the frame in the queue until it is sent.
DrainPeeks ==
  /\ \/ /\ ~stop_flag /\ queue # <<>>
        /\ Goto("drain", "send")
        /\ payload' = Head(queue)
     \/ /\ stop_flag \/ queue = <<>>
        /\ Goto("drain", "idle")
        /\ UNCHANGED payload
  /\ UNCHANGED <<queue, sock, fresh, backoff_s, stop_flag, stopper, ends, server,
                 enqueued, broken>>

\* The queue is a stack.
DrainNewest ==
  /\ \/ /\ ~stop_flag /\ queue # <<>>
        /\ Goto("drain", "send")
        /\ payload' = queue[Len(queue)] /\ queue' = SubSeq(queue, 1, Len(queue) - 1)
     \/ /\ stop_flag \/ queue = <<>>
        /\ Goto("drain", "idle")
        /\ UNCHANGED <<payload, queue>>
  /\ UNCHANGED <<sock, fresh, backoff_s, stop_flag, stopper, ends, server, enqueued,
                 broken>>

\* _drain_send_queue_once takes a frame, or is done.
drain ==
  /\ \/ /\ ~stop_flag /\ queue # <<>>
        /\ Goto("drain", "send")
        /\ payload' = Head(queue) /\ queue' = Tail(queue)
     \/ /\ stop_flag \/ queue = <<>>
        /\ Goto("drain", "idle")
        /\ UNCHANGED <<payload, queue>>
  /\ UNCHANGED <<sock, fresh, backoff_s, stop_flag, stopper, ends, server, enqueued,
                 broken>>

\* sendall accepts the frame; when the server's end is gone, nobody reads it.
send_succeeds ==
  /\ sock # None /\ client_end[sock] = "open"
  /\ Goto("send", "drain")
  /\ payload' = None
  /\ IF server_end[sock] = "open"
       THEN wire' = [wire EXCEPT ![sock] = Append(@, payload)]
       ELSE UNCHANGED wire
  /\ UNCHANGED <<queue, sock, fresh, backoff_s, stop_flag, stopper, client_end,
                 server_end, server, enqueued, broken>>

\* A frame that could not be sent is put back at the end of the queue.
SendRequeues ==
  /\ Goto("send", "close")
  /\ IF Healthy(sock)
       THEN failures < MaxFailures /\ failures' = failures + 1
       ELSE UNCHANGED failures
  /\ payload' = None
  /\ queue' = Append(queue, payload)
  /\ broken' = TRUE
  /\ UNCHANGED <<sock, fresh, backoff_s, stop_flag, stopper, ends, up, dispatched,
                 enqueued>>

\* The socket is gone, its other end is, or sendall timed out: the frame taken
\* is lost.
send_fails ==
  /\ Goto("send", "close")
  /\ IF Healthy(sock)
       THEN failures < MaxFailures /\ failures' = failures + 1
       ELSE UNCHANGED failures
  /\ payload' = None
  /\ broken' = TRUE
  /\ UNCHANGED <<queue, sock, fresh, backoff_s, stop_flag, stopper, ends, up,
                 dispatched, enqueued>>

\* With an empty queue the thread looks for a closed server end, which it may
\* not see yet; otherwise it drains on.
detect_server_closed ==
  /\ \/ queue # <<>> /\ Goto("idle", "top")
     \/ queue = <<>> /\ ~Healthy(sock) /\ Goto("idle", "close")
     \/ /\ queue = <<>> /\ sock # None /\ client_end[sock] = "open"
        /\ Goto("idle", "sleep")
  /\ UNCHANGED <<queue, payload, sock, fresh, backoff_s, stop_flag, stopper, ends,
                 server, enqueued, broken>>

sleep_idle ==
  /\ Goto("sleep", "top")
  /\ UNCHANGED <<queue, payload, sock, fresh, backoff_s, stop_flag, stopper, ends,
                 server, enqueued, broken>>

\* _close_socket: whoever takes the socket out of _sock closes it.
close_socket ==
  /\ sock' = None
  /\ client_end' = IF sock = None THEN client_end
                   ELSE [client_end EXCEPT ![sock] = "closed"]

close ==
  /\ Goto("close", "top")
  /\ close_socket
  /\ UNCHANGED <<queue, payload, fresh, backoff_s, stop_flag, stopper, server_end,
                 wire, server, enqueued, broken>>

-----------------------------------------------------------------------------
\* stop(): raise the flag, close the socket, wait for the thread, drop the
\* queue.
stop_request ==
  /\ stopper = "idle"
  /\ stopper' = "close" /\ stop_flag' = TRUE /\ broken' = TRUE
  /\ UNCHANGED <<queue, thread, ends, server, enqueued>>

stop_close ==
  /\ stopper = "close"
  /\ stopper' = "join"
  /\ close_socket
  /\ UNCHANGED <<queue, payload, fresh, pc, backoff_s, stop_flag, server_end, wire,
                 server, enqueued, broken>>

\* join returns: the thread ended, or is stuck in connect() or sendall().
stop_join ==
  /\ stopper = "join"
  /\ pc \in {"done", "connect", "send"}
  /\ stopper' = "drop"
  /\ UNCHANGED <<queue, thread, stop_flag, ends, server, enqueued, broken>>

stop_drop ==
  /\ stopper = "drop"
  /\ stopper' = "returned"
  /\ queue' = <<>>
  /\ UNCHANGED <<thread, stop_flag, ends, server, enqueued, broken>>

-----------------------------------------------------------------------------
\* The server starts to listen (again).
server_starts ==
  /\ ~up /\ up' = TRUE
  /\ UNCHANGED <<queue, thread, stop_flag, stopper, ends, failures, dispatched,
                 enqueued, broken>>

\* The server goes away: connections close and what was not read is lost.
server_stops ==
  /\ up /\ failures < MaxFailures
  /\ up' = FALSE /\ failures' = failures + 1 /\ broken' = TRUE
  /\ server_end' = [c \in Conn |-> IF server_end[c] = "open" THEN "closed"
                                   ELSE server_end[c]]
  /\ wire' = [c \in Conn |-> <<>>]
  /\ UNCHANGED <<queue, thread, stop_flag, stopper, client_end, dispatched, enqueued>>

\* A connection thread reads and dispatches the next frame.
server_reads(c) ==
  /\ server_end[c] = "open" /\ wire[c] # <<>>
  /\ dispatched' = Append(dispatched, Head(wire[c]))
  /\ wire' = [wire EXCEPT ![c] = Tail(@)]
  /\ UNCHANGED <<queue, thread, stop_flag, stopper, client_end, server_end, up,
                 failures, enqueued, broken>>

\* A connection thread reads the end of the stream and closes.
server_eof(c) ==
  /\ server_end[c] = "open" /\ wire[c] = <<>> /\ client_end[c] = "closed"
  /\ server_end' = [server_end EXCEPT ![c] = "closed"]
  /\ UNCHANGED <<queue, thread, stop_flag, stopper, client_end, wire, server,
                 enqueued, broken>>

run == \/ top \/ connect_fails \/ connect_succeeds \/ publish_socket \/ sleep_backoff
       \/ drain \/ send_succeeds \/ send_fails \/ detect_server_closed
       \/ sleep_idle \/ close

stop == stop_close \/ stop_join \/ stop_drop

Next ==
  \/ enqueue \/ run \/ stop_request \/ stop
  \/ server_starts \/ server_stops
  \/ \E c \in Conn : server_reads(c) \/ server_eof(c)

Spec == Init /\ [][Next]_vars

(***************************************************************************)
(* The thread and a stop() in progress keep running; a server that stays   *)
(* up accepts sooner or later, reads what it was sent and closes what was  *)
(* closed.                                                                 *)
(***************************************************************************)
FairSpec ==
  /\ Spec
  /\ WF_vars(run) /\ WF_vars(stop)
  /\ SF_vars(connect_succeeds)
  /\ WF_vars(server_starts)
  /\ \A c \in Conn : WF_vars(server_reads(c)) /\ WF_vars(server_eof(c))

-----------------------------------------------------------------------------
\* Queues hold frames, sockets are connections that exist, the back-off delay
\* stays between its initial and its largest value.
TypeOK ==
  /\ queue \in Seq(Frame) /\ dispatched \in Seq(Frame)
  /\ payload \in Frame \cup {None}
  /\ sock \in Conn \cup {None} /\ fresh \in Conn \cup {None}
  /\ pc \in {"top", "connect", "publish", "backoff", "drain", "send", "idle",
             "sleep", "close", "done"}
  /\ backoff_s \in 1..BackoffMax
  /\ stop_flag \in BOOLEAN /\ up \in BOOLEAN /\ broken \in BOOLEAN
  /\ stopper \in {"idle", "close", "join", "drop", "returned"}
  /\ client_end \in [Conn -> {"new", "open", "closed"}]
  /\ server_end \in [Conn -> {"new", "open", "closed"}]
  /\ wire \in [Conn -> Seq(Frame)]
  /\ failures \in 0..MaxFailures /\ enqueued \in 0..MaxFrames

\* The frames somewhere between send_json and dispatch.
Pending == Range(queue) \cup ({payload} \ {None}) \cup UNION {Range(wire[c]) : c \in Conn}

\* No socket leaks: an open one is in _sock or about to be put there by
\* _connect, however connect, close and stop() interleave; and once stop() has
\* returned and the thread has ended none is left open.
NoSocketLeak ==
  /\ \A c \in Conn : client_end[c] = "open" => c \in {sock, fresh}
  /\ stopper \in {"join", "drop", "returned"} /\ pc = "done"
        => \A c \in Conn : client_end[c] # "open"

\* As long as no connection failed and nobody called stop(), every frame is
\* dispatched in the order it was enqueued, and none is missing: what the
\* server dispatched, what is on the wire, what the thread holds and what is
\* queued are all frames, in order.
NothingMissing ==
  ~broken =>
     dispatched \o (IF sock = None THEN <<>> ELSE wire[sock])
                \o (IF payload = None THEN <<>> ELSE <<payload>>) \o queue
     = [i \in 1..enqueued |-> i]

\* One connection never carries frames out of order, and no frame is on two
\* connections: the client does not reorder or repeat what it sends.  (Frames
\* of two connections may be dispatched in either order.)
WiresOrdered ==
  /\ \A c \in Conn : \A i, j \in 1..Len(wire[c]) : i < j => wire[c][i] < wire[c][j]
  /\ \A c, d \in Conn : c < d =>
        \A f \in Range(wire[c]), g \in Range(wire[d]) : f < g

\* A stop() that was called returns, the thread ends and the socket is closed.
StopCompletes ==
  stop_flag ~> (stopper = "returned" /\ pc = "done" /\ \A c \in Conn : client_end[c] # "open")

\* Unless it is stopped, the worker gets rid of every frame: outages end,
\* connections come back, and every frame is dispatched or lost.
QueueDrains == <>stop_flag \/ <>[](Pending = {})

-----------------------------------------------------------------------------
\* The worker as a link: what is neither on its way nor dispatched is lost.
L == INSTANCE Link WITH
       Frames <- Frame, pending <- Pending, delivered <- Range(dispatched),
       lost <- (1..enqueued) \ (Pending \cup Range(dispatched))

\* Every behaviour of the worker and its server is one of the abstract link: no
\* frame is dispatched twice, and one that was dispatched or lost never comes
\* back, whatever fails, reconnects or is stopped in between.
ImplementsLink == L!Spec
=============================================================================
