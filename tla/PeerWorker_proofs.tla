------------------------- MODULE PeerWorker_proofs -------------------------
(***************************************************************************)
(* Proofs about one worker of TcpClient and the server at its other end,   *)
(* for every number of frames, connections and failures, every largest     *)
(* back-off delay and both back-off modes.                                 *)
(***************************************************************************)
EXTENDS PeerWorker, SequenceTheorems, TLAPS

-----------------------------------------------------------------------------
\* A sequence of numbers that grows from each element to the next.
Increasing(s) == \A i, j \in 1..Len(s) : i < j => s[i] < s[j]

\* The elements of a sequence to which one is appended.
LEMMA RangeAppend ==
  ASSUME NEW S, NEW s \in Seq(S), NEW e \in S
  PROVE  Range(Append(s, e)) = Range(s) \cup {e}
<1>1. Append(s, e) \in Seq(S)
  BY AppendProperties
<1>2. Range(Append(s, e)) = {Append(s, e)[i] : i \in 1..Len(Append(s, e))}
  BY <1>1, RangeEquality
<1>3. Range(s) = {s[i] : i \in 1..Len(s)}
  BY RangeEquality
<1>4. Len(s) \in Nat
  BY LenProperties
<1> QED
  BY <1>2, <1>3, <1>4, AppendProperties

\* The elements of a non-empty sequence: its head and those of its tail.
LEMMA RangeHeadTail ==
  ASSUME NEW S, NEW s \in Seq(S), s # <<>>
  PROVE  /\ Head(s) = s[1] /\ Len(s) > 0
         /\ Range(s) = {Head(s)} \cup Range(Tail(s))
<1>1. /\ Tail(s) \in Seq(S) /\ Len(Tail(s)) = Len(s) - 1
      /\ \A i \in 1..Len(Tail(s)) : Tail(s)[i] = s[i + 1]
  BY HeadTailProperties
<1>2. Len(s) \in Nat \ {0}
  BY EmptySeq
<1>3. Head(s) = s[1]
  OBVIOUS
<1>4. Range(s) = {s[i] : i \in 1..Len(s)}
  BY RangeEquality
<1>5. Range(Tail(s)) = {Tail(s)[i] : i \in 1..Len(Tail(s))}
  BY <1>1, RangeEquality
<1>6. ASSUME NEW x \in Range(s) PROVE x \in {Head(s)} \cup Range(Tail(s))
  <2>1. PICK i \in 1..Len(s) : x = s[i]
    BY <1>6, <1>4
  <2>2. CASE i = 1
    BY <2>1, <2>2, <1>3
  <2>3. CASE i # 1
    <3>1. i - 1 \in 1..Len(Tail(s)) /\ Tail(s)[i - 1] = s[i]
      BY <2>3, <1>1, <1>2
    <3> QED
      BY <3>1, <2>1, <1>5
  <2> QED
    BY <2>2, <2>3
<1>7. ASSUME NEW x \in {Head(s)} \cup Range(Tail(s)) PROVE x \in Range(s)
  <2>1. CASE x = Head(s)
    BY <2>1, <1>2, <1>3, <1>4
  <2>2. CASE x \in Range(Tail(s))
    <3>1. PICK i \in 1..Len(Tail(s)) : x = Tail(s)[i]
      BY <2>2, <1>5
    <3>2. i + 1 \in 1..Len(s) /\ x = s[i + 1]
      BY <3>1, <1>1, <1>2
    <3> QED
      BY <3>2, <1>4
  <2> QED
    BY <1>7, <2>1, <2>2
<1> QED
  BY <1>2, <1>3, <1>6, <1>7

\* Appending something larger than every element keeps a sequence increasing.
LEMMA IncreasingAppend ==
  ASSUME NEW s \in Seq(Nat), NEW e \in Nat, Increasing(s),
         \A f \in Range(s) : f < e
  PROVE  Increasing(Append(s, e))
<1>1. Len(s) \in Nat /\ \A i \in 1..Len(s) : s[i] \in Nat /\ s[i] \in Range(s)
  BY LenProperties, ElementOfSeq, RangeEquality
<1>2. /\ Len(Append(s, e)) = Len(s) + 1
      /\ \A i \in 1..Len(s) : Append(s, e)[i] = s[i]
      /\ Append(s, e)[Len(s) + 1] = e
  BY AppendProperties
<1> QED
  BY <1>1, <1>2 DEF Increasing

\* The tail of an increasing sequence is increasing, and its head is smaller
\* than everything that follows.
LEMMA IncreasingTail ==
  ASSUME NEW s \in Seq(Nat), s # <<>>, Increasing(s)
  PROVE  Increasing(Tail(s)) /\ \A f \in Range(Tail(s)) : Head(s) < f
<1>1. /\ Tail(s) \in Seq(Nat) /\ Len(Tail(s)) = Len(s) - 1
      /\ \A i \in 1..Len(Tail(s)) : Tail(s)[i] = s[i + 1]
  BY HeadTailProperties
<1>2. Head(s) = s[1] /\ Len(s) \in Nat \ {0}
  BY RangeHeadTail, EmptySeq
<1>3. Range(Tail(s)) = {Tail(s)[i] : i \in 1..Len(Tail(s))}
  BY <1>1, RangeEquality
<1> QED
  BY <1>1, <1>2, <1>3 DEF Increasing

\* The empty sequence has no elements, and is increasing.
LEMMA EmptyRange ==
  Range(<<>>) = {} /\ Increasing(<<>>)
BY DEF Range, Increasing

-----------------------------------------------------------------------------
\* Where the thread is says what it holds; the stop flag says that stop() was
\* called; and a stop() that has closed the socket never sees another one in
\* _sock, because _connect looks at the flag before it publishes.
Control ==
  /\ fresh # None <=> pc = "publish"
  /\ payload # None <=> pc = "send"
  /\ stop_flag <=> stopper # "idle"
  /\ pc \in {"connect", "publish", "backoff"} => sock = None
  /\ stopper \in {"join", "drop", "returned"} => sock = None

\* Connections are made one after the other; only the one in _sock and the one
\* _connect is about to publish are open at the client, and each of them is the
\* latest made.
Ends ==
  /\ \A c \in Conn : client_end[c] = "open" => c \in {sock, fresh}
  /\ \A c \in {sock, fresh} \ {None} :
        client_end[c] = "open" /\ \A d \in Conn : c < d => client_end[d] = "new"
  /\ \A c \in Conn : client_end[c] = "new" <=> server_end[c] = "new"
  /\ \A c, d \in Conn : c < d /\ client_end[c] = "new" => client_end[d] = "new"

\* Only a connection whose server end is open carries frames, and none before
\* _connect has published it.
Carried ==
  /\ \A c \in Conn : wire[c] # <<>> => server_end[c] = "open"
  /\ fresh # None => wire[fresh] = <<>>

\* The frames on their way are in the order they were enqueued: those on the
\* wires, an earlier connection's before a later one's, then the one the thread
\* holds, then those in the queue.
Ordered ==
  /\ WiresOrdered
  /\ Increasing(queue)
  /\ \A c \in Conn : \A f \in Range(wire[c]), g \in Range(queue) : f < g
  /\ payload # None =>
        /\ \A c \in Conn : \A f \in Range(wire[c]) : f < payload
        /\ \A g \in Range(queue) : payload < g

\* Nothing is on its way or was dispatched that was not enqueued, and nothing
\* that was dispatched is still on its way.
Once ==
  /\ Pending \subseteq 1..enqueued /\ Range(dispatched) \subseteq 1..enqueued
  /\ Pending \cap Range(dispatched) = {}

\* Until something fails or stop() is called, the connection stays as it is.
Unbroken ==
  ~broken =>
     /\ ~stop_flag /\ pc # "close"
     /\ pc \in {"drain", "send", "idle", "sleep"} => sock # None
     /\ \A c \in Conn : client_end[c] # "closed" /\ server_end[c] # "closed"

-----------------------------------------------------------------------------
\* Closing the socket leaves none, and ends that are still ends.
LEMMA CloseSocketTypes ==
  ASSUME TypeOK, close_socket
  PROVE  sock' = None /\ client_end' \in [Conn -> {"new", "open", "closed"}]
BY DEF TypeOK, close_socket, None

\* The back-off delay stays between its initial and its largest value, in both
\* modes of _next_backoff.
LEMMA NextBackoffBounds ==
  ASSUME NEW b \in 1..BackoffMax
  PROVE  next_backoff(b) \in 1..BackoffMax
<1>1. BackoffMax \in Nat \ {0}
  BY PeerWorkerAssumption
<1>2. Grown(b) \in Nat \ {0}
  BY <1>1, PeerWorkerAssumption DEF Grown
<1> QED
  BY <1>1, <1>2 DEF next_backoff

\* Every step of the worker, of stop() and of the server keeps the types.
LEMMA TypeStep ==
  ASSUME TypeOK, Control, [Next]_vars
  PROVE  TypeOK'
<1> USE DEF None
<1>0. MaxFrames \in Nat /\ MaxConns \in Nat /\ MaxFailures \in Nat
  BY PeerWorkerAssumption
<1>1. CASE enqueue
  <2>1. enqueued + 1 \in Frame /\ enqueued' \in 0..MaxFrames
    BY <1>0, <1>1 DEF TypeOK, enqueue, Frame
  <2>2. queue' \in Seq(Frame)
    BY <1>1, <2>1, AppendProperties DEF TypeOK, enqueue
  <2> QED
    BY <1>1, <2>1, <2>2 DEF TypeOK, enqueue, thread, ends, server
<1>2. CASE top
  BY <1>2 DEF TypeOK, top, Goto, ends, server
<1>3. CASE connect_fails
  BY <1>3 DEF TypeOK, connect_fails, Goto, ends, server
<1>4. CASE connect_succeeds
  BY <1>4 DEF TypeOK, connect_succeeds, Goto, server
<1>5. CASE publish_socket
  <2>1. 1 \in 1..BackoffMax
    BY PeerWorkerAssumption
  <2>2. /\ pc' \in {"backoff", "drain"} /\ fresh' = None
        /\ sock' \in {sock, fresh} /\ backoff_s' \in {backoff_s, 1}
    BY <1>5 DEF publish_socket, Goto
  <2>3. client_end' \in [Conn -> {"new", "open", "closed"}]
    BY <1>5 DEF TypeOK, publish_socket
  <2> QED
    BY <1>5, <2>1, <2>2, <2>3 DEF TypeOK, publish_socket, server
<1>6. CASE sleep_backoff
  BY <1>6, NextBackoffBounds DEF TypeOK, sleep_backoff, Goto, ends, server
<1>7. CASE drain
  <2>1. queue # <<>> => Head(queue) \in Frame /\ Tail(queue) \in Seq(Frame)
    BY HeadTailProperties DEF TypeOK
  <2>2. /\ queue' \in Seq(Frame) /\ payload' \in Frame \cup {None}
        /\ pc' \in {"send", "idle"}
    BY <1>7, <2>1 DEF TypeOK, drain, Goto
  <2> QED
    BY <1>7, <2>2 DEF TypeOK, drain, ends, server
<1>8. CASE send_succeeds
  <2>1. payload \in Frame /\ sock \in Conn
    BY <1>8 DEF TypeOK, Control, send_succeeds, Goto
  <2>2. wire' \in [Conn -> Seq(Frame)]
    <3>1. Append(wire[sock], payload) \in Seq(Frame)
      BY <2>1, AppendProperties DEF TypeOK
    <3> QED
      BY <1>8, <3>1 DEF TypeOK, send_succeeds
  <2> QED
    BY <1>8, <2>2 DEF TypeOK, send_succeeds, Goto, server
<1>9. CASE send_fails
  BY <1>0, <1>9 DEF TypeOK, send_fails, Goto, ends
<1>10. CASE detect_server_closed
  BY <1>10 DEF TypeOK, detect_server_closed, Goto, ends, server
<1>11. CASE sleep_idle
  BY <1>11 DEF TypeOK, sleep_idle, Goto, ends, server
<1>12. CASE close
  BY <1>12, CloseSocketTypes DEF TypeOK, close, Goto, server
<1>13. CASE stop_request
  BY <1>13 DEF TypeOK, stop_request, thread, ends, server
<1>14. CASE stop_close
  BY <1>14, CloseSocketTypes DEF TypeOK, stop_close, server
<1>15. CASE stop_join
  BY <1>15 DEF TypeOK, stop_join, thread, ends, server
<1>16. CASE stop_drop
  BY <1>16 DEF TypeOK, stop_drop, thread, ends, server
<1>17. CASE server_starts
  BY <1>17 DEF TypeOK, server_starts, thread, ends
<1>18. CASE server_stops
  <2>1. wire' \in [Conn -> Seq(Frame)]
    BY <1>18, EmptySeq DEF server_stops
  <2>2. server_end' \in [Conn -> {"new", "open", "closed"}]
    BY <1>18 DEF TypeOK, server_stops
  <2>3. failures' \in 0..MaxFailures
    BY <1>0, <1>18 DEF TypeOK, server_stops
  <2> QED
    BY <1>18, <2>1, <2>2, <2>3 DEF TypeOK, server_stops, thread
<1>19. ASSUME NEW c \in Conn, server_reads(c) PROVE TypeOK'
  <2>1. /\ Head(wire[c]) \in Frame /\ Tail(wire[c]) \in Seq(Frame)
        /\ Append(dispatched, Head(wire[c])) \in Seq(Frame)
    BY <1>19, HeadTailProperties, AppendProperties DEF TypeOK, server_reads
  <2> QED
    BY <1>19, <2>1 DEF TypeOK, server_reads, thread
<1>20. ASSUME NEW c \in Conn, server_eof(c) PROVE TypeOK'
  BY <1>20 DEF TypeOK, server_eof, thread, server
<1>21. CASE UNCHANGED vars
  BY <1>21 DEF TypeOK, vars, thread, ends, server
<1> QED
  BY <1>1, <1>2, <1>3, <1>4, <1>5, <1>6, <1>7, <1>8, <1>9, <1>10, <1>11, <1>12,
     <1>13, <1>14, <1>15, <1>16, <1>17, <1>18, <1>19, <1>20, <1>21
  DEF Next, run, stop

\* Every step keeps the thread and stop() where they say they are.
LEMMA ControlStep ==
  ASSUME TypeOK, Control, [Next]_vars
  PROVE  Control'
<1> USE DEF None
<1>1. CASE enqueue
  BY <1>1 DEF Control, enqueue, thread
<1>2. CASE top
  BY <1>2 DEF Control, top, Goto
<1>3. CASE connect_fails
  BY <1>3 DEF Control, connect_fails, Goto
<1>4. CASE connect_succeeds
  BY <1>4 DEF Control, connect_succeeds, Goto, Conn
<1>5. CASE publish_socket
  BY <1>5 DEF TypeOK, Control, publish_socket, Goto
<1>6. CASE sleep_backoff
  BY <1>6 DEF Control, sleep_backoff, Goto
<1>7. CASE drain
  <2>1. queue # <<>> => Head(queue) \in Frame
    BY HeadTailProperties DEF TypeOK
  <2> QED
    BY <1>7, <2>1 DEF Control, drain, Goto, Frame
<1>8. CASE send_succeeds
  BY <1>8 DEF Control, send_succeeds, Goto
<1>9. CASE send_fails
  BY <1>9 DEF Control, send_fails, Goto
<1>10. CASE detect_server_closed
  BY <1>10 DEF Control, detect_server_closed, Goto
<1>11. CASE sleep_idle
  BY <1>11 DEF Control, sleep_idle, Goto
<1>12. CASE close
  BY <1>12 DEF Control, close, close_socket, Goto
<1>13. CASE stop_request
  BY <1>13 DEF Control, stop_request, thread
<1>14. CASE stop_close
  BY <1>14 DEF Control, stop_close, close_socket
<1>15. CASE stop_join
  BY <1>15 DEF Control, stop_join, thread
<1>16. CASE stop_drop
  BY <1>16 DEF Control, stop_drop, thread
<1>17. CASE server_starts
  BY <1>17 DEF Control, server_starts, thread
<1>18. CASE server_stops
  BY <1>18 DEF Control, server_stops, thread
<1>19. ASSUME NEW c \in Conn, server_reads(c) PROVE Control'
  BY <1>19 DEF Control, server_reads, thread
<1>20. ASSUME NEW c \in Conn, server_eof(c) PROVE Control'
  BY <1>20 DEF Control, server_eof, thread
<1>21. CASE UNCHANGED vars
  BY <1>21 DEF Control, vars, thread
<1> QED
  BY <1>1, <1>2, <1>3, <1>4, <1>5, <1>6, <1>7, <1>8, <1>9, <1>10, <1>11, <1>12,
     <1>13, <1>14, <1>15, <1>16, <1>17, <1>18, <1>19, <1>20, <1>21
  DEF Next, run, stop

\* The worker starts with everything of its type.
LEMMA InitTyped ==
  ASSUME Init
  PROVE  TypeOK
<1>1. <<>> \in Seq(Frame)
  BY EmptySeq
<1>2. wire \in [Conn -> Seq(Frame)]
  BY <1>1 DEF Init
<1>3. client_end \in [Conn -> {"new", "open", "closed"}] /\ server_end = client_end
  BY DEF Init
<1>4. backoff_s \in 1..BackoffMax /\ failures \in 0..MaxFailures /\ enqueued \in 0..MaxFrames
  BY PeerWorkerAssumption DEF Init
<1> QED
  BY <1>1, <1>2, <1>3, <1>4 DEF Init, TypeOK, None

\* Queues hold frames, sockets are connections, the back-off delay of
\* _next_backoff stays between its initial and its largest value.
THEOREM Typed == Spec => []TypeOK
<1>1. Init => Control
  BY DEF Init, Control, None
<1> QED
  BY <1>1, InitTyped, TypeStep, ControlStep, PTL DEF Spec

-----------------------------------------------------------------------------
\* What frames and connections are kept in.
data == <<queue, payload, sock, fresh, ends, enqueued, dispatched>>

\* The steps that move a frame or change a connection; every other step leaves
\* all of them as they are.
LEMMA StepKinds ==
  ASSUME [Next]_vars
  PROVE  \/ enqueue \/ connect_succeeds \/ publish_socket \/ drain
         \/ send_succeeds \/ send_fails \/ close \/ stop_close \/ stop_drop
         \/ server_stops \/ \E c \in Conn : server_reads(c) \/ server_eof(c)
         \/ UNCHANGED data
<1> USE DEF data, thread, ends, server
<1>1. CASE top
  BY <1>1 DEF top
<1>2. CASE connect_fails
  BY <1>2 DEF connect_fails
<1>3. CASE sleep_backoff
  BY <1>3 DEF sleep_backoff
<1>4. CASE detect_server_closed
  BY <1>4 DEF detect_server_closed
<1>5. CASE sleep_idle
  BY <1>5 DEF sleep_idle
<1>6. CASE stop_request
  BY <1>6 DEF stop_request
<1>7. CASE stop_join
  BY <1>7 DEF stop_join
<1>8. CASE server_starts
  BY <1>8 DEF server_starts
<1>9. CASE UNCHANGED vars
  BY <1>9 DEF vars
<1> QED
  BY <1>1, <1>2, <1>3, <1>4, <1>5, <1>6, <1>7, <1>8, <1>9 DEF Next, run, stop

\* A socket that is closed by whoever takes it out of _sock: the others stay as
\* they are.
LEMMA CloseSocketEnds ==
  ASSUME TypeOK, Control, Ends, close_socket, UNCHANGED <<fresh, server_end>>
  PROVE  Ends'
<1> USE DEF None
<1>1. CASE sock = None
  BY <1>1 DEF Ends, close_socket
<1>2. CASE sock # None
  <2>1. fresh = None
    BY <1>2 DEF Control
  <2>2. /\ sock' = None /\ fresh' = None
        /\ client_end' = [client_end EXCEPT ![sock] = "closed"]
    BY <1>2, <2>1 DEF close_socket
  <2>3. sock \in Conn /\ client_end[sock] = "open"
    BY <1>2 DEF TypeOK, Ends
  <2> QED
    BY <2>1, <2>2, <2>3 DEF TypeOK, Ends
<1> QED
  BY <1>1, <1>2

\* Every step keeps the ends of the connections in step with _sock and _connect.
LEMMA EndsStep ==
  ASSUME TypeOK, Control, Ends, [Next]_vars
  PROVE  Ends'
<1> USE DEF None
<1>1. CASE enqueue
  BY <1>1 DEF Ends, enqueue, thread, ends
<1>2. CASE connect_succeeds
  <2>1. PICK c \in Conn :
           /\ client_end[c] = "new"
           /\ \A d \in Conn : d < c => client_end[d] # "new"
           /\ fresh' = c
           /\ client_end' = [client_end EXCEPT ![c] = "open"]
           /\ server_end' = [server_end EXCEPT ![c] = "open"]
    BY <1>2 DEF connect_succeeds
  <2>2. sock = None /\ sock' = None /\ fresh = None
    BY <1>2 DEF connect_succeeds, Control, Goto
  <2>3. c # None /\ Conn \subseteq Nat
    BY DEF Conn
  <2>4. \A d \in Conn : c < d => client_end[d] = "new"
    BY <2>1 DEF Ends
  <2>5. \A d \in Conn : client_end'[d] = IF d = c THEN "open" ELSE client_end[d]
    BY <2>1 DEF TypeOK
  <2>6. \A d \in Conn : server_end'[d] = IF d = c THEN "open" ELSE server_end[d]
    BY <2>1 DEF TypeOK
  <2>7. \A d \in Conn : client_end'[d] = "open" => d \in {sock', fresh'}
    BY <2>1, <2>2, <2>5 DEF Ends
  <2>8. client_end'[c] = "open" /\ \A d \in Conn : c < d => client_end'[d] = "new"
    BY <2>3, <2>4, <2>5
  <2>9. \A d \in Conn : client_end'[d] = "new" <=> server_end'[d] = "new"
    BY <2>5, <2>6 DEF Ends
  <2>10. \A d, e \in Conn : d < e /\ client_end'[d] = "new" => client_end'[e] = "new"
    BY <2>1, <2>3, <2>5 DEF Ends
  <2> QED
    BY <2>1, <2>2, <2>7, <2>8, <2>9, <2>10 DEF Ends
<1>3. CASE publish_socket
  <2>1. fresh \in Conn /\ client_end[fresh] = "open" /\ sock = None
    BY <1>3 DEF TypeOK, Control, Ends, publish_socket, Goto
  <2>2. fresh' = None /\ server_end' = server_end
    BY <1>3 DEF publish_socket
  <2>3. CASE stop_flag
    BY <1>3, <2>1, <2>2, <2>3 DEF TypeOK, Ends, publish_socket
  <2>4. CASE ~stop_flag
    BY <1>3, <2>1, <2>2, <2>4 DEF TypeOK, Ends, publish_socket
  <2> QED
    BY <2>3, <2>4
<1>4. CASE drain
  BY <1>4 DEF Ends, drain, ends
<1>5. CASE send_succeeds
  BY <1>5 DEF Ends, send_succeeds
<1>6. CASE send_fails
  BY <1>6 DEF Ends, send_fails, ends
<1>7. CASE close
  BY <1>7, CloseSocketEnds DEF close
<1>8. CASE stop_close
  BY <1>8, CloseSocketEnds DEF stop_close
<1>9. CASE stop_drop
  BY <1>9 DEF Ends, stop_drop, thread, ends
<1>10. CASE server_stops
  <2>1. /\ UNCHANGED <<sock, fresh, client_end>>
        /\ \A c \in Conn : server_end'[c] = "new" <=> server_end[c] = "new"
    BY <1>10 DEF TypeOK, server_stops, thread
  <2> QED
    BY <2>1 DEF Ends
<1>11. ASSUME NEW c \in Conn, server_reads(c) PROVE Ends'
  BY <1>11 DEF Ends, server_reads, thread
<1>12. ASSUME NEW c \in Conn, server_eof(c) PROVE Ends'
  <2>1. /\ UNCHANGED <<sock, fresh, client_end>>
        /\ \A d \in Conn : server_end'[d] = "new" <=> server_end[d] = "new"
    BY <1>12 DEF TypeOK, server_eof, thread
  <2> QED
    BY <2>1 DEF Ends
<1>13. CASE UNCHANGED data
  BY <1>13 DEF Ends, data, ends
<1> QED
  BY <1>1, <1>2, <1>3, <1>4, <1>5, <1>6, <1>7, <1>8, <1>9, <1>10, <1>11, <1>12,
     <1>13, StepKinds

\* No socket leaks, however connect, close and stop() interleave: an open one is
\* in _sock or about to be published, and when stop() has closed the socket and
\* the thread has ended none is open.
THEOREM SocketsClosed == Spec => []NoSocketLeak
<1>1. Init => Control /\ Ends
  BY DEF Init, Control, Ends, None, Conn
<1>2. Control /\ Ends => NoSocketLeak
  BY DEF Control, Ends, NoSocketLeak, None, Conn
<1> QED
  BY <1>1, <1>2, Typed, ControlStep, EndsStep, PTL DEF Spec

-----------------------------------------------------------------------------
\* A frame is only ever written to the published connection.
LEMMA SendWrites ==
  ASSUME TypeOK, Control, send_succeeds
  PROVE  /\ sock \in Conn /\ payload \in Frame /\ payload' = None /\ fresh = None
         /\ UNCHANGED <<queue, sock, fresh, client_end, server_end, dispatched, enqueued>>
         /\ \/ server_end[sock] = "open" /\ wire' = [wire EXCEPT ![sock] = Append(@, payload)]
            \/ server_end[sock] # "open" /\ wire' = wire
BY DEF TypeOK, Control, send_succeeds, Goto, server, None

\* Every step keeps the connections that cannot carry frames empty.
LEMMA CarriedStep ==
  ASSUME TypeOK, Control, Ends, Carried, [Next]_vars
  PROVE  Carried'
<1> USE DEF None
<1>1. CASE enqueue
  BY <1>1 DEF Carried, enqueue, thread, ends
<1>2. CASE connect_succeeds
  <2>1. PICK c \in Conn :
           /\ client_end[c] = "new" /\ fresh' = c
           /\ server_end' = [server_end EXCEPT ![c] = "open"]
    BY <1>2 DEF connect_succeeds
  <2>2. wire' = wire /\ wire[c] = <<>>
    BY <1>2, <2>1 DEF connect_succeeds, Carried, Ends
  <2>3. \A d \in Conn : server_end[d] = "open" => server_end'[d] = "open"
    BY <2>1 DEF TypeOK
  <2> QED
    BY <2>1, <2>2, <2>3 DEF Carried
<1>3. CASE publish_socket
  BY <1>3 DEF Carried, publish_socket
<1>4. CASE drain
  BY <1>4 DEF Carried, drain, ends
<1>5. CASE send_succeeds
  BY <1>5, SendWrites DEF TypeOK, Carried
<1>6. CASE send_fails
  BY <1>6 DEF Carried, send_fails, ends
<1>7. CASE close
  BY <1>7 DEF Carried, close
<1>8. CASE stop_close
  BY <1>8 DEF Carried, stop_close
<1>9. CASE stop_drop
  BY <1>9 DEF Carried, stop_drop, thread, ends
<1>10. CASE server_stops
  <2>1. wire' = [c \in Conn |-> <<>>] /\ fresh' = fresh
    BY <1>10 DEF server_stops, thread
  <2> QED
    BY <2>1 DEF TypeOK, Carried
<1>11. ASSUME NEW c \in Conn, server_reads(c) PROVE Carried'
  <2>1. /\ UNCHANGED <<fresh, server_end>> /\ server_end[c] = "open"
        /\ wire[c] # <<>> /\ \A d \in Conn : d # c => wire'[d] = wire[d]
    BY <1>11 DEF TypeOK, server_reads, thread
  <2> QED
    BY <2>1 DEF TypeOK, Carried
<1>12. ASSUME NEW c \in Conn, server_eof(c) PROVE Carried'
  BY <1>12 DEF TypeOK, Carried, server_eof, thread
<1>13. CASE UNCHANGED data
  BY <1>13 DEF Carried, data, ends
<1> QED
  BY <1>1, <1>2, <1>3, <1>4, <1>5, <1>6, <1>7, <1>8, <1>9, <1>10, <1>11, <1>12,
     <1>13, StepKinds

\* A frame is on its way when it is queued, held by the thread, or on a wire.
LEMMA PendingElement ==
  ASSUME NEW f
  PROVE  f \in Pending <=> \/ f \in Range(queue)
                           \/ f = payload /\ f # None
                           \/ \E c \in Conn : f \in Range(wire[c])
BY DEF Pending

\* Frames are numbers, and so are the elements of what holds them.
LEMMA FramesAreNumbers ==
  ASSUME TypeOK
  PROVE  /\ Frame \subseteq Nat /\ None \notin Frame /\ Conn \subseteq Nat
         /\ queue \in Seq(Nat) /\ Range(queue) \subseteq Frame
         /\ \A c \in Conn : wire[c] \in Seq(Frame) /\ wire[c] \in Seq(Nat)
                            /\ Range(wire[c]) \subseteq Frame
<1>1. Frame \subseteq Nat /\ None \notin Frame /\ Conn \subseteq Nat
  BY DEF Frame, None, Conn
<1>2. queue \in Seq(Frame) /\ \A c \in Conn : wire[c] \in Seq(Frame)
  BY DEF TypeOK
<1> QED
  BY <1>1, <1>2, SeqMonotonic, RangeOfSeq

\* Only frames are on their way.
LEMMA PendingFrames ==
  ASSUME TypeOK
  PROVE  Pending \subseteq Frame
<1>1. ASSUME NEW f \in Pending PROVE f \in Frame
  BY <1>1, PendingElement, FramesAreNumbers DEF TypeOK
<1> QED
  BY <1>1

\* Order is kept by a step that takes frames out of where they are: off the
\* wires, the queue, or the thread's hands.
LEMMA OrderedFewer ==
  ASSUME TypeOK, Ordered,
         Increasing(queue'), \A c \in Conn : Increasing(wire'[c]),
         Range(queue') \subseteq Range(queue),
         payload' \in {payload, None},
         \A c \in Conn : Range(wire'[c]) \subseteq Range(wire[c])
  PROVE  Ordered'
BY DEF Ordered, WiresOrdered, Increasing

\* Every step keeps the frames on their way in order.
LEMMA OrderedStep ==
  ASSUME TypeOK, Control, Ends, Carried, Ordered, Once, [Next]_vars
  PROVE  Ordered'
<1>0. /\ Increasing(queue) /\ \A c \in Conn : Increasing(wire[c])
  BY DEF Ordered, WiresOrdered, Increasing
<1>1. CASE enqueue
  <2>1. UNCHANGED <<payload, wire>> /\ queue' = Append(queue, enqueued + 1)
    BY <1>1 DEF enqueue, thread, ends
  <2>2. enqueued + 1 \in Frame /\ enqueued \in Nat
    BY <1>1, PeerWorkerAssumption DEF enqueue, TypeOK, Frame
  <2>3. Range(queue') = Range(queue) \cup {enqueued + 1}
    BY <2>1, <2>2, RangeAppend DEF TypeOK
  <2>4. \A f \in Pending : f \in Nat /\ f < enqueued + 1
    BY <2>2 DEF Once
  <2>5. Increasing(queue')
    BY <1>0, <2>1, <2>2, <2>4, FramesAreNumbers, IncreasingAppend, PendingElement
  <2> QED
    BY <2>1, <2>3, <2>4, <2>5, PendingElement DEF Ordered, WiresOrdered
<1>2. CASE connect_succeeds
  BY <1>2 DEF Ordered, WiresOrdered, connect_succeeds
<1>3. CASE publish_socket
  BY <1>3 DEF Ordered, WiresOrdered, publish_socket
<1>4. CASE drain
  <2>1. wire' = wire
    BY <1>4 DEF drain, ends
  <2>2. CASE queue' = queue /\ payload' = payload
    BY <2>1, <2>2 DEF Ordered, WiresOrdered
  <2>3. CASE queue # <<>> /\ payload' = Head(queue) /\ queue' = Tail(queue)
    <3>1. /\ Range(queue) = {Head(queue)} \cup Range(Tail(queue))
          /\ Increasing(Tail(queue)) /\ \A g \in Range(Tail(queue)) : Head(queue) < g
      BY <1>0, <2>3, FramesAreNumbers, RangeHeadTail, IncreasingTail
    <3> QED
      BY <2>1, <2>3, <3>1 DEF Ordered, WiresOrdered
  <2> QED
    BY <1>4, <2>2, <2>3 DEF drain
<1>5. CASE send_succeeds
  <2>1. CASE wire' = wire
    BY <1>0, <1>5, <2>1, SendWrites, OrderedFewer
  <2>2. CASE server_end[sock] = "open" /\ wire' = [wire EXCEPT ![sock] = Append(@, payload)]
    <3>1. /\ sock \in Conn /\ payload \in Frame /\ payload' = None
          /\ queue' = queue
      BY <1>5, SendWrites
    <3>2. \A c \in Conn : wire'[c] = IF c = sock THEN Append(wire[sock], payload) ELSE wire[c]
      BY <2>2, <3>1 DEF TypeOK
    <3>3. Range(wire'[sock]) = Range(wire[sock]) \cup {payload}
      BY <3>1, <3>2, FramesAreNumbers, RangeAppend
    <3>4. payload \in Nat /\ \A c \in Conn : \A f \in Range(wire[c]) : f < payload
      BY <3>1, FramesAreNumbers DEF Ordered
    <3>5. Increasing(wire'[sock])
      BY <1>0, <3>1, <3>2, <3>4, FramesAreNumbers, IncreasingAppend
    <3>6. \A d \in Conn : sock < d => Range(wire[d]) = {}
      <4>1. ASSUME NEW d \in Conn, sock < d PROVE Range(wire[d]) = {}
        <5>1. server_end[d] = "new"
          BY <3>1, <4>1, FramesAreNumbers DEF Ends, None, Conn
        <5>2. wire[d] = <<>>
          BY <5>1 DEF Carried
        <5> QED
          BY <5>2, EmptyRange
      <4> QED
        BY <4>1
    <3>7. WiresOrdered'
      <4>1. \A c \in Conn : Increasing(wire'[c])
        BY <1>0, <3>2, <3>5
      <4>2. ASSUME NEW c \in Conn, NEW d \in Conn, c < d,
                   NEW f \in Range(wire'[c]), NEW g \in Range(wire'[d])
            PROVE  f < g
        <5>1. CASE c = sock
          <6>1. sock < d /\ d # sock
            BY <4>2, <5>1, FramesAreNumbers
          <6>2. wire'[d] = wire[d] /\ Range(wire[d]) = {}
            BY <3>2, <3>6, <6>1
          <6> QED
            BY <4>2, <6>2
        <5>2. CASE d = sock /\ c # sock
          BY <3>2, <3>3, <3>4, <4>2, <5>2 DEF Ordered, WiresOrdered
        <5>3. CASE c # sock /\ d # sock
          BY <3>2, <4>2, <5>3 DEF Ordered, WiresOrdered
        <5> QED
          BY <5>1, <5>2, <5>3
      <4> QED
        BY <4>1, <4>2 DEF WiresOrdered, Increasing
    <3>8. \A c \in Conn : \A f \in Range(wire'[c]), g \in Range(queue') : f < g
      BY <3>1, <3>2, <3>3, FramesAreNumbers DEF Ordered
    <3> QED
      BY <1>0, <3>1, <3>7, <3>8 DEF Ordered
  <2> QED
    BY <1>5, <2>1, <2>2, SendWrites
<1>6. CASE send_fails
  BY <1>0, <1>6, OrderedFewer DEF send_fails, ends
<1>7. CASE close
  BY <1>7 DEF Ordered, WiresOrdered, close
<1>8. CASE stop_close
  BY <1>8 DEF Ordered, WiresOrdered, stop_close
<1>9. CASE stop_drop
  BY <1>0, <1>9, OrderedFewer, EmptyRange DEF stop_drop, thread, ends
<1>10. CASE server_stops
  <2>1. \A c \in Conn : wire'[c] = <<>>
    BY <1>10 DEF server_stops
  <2> QED
    BY <1>0, <1>10, <2>1, OrderedFewer, EmptyRange DEF server_stops, thread
<1>11. ASSUME NEW c \in Conn, server_reads(c) PROVE Ordered'
  <2>1. /\ wire[c] # <<>> /\ UNCHANGED <<queue, payload>>
        /\ \A d \in Conn : wire'[d] = IF d = c THEN Tail(wire[c]) ELSE wire[d]
    BY <1>11 DEF TypeOK, server_reads, thread
  <2>2. Range(Tail(wire[c])) \subseteq Range(wire[c]) /\ Increasing(Tail(wire[c]))
    BY <1>0, <2>1, FramesAreNumbers, RangeHeadTail, IncreasingTail
  <2> QED
    BY <1>0, <2>1, <2>2, OrderedFewer
<1>12. ASSUME NEW c \in Conn, server_eof(c) PROVE Ordered'
  BY <1>12 DEF Ordered, WiresOrdered, server_eof, thread
<1>13. CASE UNCHANGED data
  BY <1>13 DEF Ordered, WiresOrdered, data, ends
<1> QED
  BY <1>1, <1>2, <1>3, <1>4, <1>5, <1>6, <1>7, <1>8, <1>9, <1>10, <1>11, <1>12,
     <1>13, StepKinds

-----------------------------------------------------------------------------
\* A frame enters the queue; frames move or are lost; or one is dispatched.
Enters ==
  /\ enqueued < MaxFrames /\ enqueued' = enqueued + 1
  /\ Pending' = Pending \cup {enqueued + 1}
  /\ Range(dispatched)' = Range(dispatched)

Shrinks ==
  /\ Pending' \subseteq Pending
  /\ Range(dispatched)' = Range(dispatched) /\ enqueued' = enqueued

Arrives(f) ==
  /\ f \in Pending /\ Pending' = Pending \ {f}
  /\ Range(dispatched)' = Range(dispatched) \cup {f} /\ enqueued' = enqueued

\* Frames that are nowhere but where they were before are no more than before.
LEMMA FewerPending ==
  ASSUME Range(queue') \subseteq Range(queue), payload' \in {payload, None},
         \A c \in Conn : Range(wire'[c]) \subseteq Range(wire[c])
  PROVE  Pending' \subseteq Pending
<1>1. ASSUME NEW f \in Pending' PROVE f \in Pending
  <2>1. \/ f \in Range(queue')
        \/ f = payload' /\ f # None
        \/ \E c \in Conn : f \in Range(wire'[c])
    BY <1>1 DEF Pending
  <2> QED
    BY <2>1, PendingElement
<1> QED
  BY <1>1

\* What a step does to the frames as a whole: each is in one place, and leaves
\* it for one other, for the dispatcher, or for good.
LEMMA FramesMove ==
  ASSUME TypeOK, Control, Ordered, [Next]_vars
  PROVE  \/ Enters
         \/ Shrinks
         \/ \E f \in Frame : Arrives(f)
<1>1. CASE enqueue
  <2>1. UNCHANGED <<payload, wire, dispatched>> /\ queue' = Append(queue, enqueued + 1)
    BY <1>1 DEF enqueue, thread, ends, server
  <2>2. enqueued + 1 \in Frame
    BY <1>1, PeerWorkerAssumption DEF enqueue, TypeOK, Frame
  <2>3. Range(queue') = Range(queue) \cup {enqueued + 1}
    BY <2>1, <2>2, RangeAppend DEF TypeOK
  <2>4. Pending' = Pending \cup {enqueued + 1}
    BY <2>1, <2>3 DEF Pending
  <2> QED
    BY <1>1, <2>1, <2>4 DEF enqueue, Enters
<1>2. CASE connect_succeeds
  BY <1>2, FewerPending DEF Shrinks, connect_succeeds, server
<1>3. CASE publish_socket
  BY <1>3, FewerPending DEF Shrinks, publish_socket, server
<1>4. CASE drain
  <2>1. UNCHANGED <<wire, dispatched, enqueued>>
    BY <1>4 DEF drain, ends, server
  <2>2. CASE queue' = queue /\ payload' = payload
    BY <2>1, <2>2, FewerPending DEF Shrinks
  <2>3. CASE queue # <<>> /\ payload' = Head(queue) /\ queue' = Tail(queue)
    <3>1. Range(queue) = {Head(queue)} \cup Range(Tail(queue))
      BY <2>3, RangeHeadTail DEF TypeOK
    <3>2. Pending' \subseteq Pending
      BY <2>1, <2>3, <3>1 DEF Pending
    <3> QED
      BY <2>1, <3>2 DEF Shrinks
  <2> QED
    BY <1>4, <2>2, <2>3 DEF drain
<1>5. CASE send_succeeds
  <2>0. UNCHANGED <<queue, dispatched, enqueued>> /\ payload' = None
    BY <1>5, SendWrites
  <2>1. CASE wire' = wire
    BY <2>0, <2>1, FewerPending DEF Shrinks
  <2>2. CASE wire' = [wire EXCEPT ![sock] = Append(@, payload)]
    <3>1. sock \in Conn /\ payload \in Frame
      BY <1>5, SendWrites
    <3>2. \A c \in Conn : wire'[c] = IF c = sock THEN Append(wire[sock], payload) ELSE wire[c]
      BY <2>2, <3>1 DEF TypeOK
    <3>3. Range(wire'[sock]) = Range(wire[sock]) \cup {payload}
      BY <3>1, <3>2, FramesAreNumbers, RangeAppend
    <3>4. ASSUME NEW f \in Pending' PROVE f \in Pending
      <4>1. f \in Range(queue) \/ \E c \in Conn : f \in Range(wire'[c])
        BY <2>0, <3>4 DEF Pending
      <4>2. f \in Range(queue) \/ f = payload \/ \E c \in Conn : f \in Range(wire[c])
        BY <3>2, <3>3, <4>1
      <4> QED
        BY <3>1, <4>2, PendingElement, FramesAreNumbers
    <3> QED
      BY <2>0, <3>4 DEF Shrinks
  <2> QED
    BY <1>5, <2>1, <2>2, SendWrites
<1>6. CASE send_fails
  BY <1>6, FewerPending DEF Shrinks, send_fails, ends
<1>7. CASE close
  BY <1>7, FewerPending DEF Shrinks, close, server
<1>8. CASE stop_close
  BY <1>8, FewerPending DEF Shrinks, stop_close, server
<1>9. CASE stop_drop
  BY <1>9, FewerPending, EmptyRange DEF Shrinks, stop_drop, thread, ends, server
<1>10. CASE server_stops
  <2>1. \A c \in Conn : Range(wire'[c]) = {}
    BY <1>10, EmptyRange DEF server_stops
  <2> QED
    BY <1>10, <2>1, FewerPending DEF Shrinks, server_stops, thread
<1>11. ASSUME NEW c \in Conn, server_reads(c) PROVE \E f \in Frame : Arrives(f)
  <2> DEFINE f == Head(wire[c])
  <2>1. /\ wire[c] # <<>> /\ UNCHANGED <<queue, payload, enqueued>>
        /\ \A d \in Conn : wire'[d] = IF d = c THEN Tail(wire[c]) ELSE wire[d]
        /\ dispatched' = Append(dispatched, f)
    BY <1>11 DEF TypeOK, server_reads, thread
  <2>2. /\ f \in Frame /\ Range(wire[c]) = {f} \cup Range(Tail(wire[c]))
        /\ \A g \in Range(Tail(wire[c])) : f < g
    BY <2>1, FramesAreNumbers, RangeHeadTail, IncreasingTail, HeadTailProperties
    DEF Ordered, WiresOrdered, Increasing
  <2>3. Range(dispatched') = Range(dispatched) \cup {f}
    BY <2>1, <2>2, RangeAppend DEF TypeOK
  <2> HIDE DEF f
  <2>4. f \in Pending
    BY <2>2, PendingElement
  <2>5. f \notin Range(queue) /\ f # payload
    <3>1. f \in Nat /\ f # None /\ f \in Range(wire[c])
      BY <2>2, FramesAreNumbers
    <3>2. \A g \in Range(queue) : f < g
      BY <3>1 DEF Ordered
    <3>3. payload # None => f < payload
      BY <3>1 DEF Ordered
    <3> QED
      BY <3>1, <3>2, <3>3
  <2>6. \A d \in Conn : Range(wire'[d]) = Range(wire[d]) \ {f}
    <3>1. ASSUME NEW d \in Conn PROVE Range(wire'[d]) = Range(wire[d]) \ {f}
      <4>1. CASE d = c
        BY <2>1, <2>2, <4>1, FramesAreNumbers
      <4>2. CASE d # c
        <5>1. f \notin Range(wire[d])
          <6>1. f \in Nat /\ f \in Range(wire[c]) /\ (c < d \/ d < c)
            BY <2>2, <4>2, FramesAreNumbers DEF Conn
          <6>2. \A g \in Range(wire[d]) : f < g \/ g < f
            BY <6>1 DEF Ordered, WiresOrdered
          <6> QED
            BY <6>1, <6>2
        <5> QED
          BY <2>1, <4>2, <5>1
      <4> QED
        BY <4>1, <4>2
    <3> QED
      BY <3>1
  <2>7. Pending' = Pending \ {f}
    <3>1. ASSUME NEW g PROVE g \in Pending' <=> g \in Pending /\ g # f
      <4>1. g \in Pending' <=> \/ g \in Range(queue)
                               \/ g = payload /\ g # None
                               \/ \E d \in Conn : g \in Range(wire'[d])
        BY <2>1 DEF Pending
      <4> QED
        BY <2>5, <2>6, <4>1, PendingElement
    <3> QED
      BY <3>1
  <2> QED
    BY <2>1, <2>2, <2>3, <2>4, <2>7 DEF Arrives
<1>12. ASSUME NEW c \in Conn, server_eof(c) PROVE Shrinks
  BY <1>12, FewerPending DEF Shrinks, server_eof, thread, server
<1>13. CASE UNCHANGED data
  BY <1>13, FewerPending DEF Shrinks, data, ends
<1> QED
  BY <1>1, <1>2, <1>3, <1>4, <1>5, <1>6, <1>7, <1>8, <1>9, <1>10, <1>11, <1>12,
     <1>13, StepKinds

\* Every step keeps what was enqueued, is on its way and was dispatched apart.
LEMMA OnceStep ==
  ASSUME TypeOK, Control, Ordered, Once, [Next]_vars
  PROVE  Once'
<1>0. enqueued \in Nat
  BY DEF TypeOK
<1>1. CASE Enters
  BY <1>0, <1>1 DEF Enters, Once
<1>2. CASE Shrinks
  BY <1>2 DEF Shrinks, Once
<1>3. ASSUME NEW f \in Frame, Arrives(f) PROVE Once'
  BY <1>3 DEF Arrives, Once
<1> QED
  BY <1>1, <1>2, <1>3, FramesMove

-----------------------------------------------------------------------------
\* The inductive invariant of the worker.
IInv == TypeOK /\ Control /\ Ends /\ Carried /\ Ordered /\ Once

\* The invariant holds in every reachable state.
THEOREM Inductive == Spec => []IInv
<1>1. Init => IInv
  <2> SUFFICES ASSUME Init PROVE IInv
    OBVIOUS
  <2>1. TypeOK
    BY InitTyped
  <2>2. Control /\ Ends
    BY DEF Init, Control, Ends, None, Conn
  <2>3. \A c \in Conn : wire[c] = <<>> /\ Range(wire[c]) = {}
    BY EmptyRange DEF Init
  <2>4. Carried
    BY <2>3 DEF Init, Carried, None
  <2>5. Increasing(queue) /\ Range(queue) = {} /\ Range(dispatched) = {}
    BY EmptyRange DEF Init
  <2>6. Ordered
    BY <2>3, <2>5 DEF Init, Ordered, WiresOrdered, Increasing
  <2>7. Pending = {}
    BY <2>3, <2>5, PendingElement DEF Init
  <2> QED
    BY <2>1, <2>2, <2>4, <2>5, <2>6, <2>7 DEF IInv, Once
<1>2. IInv /\ [Next]_vars => IInv'
  BY TypeStep, ControlStep, EndsStep, CarriedStep, OrderedStep, OnceStep DEF IInv
<1> QED
  BY <1>1, <1>2, PTL DEF Spec

\* A connection never carries frames out of order, and no frame is on two
\* connections, across every failure, reconnect and stop().
THEOREM NeverReordered == Spec => []WiresOrdered
<1>1. IInv => WiresOrdered
  BY DEF IInv, Ordered
<1> QED
  BY <1>1, Inductive, PTL

\* The worker implements the abstract link: a frame given to send_json is
\* dispatched at most once at the other end or is lost for good, and nothing is
\* dispatched that was not sent.
THEOREM Refinement == Spec => ImplementsLink
<1> USE DEF L!linkVars
<1>1. Init => L!Init
  <2> SUFFICES ASSUME Init PROVE L!Init
    OBVIOUS
  <2>1. Range(queue) = {} /\ Range(dispatched) = {} /\ \A c \in Conn : Range(wire[c]) = {}
    BY EmptyRange DEF Init
  <2>2. Pending = {}
    BY <2>1, PendingElement DEF Init
  <2> QED
    BY <2>1, <2>2 DEF L!Init, Init
<1>2. IInv /\ [Next]_vars => [L!Next]_(L!linkVars)
  <2> SUFFICES ASSUME IInv, [Next]_vars PROVE [L!Next]_(L!linkVars)
    OBVIOUS
  <2>0. TypeOK /\ Control /\ Ordered /\ Once /\ enqueued \in Nat /\ MaxFrames \in Nat
    BY PeerWorkerAssumption DEF IInv, TypeOK
  <2>1. CASE Enters
    <3>1. enqueued + 1 \in Frame
      BY <2>0, <2>1 DEF Enters, Frame
    <3>2. L!Send(enqueued + 1)
      BY <2>0, <2>1 DEF Enters, L!Send, Once
    <3> QED
      BY <3>1, <3>2 DEF L!Next
  <2>2. CASE Shrinks
    <3>1. Pending \ Pending' \in SUBSET Frame
      BY <2>0, PendingFrames
    <3>2. L!Lose(Pending \ Pending')
      BY <2>0, <2>2 DEF Shrinks, L!Lose, Once
    <3> QED
      BY <3>1, <3>2 DEF L!Next
  <2>3. ASSUME NEW f \in Frame, Arrives(f) PROVE L!Next
    <3>1. L!Deliver(f)
      BY <2>0, <2>3 DEF Arrives, L!Deliver, Once
    <3> QED
      BY <3>1 DEF L!Next
  <2> QED
    BY <2>0, <2>1, <2>2, <2>3, FramesMove
<1> QED
  BY <1>1, <1>2, Inductive, PTL DEF Spec, ImplementsLink, L!Spec

-----------------------------------------------------------------------------
\* As long as a step does not break the connection, it was not broken before,
\* and nothing is closed.
LEMMA UnbrokenStep ==
  ASSUME TypeOK, Control, Ends, Unbroken, [Next]_vars
  PROVE  Unbroken' /\ (~broken' => ~broken)
<1> USE DEF None
<1>1. CASE enqueue
  BY <1>1 DEF Unbroken, enqueue, thread, ends
<1>2. CASE top
  BY <1>2 DEF Unbroken, top, Goto, ends
<1>3. CASE connect_fails
  BY <1>3 DEF Unbroken, connect_fails, Goto, ends
<1>4. CASE connect_succeeds
  BY <1>4 DEF TypeOK, Unbroken, connect_succeeds, Goto
<1>5. CASE publish_socket
  BY <1>5 DEF Unbroken, Control, publish_socket, Goto
<1>6. CASE sleep_backoff
  BY <1>6 DEF Unbroken, sleep_backoff, Goto, ends
<1>7. CASE drain
  BY <1>7 DEF Unbroken, drain, Goto, ends
<1>8. CASE send_succeeds
  BY <1>8 DEF Unbroken, send_succeeds, Goto
<1>9. CASE send_fails
  BY <1>9 DEF Unbroken, send_fails
<1>10. CASE detect_server_closed
  <2>1. UNCHANGED <<sock, stop_flag, broken, client_end, server_end>>
    BY <1>10 DEF detect_server_closed, ends
  <2>2. ASSUME ~broken PROVE Healthy(sock)
    BY <1>10, <2>2 DEF TypeOK, Unbroken, Ends, Healthy, detect_server_closed, Goto
  <2> QED
    BY <1>10, <2>1, <2>2 DEF Unbroken, detect_server_closed, Goto
<1>11. CASE sleep_idle
  BY <1>11 DEF Unbroken, sleep_idle, Goto, ends
<1>12. CASE close
  BY <1>12 DEF Unbroken, close, Goto
<1>13. CASE stop_request
  BY <1>13 DEF Unbroken, stop_request
<1>14. CASE stop_close
  BY <1>14 DEF Unbroken, Control, stop_close
<1>15. CASE stop_join
  BY <1>15 DEF Unbroken, stop_join, thread, ends
<1>16. CASE stop_drop
  BY <1>16 DEF Unbroken, stop_drop, thread, ends
<1>17. CASE server_starts
  BY <1>17 DEF Unbroken, server_starts, thread, ends
<1>18. CASE server_stops
  BY <1>18 DEF Unbroken, server_stops
<1>19. ASSUME NEW c \in Conn, server_reads(c)
       PROVE  Unbroken' /\ (~broken' => ~broken)
  BY <1>19 DEF Unbroken, server_reads, thread
<1>20. ASSUME NEW c \in Conn, server_eof(c)
       PROVE  Unbroken' /\ (~broken' => ~broken)
  BY <1>20 DEF Unbroken, server_eof
<1>21. CASE UNCHANGED vars
  BY <1>21 DEF Unbroken, vars, thread, ends
<1> QED
  BY <1>1, <1>2, <1>3, <1>4, <1>5, <1>6, <1>7, <1>8, <1>9, <1>10, <1>11, <1>12,
     <1>13, <1>14, <1>15, <1>16, <1>17, <1>18, <1>19, <1>20, <1>21
  DEF Next, run, stop

\* The frames on the wire of the published connection, and the one held.
Wired == IF sock = None THEN <<>> ELSE wire[sock]
Held == IF payload = None THEN <<>> ELSE <<payload>>

\* The frames enqueued so far.
Numbers(n) == [i \in 1..n |-> i]

\* The parts of the sequence of all frames are sequences of frames.
LEMMA PartsAreSequences ==
  ASSUME TypeOK
  PROVE  dispatched \in Seq(Frame) /\ Wired \in Seq(Frame) /\ Held \in Seq(Frame)
         /\ queue \in Seq(Frame)
<1>1. <<>> \in Seq(Frame)
  BY EmptySeq
<1> QED
  BY <1>1 DEF TypeOK, Wired, Held

\* Enqueuing continues the sequence of numbers.
LEMMA NumbersAppend ==
  ASSUME NEW n \in Nat
  PROVE  Numbers(n + 1) = Append(Numbers(n), n + 1)
<1>1. Numbers(n) \in Seq(Nat) /\ Len(Numbers(n)) = n
  BY DEF Numbers
<1>2. Numbers(n + 1) \in Seq(Nat) /\ Len(Numbers(n + 1)) = n + 1
  BY DEF Numbers
<1>3. /\ Append(Numbers(n), n + 1) \in Seq(Nat)
      /\ Len(Append(Numbers(n), n + 1)) = n + 1
      /\ \A i \in 1..n : Append(Numbers(n), n + 1)[i] = Numbers(n)[i]
      /\ Append(Numbers(n), n + 1)[n + 1] = n + 1
  BY <1>1, AppendProperties
<1>4. \A i \in 1..(n + 1) : Numbers(n + 1)[i] = Append(Numbers(n), n + 1)[i]
  BY <1>3 DEF Numbers
<1> QED
  BY <1>2, <1>3, <1>4, SeqEqual

\* A sequence is its head followed by its tail.
LEMMA HeadThenTail ==
  ASSUME NEW S, NEW s \in Seq(S), s # <<>>
  PROVE  Head(s) \in S /\ Tail(s) \in Seq(S) /\ <<Head(s)>> \o Tail(s) = s
<1>1. Head(s) \in S /\ Tail(s) \in Seq(S) /\ Len(Tail(s)) = Len(s) - 1
      /\ \A i \in 1..Len(Tail(s)) : Tail(s)[i] = s[i + 1]
  BY HeadTailProperties
<1>2. <<Head(s)>> \in Seq(S) /\ Len(<<Head(s)>>) = 1 /\ <<Head(s)>>[1] = s[1]
  BY <1>1
<1>3. Len(s) \in Nat
  BY LenProperties
<1>4. /\ <<Head(s)>> \o Tail(s) \in Seq(S)
      /\ Len(<<Head(s)>> \o Tail(s)) = 1 + Len(Tail(s))
      /\ \A i \in 1..1 + Len(Tail(s)) :
            (<<Head(s)>> \o Tail(s))[i] = IF i <= 1 THEN <<Head(s)>>[i] ELSE Tail(s)[i - 1]
  BY <1>1, <1>2, ConcatProperties
<1>5. ASSUME NEW i \in 1..Len(s) PROVE (<<Head(s)>> \o Tail(s))[i] = s[i]
  <2>1. CASE i = 1
    BY <1>1, <1>2, <1>3, <1>4, <2>1
  <2>2. CASE i # 1
    <3>1. i - 1 \in 1..Len(Tail(s)) /\ Tail(s)[i - 1] = s[i]
      BY <1>1, <1>3, <2>2
    <3> QED
      BY <1>1, <1>3, <1>4, <2>2, <3>1
  <2> QED
    BY <2>1, <2>2
<1> QED
  BY <1>1, <1>3, <1>4, <1>5, SeqEqual

\* Moving the element where two sequences meet from one to the other does not
\* change their concatenation.
LEMMA MoveElement ==
  ASSUME NEW S, NEW s \in Seq(S), NEW t \in Seq(S), t # <<>>
  PROVE  Append(s, Head(t)) \o Tail(t) = s \o t
<1> DEFINE h == <<Head(t)>>
<1>1. Head(t) \in S /\ h \in Seq(S) /\ Tail(t) \in Seq(S) /\ h \o Tail(t) = t
  BY HeadThenTail
<1>2. Append(s, Head(t)) = s \o h
  BY <1>1, AppendIsConcat
<1> HIDE DEF h
<1>3. (s \o h) \o Tail(t) = s \o (h \o Tail(t))
  BY <1>1, ConcatAssociative
<1> QED
  BY <1>1, <1>2, <1>3

\* Appending to the last of two sequences appends to their concatenation.
LEMMA AppendLast ==
  ASSUME NEW S, NEW s \in Seq(S), NEW t \in Seq(S), NEW e \in S
  PROVE  s \o Append(t, e) = Append(s \o t, e)
<1> DEFINE u == <<e>>
<1>1. u \in Seq(S) /\ s \o t \in Seq(S)
  BY ConcatProperties
<1>2. Append(t, e) = t \o u /\ Append(s \o t, e) = (s \o t) \o u
  BY <1>1, AppendIsConcat
<1> HIDE DEF u
<1> QED
  BY <1>1, <1>2, ConcatAssociative

\* All frames: dispatched, on the wire, held by the thread, queued.
All == ((dispatched \o Wired) \o Held) \o queue

\* No step that leaves the connection unbroken loses, repeats or reorders a frame.
LEMMA NothingMissingStep ==
  ASSUME IInv, Unbroken, NothingMissing, [Next]_vars
  PROVE  NothingMissing'
<1> USE DEF None
<1> SUFFICES ASSUME ~broken' PROVE All' = Numbers(enqueued)'
  BY DEF NothingMissing, All, Wired, Held, Numbers
<1>0. TypeOK /\ Control /\ Ends /\ Carried
  BY DEF IInv
<1>a. ~broken
  BY <1>0, UnbrokenStep
<1>b. All = Numbers(enqueued) /\ enqueued \in Nat
  <2>1. enqueued \in Nat
    BY <1>0 DEF TypeOK
  <2> QED
    BY <1>a, <2>1 DEF NothingMissing, All, Wired, Held, Numbers
<1>c. dispatched \in Seq(Frame) /\ Wired \in Seq(Frame) /\ Held \in Seq(Frame) /\ queue \in Seq(Frame)
  BY <1>0, PartsAreSequences
<1>d. dispatched \o Wired \in Seq(Frame) /\ (dispatched \o Wired) \o Held \in Seq(Frame)
  BY <1>c, ConcatProperties
<1>1. CASE enqueue
  <2>1. /\ UNCHANGED <<dispatched, payload, sock, wire>> /\ enqueued' = enqueued + 1
        /\ queue' = Append(queue, enqueued + 1)
    BY <1>1 DEF enqueue, thread, ends, server
  <2>2. Wired' = Wired /\ Held' = Held
    BY <2>1 DEF Wired, Held
  <2>3. enqueued + 1 \in Frame
    BY <1>0, <1>1, PeerWorkerAssumption DEF enqueue, TypeOK, Frame
  <2>4. All' = Append(All, enqueued + 1)
    BY <1>c, <1>d, <2>1, <2>2, <2>3, AppendLast DEF All
  <2> QED
    BY <1>b, <2>1, <2>4, NumbersAppend
<1>2. CASE connect_succeeds
  BY <1>2, <1>b DEF All, Wired, Held, connect_succeeds, server
<1>3. CASE publish_socket
  <2>1. /\ sock = None /\ fresh \in Conn /\ wire[fresh] = <<>> /\ sock' = fresh
        /\ UNCHANGED <<queue, payload, wire, dispatched, enqueued>>
    BY <1>0, <1>3, <1>a DEF publish_socket, TypeOK, Control, Carried, Unbroken, Goto, server
  <2>2. Wired' = Wired /\ Held' = Held
    BY <2>1 DEF Wired, Held, Conn
  <2> QED
    BY <1>b, <2>1, <2>2 DEF All
<1>4. CASE drain
  <2>0. UNCHANGED <<sock, wire, dispatched, enqueued>> /\ payload = None
    BY <1>0, <1>4 DEF drain, ends, server, Control, Goto
  <2>1. Wired' = Wired
    BY <2>0 DEF Wired
  <2>2. CASE queue' = queue /\ payload' = payload
    BY <1>b, <2>0, <2>1, <2>2 DEF All, Held
  <2>3. CASE queue # <<>> /\ payload' = Head(queue) /\ queue' = Tail(queue)
    <3>1. Head(queue) \in Frame
      BY <1>c, <2>3, HeadTailProperties
    <3>2. Held = <<>> /\ Held' = <<Head(queue)>>
      BY <2>0, <2>3, <3>1 DEF Held, Frame
    <3>3. (dispatched \o Wired) \o <<Head(queue)>> = Append(dispatched \o Wired, Head(queue))
      BY <1>d, <3>1, AppendIsConcat
    <3>4. Append(dispatched \o Wired, Head(queue)) \o Tail(queue) = (dispatched \o Wired) \o queue
      BY <1>c, <1>d, <2>3, MoveElement
    <3>5. (dispatched \o Wired) \o <<>> = dispatched \o Wired
      BY <1>d, ConcatEmptySeq
    <3> QED
      BY <1>b, <2>0, <2>1, <2>3, <3>2, <3>3, <3>4, <3>5 DEF All
  <2> QED
    BY <1>4, <2>2, <2>3 DEF drain
<1>5. CASE send_succeeds
  <2>1. /\ sock \in Conn /\ payload \in Frame /\ payload' = None
        /\ UNCHANGED <<queue, sock, dispatched, enqueued>>
    BY <1>0, <1>5, SendWrites
  <2>2. server_end[sock] = "open"
    BY <1>0, <1>5, <1>a, <2>1 DEF TypeOK, Ends, Unbroken, send_succeeds
  <2>3. wire' = [wire EXCEPT ![sock] = Append(@, payload)]
    BY <1>0, <1>5, <2>2, SendWrites
  <2>4. /\ Held = <<payload>> /\ Held' = <<>>
        /\ Wired' = Append(Wired, payload)
    BY <1>0, <2>1, <2>3 DEF TypeOK, Held, Wired, Frame, Conn
  <2>5. dispatched \o Append(Wired, payload) = Append(dispatched \o Wired, payload)
    BY <1>c, <2>1, AppendLast
  <2>6. (dispatched \o Wired) \o <<payload>> = Append(dispatched \o Wired, payload)
    BY <1>d, <2>1, AppendIsConcat
  <2>7. Append(dispatched \o Wired, payload) \o <<>> = Append(dispatched \o Wired, payload)
    BY <1>d, <2>1, AppendProperties, ConcatEmptySeq
  <2> QED
    BY <1>b, <2>1, <2>4, <2>5, <2>6, <2>7 DEF All
<1>6. CASE send_fails
  BY <1>6 DEF send_fails
<1>7. CASE close
  BY <1>7, <1>a DEF Unbroken, close, Goto
<1>8. CASE stop_close
  BY <1>0, <1>8, <1>a DEF Unbroken, Control, stop_close
<1>9. CASE stop_drop
  BY <1>0, <1>9, <1>a DEF Unbroken, Control, stop_drop
<1>10. CASE server_stops
  BY <1>10 DEF server_stops
<1>11. ASSUME NEW c \in Conn, server_reads(c) PROVE All' = Numbers(enqueued)'
  <2>1. /\ wire[c] # <<>> /\ UNCHANGED <<queue, payload, sock, enqueued>>
        /\ wire' = [wire EXCEPT ![c] = Tail(@)]
        /\ dispatched' = Append(dispatched, Head(wire[c]))
    BY <1>11 DEF server_reads, thread
  <2>2. c = sock
    <3>1. server_end[c] = "open" /\ client_end[c] \in {"new", "open", "closed"}
      BY <1>0, <1>11 DEF TypeOK, server_reads
    <3>2. client_end[c] = "open"
      BY <1>0, <1>a, <3>1 DEF Ends, Unbroken
    <3>3. c \in {sock, fresh} /\ c # None
      BY <1>0, <3>2 DEF Ends, Conn
    <3> QED
      BY <1>0, <2>1, <3>3 DEF Carried
  <2>3. Held' = Held /\ Wired = wire[c] /\ Wired' = Tail(wire[c])
    BY <1>0, <2>1, <2>2 DEF TypeOK, Held, Wired, Conn
  <2>4. Append(dispatched, Head(Wired)) \o Tail(Wired) = dispatched \o Wired
    BY <1>c, <2>1, <2>3, MoveElement
  <2> QED
    BY <1>b, <2>1, <2>3, <2>4 DEF All
<1>12. ASSUME NEW c \in Conn, server_eof(c) PROVE All' = Numbers(enqueued)'
  BY <1>12, <1>a DEF Unbroken, server_eof
<1>13. CASE UNCHANGED data
  BY <1>13, <1>b DEF All, Wired, Held, data, ends
<1> QED
  BY <1>1, <1>2, <1>3, <1>4, <1>5, <1>6, <1>7, <1>8, <1>9, <1>10, <1>11, <1>12,
     <1>13, StepKinds

\* As long as no connection failed and nobody called stop(), what was
\* dispatched, is on the wire, is held by the thread and is queued are together
\* all the frames given to send_json, in order.
THEOREM NothingLost == Spec => []NothingMissing
<1>1. Init => Unbroken /\ NothingMissing
  <2> SUFFICES ASSUME Init PROVE Unbroken /\ NothingMissing
    OBVIOUS
  <2>1. Unbroken
    BY DEF Init, Unbroken
  <2>2. [i \in 1..0 |-> i] = <<>>
    OBVIOUS
  <2>3. ((<<>> \o <<>>) \o <<>>) \o <<>> = <<>>
    OBVIOUS
  <2> QED
    BY <2>1, <2>2, <2>3 DEF Init, NothingMissing
<1>2. IInv /\ Unbroken /\ NothingMissing /\ [Next]_vars => Unbroken' /\ NothingMissing'
  BY UnbrokenStep, NothingMissingStep DEF IInv
<1> QED
  BY <1>1, <1>2, Inductive, PTL DEF Spec
=============================================================================
