-------------------------- MODULE TcpServer_proofs --------------------------
(***************************************************************************)
(* Proofs about TcpServer, for every set of connections, every frames that *)
(* clients may send and every number of starts.                            *)
(***************************************************************************)
EXTENDS TcpServer, SequenceTheorems, TLAPS

\* A connection thread that has not ended, and one that may still read.
Alive(c) == thread[c] \notin {"none", "done"}
Reading(c) == thread[c] \in {"read", "dispatch"}

\* start() and stop() run one after the other: what the owner's flags are and
\* whether there is an accept thread follows from how far they are.
Phases ==
  /\ listening <=> owner \in {"running", "close_listen"}
  /\ owner = "running" => ~stop_event
  /\ owner \notin {"stopped", "running"} => stop_event
  /\ acceptor = "none" <=> owner \in {"stopped", "list_threads", "join", "clear"}

\* A connection passes through the listen queue, the accept thread's hands and
\* its own thread, which does not end before it has closed it; one accepted
\* under an earlier start() is closed.
Life ==
  \A c \in Conns :
     /\ sock[c] = "backlog" => listening
     /\ (sock[c] \in {"none", "backlog"} \/ held = c) => thread[c] = "none"
     /\ sock[c] \in {"none", "backlog"} => held # c /\ c \notin conn_threads
     /\ sock[c] = "open" =>
           /\ held = c \/ thread[c] \notin {"none", "untrack", "done"}
           /\ born[c] = starts
     /\ c \in late => sock[c] = "closed"

\* A thread is tracked from before it starts until it ends, or it is one that
\* stop() gave up on; its connection is tracked, or closed.
Tracked ==
  /\ acceptor \in {"thread", "spawn"} => held \in connections
  /\ acceptor = "spawn" => held \in conn_threads
  /\ \A c \in Conns :
        /\ Alive(c) => c \in conn_threads \cup late
        /\ c \in conn_threads => thread[c] # "none" \/ held = c
        /\ thread[c] \in {"loop", "read", "dispatch", "finally"}
              => c \in connections \/ sock[c] = "closed"

\* What stop() has achieved at each of its stages: every connection that a
\* thread may still read from is in its copy, then closed; every thread is in
\* its second copy, then ended or late.
Stops ==
  \A c \in Conns :
     /\ owner = "close_conns" /\ Reading(c) => c \in snap \/ sock[c] = "closed"
     /\ owner \in {"join_accept", "list_threads", "join"} /\ Reading(c)
           => sock[c] = "closed"
     /\ owner = "join" /\ Alive(c) => c \in snap \cup late
     /\ owner = "join" /\ c \in snap => thread[c] # "none"
     /\ owner \in {"clear", "stopped"} /\ Alive(c) => c \in late

-----------------------------------------------------------------------------
\* When stop() has returned no socket of the server is open and no thread runs
\* but one it gave up on.
LEMMA StoppedIsClosed ==
  ASSUME TypeOK, Phases, Life, Stops
  PROVE  NothingLeft
<1> SUFFICES ASSUME owner = "stopped", NEW c \in Conns
             PROVE  /\ acceptor = "none" /\ ~listening
                    /\ sock[c] \in {"none", "closed"}
                    /\ thread[c] \in {"none", "done"} \/ c \in late
  BY DEF NothingLeft, Phases
<1>1. acceptor = "none" /\ ~listening /\ held # c
  BY TcpServerAssumption DEF Phases, TypeOK
<1>2. Alive(c) => c \in late
  BY DEF Stops
<1>3. sock[c] \notin {"backlog", "open"}
  BY <1>1, <1>2 DEF Life, Alive
<1> QED
  BY <1>1, <1>2, <1>3 DEF TypeOK, Alive

\* Closing ends gives closed ends, and reads nothing.
LEMMA CloseEndsTypes ==
  ASSUME TypeOK, NEW S, CloseEnds(S)
  PROVE  /\ sock' \in [Conns -> {"none", "backlog", "open", "closed"}]
         /\ inbox' \in [Conns -> Seq(Kinds)]
<1>1. <<>> \in Seq(Kinds)
  BY EmptySeq
<1> QED
  BY <1>1 DEF TypeOK, CloseEnds

\* What a read does to the thread and to what was sent.
LEMMA ReadEffect ==
  ASSUME TypeOK, NEW c \in Conns, read_frame(c)
  PROVE  /\ thread[c] = "read" /\ sock[c] = "open"
         /\ \E t \in {"loop", "dispatch", "finally"} : thread' = [thread EXCEPT ![c] = t]
         /\ inbox' \in [Conns -> Seq(Kinds)]
<1>1. Head(inbox[c]) \in Kinds /\ Tail(inbox[c]) \in Seq(Kinds)
  BY HeadTailProperties DEF TypeOK, read_frame
<1>2. CASE Head(inbox[c]) = "good"
  BY <1>1, <1>2 DEF TypeOK, read_frame, ThreadGoto
<1>3. CASE Head(inbox[c]) = "bad"
  BY <1>1, <1>3 DEF TypeOK, read_frame, ThreadGoto
<1>4. CASE Head(inbox[c]) = "huge"
  BY <1>1, <1>4 DEF TypeOK, read_frame, ThreadGoto
<1> QED
  BY <1>1, <1>2, <1>3, <1>4 DEF Kinds

\* Every step keeps the types, and a connection in hand between accept() and
\* the start of its thread.
LEMMA TypeStep ==
  ASSUME TypeOK, Phases, [Next]_vars
  PROVE  TypeOK'
<1> USE TcpServerAssumption
<1>1. CASE start
  <2>1. held = NoConn /\ held' = NoConn /\ acceptor' = "check"
    BY <1>1 DEF TypeOK, Phases, start
  <2>2. starts' \in 0..MaxStarts
    BY <1>1 DEF TypeOK, start
  <2> QED
    BY <1>1, <2>1, <2>2 DEF TypeOK, start, tracking, client
<1>2. CASE stop_set
  BY <1>2 DEF TypeOK, stop_set, OwnerGoto, owning, tracking, client
<1>3. CASE stop_close_listening
  BY <1>3, CloseEndsTypes DEF TypeOK, stop_close_listening, OwnerGoto, tracking
<1>4. CASE stop_snapshot
  BY <1>4 DEF TypeOK, stop_snapshot, OwnerGoto, owning, tracking, client
<1>5. CASE stop_close_conns
  <2>1. /\ sock' \in [Conns -> {"none", "backlog", "open", "closed"}]
        /\ inbox' \in [Conns -> Seq(Kinds)] /\ snap' \subseteq snap
    BY <1>5, CloseEndsTypes DEF TypeOK, stop_close_conns
  <2> QED
    BY <1>5, <2>1 DEF TypeOK, stop_close_conns, OwnerGoto, tracking
<1>6. CASE stop_join_accept
  BY <1>6 DEF TypeOK, stop_join_accept, OwnerGoto, owning, tracking, client
<1>7. CASE stop_list_threads
  BY <1>7 DEF TypeOK, stop_list_threads, OwnerGoto, owning, tracking, client
<1>8. CASE stop_join
  BY <1>8 DEF TypeOK, stop_join, OwnerGoto, owning, tracking, client
<1>9. CASE stop_clear
  BY <1>9 DEF TypeOK, stop_clear, OwnerGoto, owning, tracking, client
<1>10. CASE accept_check
  BY <1>10 DEF TypeOK, accept_check, AcceptGoto, owning, tracking, client
<1>11. CASE accept_timeout
  BY <1>11 DEF TypeOK, accept_timeout, AcceptGoto, owning, tracking, client
<1>12. CASE accept_closed
  BY <1>12 DEF TypeOK, accept_closed, AcceptGoto, owning, tracking, client
<1>13. CASE track_conn
  BY <1>13 DEF TypeOK, track_conn, AcceptGoto, owning, tracking, client
<1>14. CASE track_thread
  BY <1>14 DEF TypeOK, track_thread, AcceptGoto, owning, tracking, client
<1>15. CASE spawn
  BY <1>15 DEF TypeOK, spawn, AcceptGoto, owning, tracking, client
<1>16. ASSUME NEW c \in Conns, accept_conn(c) PROVE TypeOK'
  BY <1>16 DEF TypeOK, accept_conn, AcceptGoto, owning, tracking, client
<1>17. ASSUME NEW c \in Conns, loop(c) PROVE TypeOK'
  BY <1>17 DEF TypeOK, loop, ThreadGoto, owning, tracking, client
<1>18. ASSUME NEW c \in Conns, read_frame(c) PROVE TypeOK'
  <2>1. thread' \in [Conns -> {"none", "loop", "read", "dispatch", "finally", "close",
                              "untrack", "done"}]
    BY <1>18, ReadEffect DEF TypeOK
  <2> QED
    BY <1>18, <2>1, ReadEffect DEF TypeOK, read_frame, ThreadGoto, owning, tracking
<1>19. ASSUME NEW c \in Conns, read_nothing(c) PROVE TypeOK'
  BY <1>19 DEF TypeOK, read_nothing, ThreadGoto, owning, tracking, client
<1>20. ASSUME NEW c \in Conns, dispatched(c) PROVE TypeOK'
  BY <1>20 DEF TypeOK, dispatched, ThreadGoto, owning, tracking, client
<1>21. ASSUME NEW c \in Conns, untrack_conn(c) PROVE TypeOK'
  BY <1>21 DEF TypeOK, untrack_conn, ThreadGoto, owning, tracking, client
<1>22. ASSUME NEW c \in Conns, close_conn(c) PROVE TypeOK'
  BY <1>22, CloseEndsTypes DEF TypeOK, close_conn, ThreadGoto, owning, tracking
<1>23. ASSUME NEW c \in Conns, untrack_thread(c) PROVE TypeOK'
  BY <1>23 DEF TypeOK, untrack_thread, ThreadGoto, owning, tracking, client
<1>24. ASSUME NEW c \in Conns, connect(c) PROVE TypeOK'
  BY <1>24 DEF TypeOK, connect, owning, tracking, client
<1>25. ASSUME NEW c \in Conns, hang_up(c) PROVE TypeOK'
  BY <1>25 DEF TypeOK, hang_up, owning, tracking, client
<1>26. ASSUME NEW c \in Conns, NEW i \in DOMAIN Frames, send(c, Frames[i]) PROVE TypeOK'
  <2>1. outcome(Frames[i]) \in Kinds
    BY DEF outcome, Kinds
  <2>2. Append(inbox[c], outcome(Frames[i])) \in Seq(Kinds)
    BY <2>1, AppendProperties DEF TypeOK
  <2>3. inbox' \in [Conns -> Seq(Kinds)] /\ sent' \in 0..MaxFrames
    BY <1>26, <2>2 DEF TypeOK, send
  <2> QED
    BY <1>26, <2>3 DEF TypeOK, send, owning, tracking
<1>27. CASE UNCHANGED vars
  BY <1>27 DEF TypeOK, vars, owning, tracking, client
<1>28. CASE start_fails
  BY <1>28 DEF TypeOK, start_fails, owning, tracking, client
<1> QED
  BY <1>1, <1>2, <1>3, <1>4, <1>5, <1>6, <1>7, <1>8, <1>9, <1>10, <1>11, <1>12,
     <1>13, <1>14, <1>15, <1>16, <1>17, <1>18, <1>19, <1>20, <1>21, <1>22, <1>23,
     <1>24, <1>25, <1>26, <1>27, <1>28
  DEF Next, stop, accept_loop, connection_loop

\* Every step keeps flags and accept thread in step with the owner.
LEMMA PhasesStep ==
  ASSUME TypeOK, Phases, [Next]_vars
  PROVE  Phases'
<1>1. CASE start
  BY <1>1 DEF Phases, start, owning, tracking, client
<1>2. CASE stop_set
  BY <1>2 DEF Phases, stop_set, OwnerGoto, owning, tracking, client
<1>3. CASE stop_close_listening
  BY <1>3 DEF Phases, stop_close_listening, OwnerGoto, CloseEnds, owning,
     tracking, client
<1>4. CASE stop_snapshot
  BY <1>4 DEF Phases, stop_snapshot, OwnerGoto, owning, tracking, client
<1>5. CASE stop_close_conns
  BY <1>5 DEF Phases, stop_close_conns, OwnerGoto, CloseEnds, owning, tracking,
     client
<1>6. CASE stop_join_accept
  BY <1>6 DEF Phases, stop_join_accept, OwnerGoto, owning, tracking, client
<1>7. CASE stop_list_threads
  BY <1>7 DEF Phases, stop_list_threads, OwnerGoto, owning, tracking, client
<1>8. CASE stop_join
  BY <1>8 DEF Phases, stop_join, OwnerGoto, owning, tracking, client
<1>9. CASE stop_clear
  BY <1>9 DEF Phases, stop_clear, OwnerGoto, owning, tracking, client
<1>10. CASE accept_check
  BY <1>10 DEF Phases, accept_check, AcceptGoto, owning, tracking, client
<1>11. CASE accept_timeout
  BY <1>11 DEF Phases, accept_timeout, AcceptGoto, owning, tracking, client
<1>12. CASE accept_closed
  BY <1>12 DEF Phases, accept_closed, AcceptGoto, owning, tracking, client
<1>13. CASE track_conn
  BY <1>13 DEF Phases, track_conn, AcceptGoto, owning, tracking, client
<1>14. CASE track_thread
  BY <1>14 DEF Phases, track_thread, AcceptGoto, owning, tracking, client
<1>15. CASE spawn
  BY <1>15 DEF Phases, spawn, AcceptGoto, owning, tracking, client
<1>16. ASSUME NEW c \in Conns, accept_conn(c) PROVE Phases'
  BY <1>16 DEF Phases, accept_conn, AcceptGoto, owning, tracking, client
<1>17. ASSUME NEW c \in Conns, loop(c) PROVE Phases'
  BY <1>17 DEF Phases, loop, ThreadGoto, owning, tracking, client
<1>18. ASSUME NEW c \in Conns, read_frame(c) PROVE Phases'
  BY <1>18 DEF Phases, read_frame, ThreadGoto, owning, tracking, client
<1>19. ASSUME NEW c \in Conns, read_nothing(c) PROVE Phases'
  BY <1>19 DEF Phases, read_nothing, ThreadGoto, owning, tracking, client
<1>20. ASSUME NEW c \in Conns, dispatched(c) PROVE Phases'
  BY <1>20 DEF Phases, dispatched, ThreadGoto, owning, tracking, client
<1>21. ASSUME NEW c \in Conns, untrack_conn(c) PROVE Phases'
  BY <1>21 DEF Phases, untrack_conn, ThreadGoto, owning, tracking, client
<1>22. ASSUME NEW c \in Conns, close_conn(c) PROVE Phases'
  BY <1>22 DEF Phases, close_conn, ThreadGoto, CloseEnds, owning, tracking, client
<1>23. ASSUME NEW c \in Conns, untrack_thread(c) PROVE Phases'
  BY <1>23 DEF Phases, untrack_thread, ThreadGoto, owning, tracking, client
<1>24. ASSUME NEW c \in Conns, connect(c) PROVE Phases'
  BY <1>24 DEF Phases, connect, owning, tracking, client
<1>25. ASSUME NEW c \in Conns, hang_up(c) PROVE Phases'
  BY <1>25 DEF Phases, hang_up, owning, tracking, client
<1>26. ASSUME NEW c \in Conns, NEW i \in DOMAIN Frames, send(c, Frames[i]) PROVE Phases'
  BY <1>26 DEF Phases, send, owning, tracking, client
<1>27. CASE UNCHANGED vars
  BY <1>27 DEF Phases, vars, owning, tracking, client
<1>28. CASE start_fails
  BY <1>28 DEF Phases, start_fails, owning, tracking, client
<1> QED
  BY <1>1, <1>2, <1>3, <1>4, <1>5, <1>6, <1>7, <1>8, <1>9, <1>10, <1>11, <1>12,
     <1>13, <1>14, <1>15, <1>16, <1>17, <1>18, <1>19, <1>20, <1>21, <1>22, <1>23,
     <1>24, <1>25, <1>26, <1>27, <1>28
  DEF Next, stop, accept_loop, connection_loop

\* Every step keeps the order of a connection's life.
LEMMA LifeStep ==
  ASSUME TypeOK, Phases, Life, Tracked, Stops, [Next]_vars
  PROVE  Life'
<1>1. CASE start
  <2>1. \A c \in Conns : sock[c] # "open"
    BY <1>1, StoppedIsClosed DEF NothingLeft, start
  <2> QED
    BY <1>1, <2>1 DEF Phases, Life, start, tracking
<1>2. CASE stop_set
  BY <1>2 DEF TypeOK, Phases, Life, Stops, Alive, stop_set, OwnerGoto, owning,
     tracking, client
<1>3. CASE stop_close_listening
  BY <1>3 DEF TypeOK, Phases, Life, Stops, Alive, stop_close_listening, OwnerGoto,
     CloseEnds, owning, tracking, client
<1>4. CASE stop_snapshot
  BY <1>4 DEF TypeOK, Phases, Life, Stops, Alive, stop_snapshot, OwnerGoto,
     owning, tracking, client
<1>5. CASE stop_close_conns
  BY <1>5 DEF TypeOK, Phases, Life, Stops, Alive, stop_close_conns, OwnerGoto,
     CloseEnds, owning, tracking, client
<1>6. CASE stop_join_accept
  BY <1>6 DEF TypeOK, Phases, Life, Stops, Alive, stop_join_accept, OwnerGoto,
     owning, tracking, client
<1>7. CASE stop_list_threads
  BY <1>7 DEF TypeOK, Phases, Life, Stops, Alive, stop_list_threads, OwnerGoto,
     owning, tracking, client
<1>8. CASE stop_join
  <2>1. \A c \in late' : c \in Conns => sock[c] = "closed"
    BY <1>8 DEF Life, Stops, Reading, stop_join, OwnerGoto
  <2> QED
    BY <1>8, <2>1 DEF Life, stop_join, tracking
<1>9. CASE stop_clear
  BY <1>9 DEF TypeOK, Phases, Life, Stops, Alive, stop_clear, OwnerGoto, owning,
     tracking, client
<1>10. CASE accept_check
  BY <1>10 DEF TypeOK, Phases, Life, Stops, Alive, accept_check, AcceptGoto,
     owning, tracking, client
<1>11. CASE accept_timeout
  BY <1>11 DEF TypeOK, Phases, Life, Stops, Alive, accept_timeout, AcceptGoto,
     owning, tracking, client
<1>12. CASE accept_closed
  BY <1>12 DEF TypeOK, Phases, Life, Stops, Alive, accept_closed, AcceptGoto,
     owning, tracking, client
<1>13. CASE track_conn
  BY <1>13 DEF TypeOK, Phases, Life, Stops, Alive, track_conn, AcceptGoto, owning,
     tracking, client
<1>14. CASE track_thread
  BY <1>14 DEF TypeOK, Phases, Life, Stops, Alive, track_thread, AcceptGoto,
     owning, tracking, client
<1>15. CASE spawn
  <2>1. held \in Conns /\ held' = NoConn
    BY <1>15 DEF TypeOK, spawn, AcceptGoto
  <2>2. /\ \A d \in Conns : thread'[d] = IF d = held THEN "loop" ELSE thread[d]
        /\ UNCHANGED <<listening, sock, starts, born, late, conn_threads>>
    BY <1>15 DEF TypeOK, spawn, AcceptGoto, owning, tracking
  <2>3. sock[held] \in {"open", "closed"}
    BY <2>1 DEF TypeOK, Life
  <2> QED
    BY <2>1, <2>2, <2>3, TcpServerAssumption DEF Life
<1>16. ASSUME NEW c \in Conns, accept_conn(c) PROVE Life'
  <2>1. held = NoConn /\ held' = c /\ sock[c] = "backlog"
    BY <1>16 DEF TypeOK, accept_conn, AcceptGoto
  <2>2. /\ \A d \in Conns : sock'[d] = IF d = c THEN "open" ELSE sock[d]
        /\ \A d \in Conns : born'[d] = IF d = c THEN starts ELSE born[d]
        /\ UNCHANGED <<listening, thread, starts, late, conn_threads>>
    BY <1>16 DEF TypeOK, accept_conn, AcceptGoto, owning, tracking
  <2>3. ASSUME NEW d \in Conns, d # c PROVE held # d
    BY <2>1, TcpServerAssumption
  <2> QED
    BY <2>1, <2>2, <2>3 DEF Life
<1>17. ASSUME NEW c \in Conns, loop(c) PROVE Life'
  BY <1>17 DEF TypeOK, Phases, Life, Stops, Alive, loop, ThreadGoto, owning,
     tracking, client
<1>18. ASSUME NEW c \in Conns, read_frame(c) PROVE Life'
  <2>1. PICK t \in {"loop", "dispatch", "finally"} : thread' = [thread EXCEPT ![c] = t]
    BY <1>18, ReadEffect
  <2>2. \A d \in Conns : thread'[d] = IF d = c THEN t ELSE thread[d]
    BY <2>1 DEF TypeOK
  <2>3. /\ thread[c] = "read" /\ sock[c] = "open"
        /\ UNCHANGED <<listening, held, sock, starts, born, late, conn_threads>>
    BY <1>18, ReadEffect DEF read_frame, ThreadGoto, owning, tracking
  <2> QED
    BY <2>1, <2>2, <2>3 DEF Life
<1>19. ASSUME NEW c \in Conns, read_nothing(c) PROVE Life'
  BY <1>19 DEF TypeOK, Phases, Life, Stops, Alive, read_nothing, ThreadGoto,
     owning, tracking, client
<1>20. ASSUME NEW c \in Conns, dispatched(c) PROVE Life'
  BY <1>20 DEF TypeOK, Phases, Life, Stops, Alive, dispatched, ThreadGoto, owning,
     tracking, client
<1>21. ASSUME NEW c \in Conns, untrack_conn(c) PROVE Life'
  BY <1>21 DEF TypeOK, Phases, Life, Stops, Alive, untrack_conn, ThreadGoto,
     owning, tracking, client
<1>22. ASSUME NEW c \in Conns, close_conn(c) PROVE Life'
  BY <1>22 DEF TypeOK, Phases, Life, Stops, Alive, close_conn, ThreadGoto,
     CloseEnds, owning, tracking, client
<1>23. ASSUME NEW c \in Conns, untrack_thread(c) PROVE Life'
  BY <1>23 DEF TypeOK, Phases, Life, Stops, Alive, untrack_thread, ThreadGoto,
     owning, tracking, client
<1>24. ASSUME NEW c \in Conns, connect(c) PROVE Life'
  BY <1>24 DEF TypeOK, Phases, Life, Stops, Alive, connect, owning, tracking,
     client
<1>25. ASSUME NEW c \in Conns, hang_up(c) PROVE Life'
  BY <1>25 DEF TypeOK, Phases, Life, Stops, Alive, hang_up, owning, tracking,
     client
<1>26. ASSUME NEW c \in Conns, NEW i \in DOMAIN Frames, send(c, Frames[i]) PROVE Life'
  BY <1>26 DEF TypeOK, Phases, Life, Stops, Alive, send, owning, tracking, client
<1>27. CASE UNCHANGED vars
  BY <1>27 DEF TypeOK, Phases, Life, Stops, Alive, vars, owning, tracking, client
<1>28. CASE start_fails
  BY <1>28 DEF TypeOK, Phases, Life, Stops, Alive, start_fails, owning, tracking, client
<1> QED
  BY <1>1, <1>2, <1>3, <1>4, <1>5, <1>6, <1>7, <1>8, <1>9, <1>10, <1>11, <1>12,
     <1>13, <1>14, <1>15, <1>16, <1>17, <1>18, <1>19, <1>20, <1>21, <1>22, <1>23,
     <1>24, <1>25, <1>26, <1>27, <1>28
  DEF Next, stop, accept_loop, connection_loop

\* Every step keeps threads and connections tracked.
LEMMA TrackedStep ==
  ASSUME TypeOK, Phases, Life, Tracked, Stops, [Next]_vars
  PROVE  Tracked'
<1>1. CASE start
  BY <1>1 DEF TypeOK, Phases, Life, Tracked, Stops, Alive, start, owning,
     tracking, client
<1>2. CASE stop_set
  BY <1>2 DEF TypeOK, Phases, Life, Tracked, Stops, Alive, stop_set, OwnerGoto,
     owning, tracking, client
<1>3. CASE stop_close_listening
  BY <1>3 DEF TypeOK, Phases, Life, Tracked, Stops, Alive, stop_close_listening,
     OwnerGoto, CloseEnds, owning, tracking, client
<1>4. CASE stop_snapshot
  BY <1>4 DEF TypeOK, Phases, Life, Tracked, Stops, Alive, stop_snapshot,
     OwnerGoto, owning, tracking, client
<1>5. CASE stop_close_conns
  BY <1>5 DEF TypeOK, Phases, Life, Tracked, Stops, Alive, stop_close_conns,
     OwnerGoto, CloseEnds, owning, tracking, client
<1>6. CASE stop_join_accept
  BY <1>6 DEF TypeOK, Phases, Life, Tracked, Stops, Alive, stop_join_accept,
     OwnerGoto, owning, tracking, client
<1>7. CASE stop_list_threads
  BY <1>7 DEF TypeOK, Phases, Life, Tracked, Stops, Alive, stop_list_threads,
     OwnerGoto, owning, tracking, client
<1>8. CASE stop_join
  BY <1>8 DEF TypeOK, Phases, Life, Tracked, Stops, Alive, stop_join, OwnerGoto,
     owning, tracking, client
<1>9. CASE stop_clear
  BY <1>9 DEF TypeOK, Phases, Life, Tracked, Stops, Alive, stop_clear, OwnerGoto,
     owning, tracking, client
<1>10. CASE accept_check
  BY <1>10 DEF TypeOK, Phases, Life, Tracked, Stops, Alive, accept_check,
     AcceptGoto, owning, tracking, client
<1>11. CASE accept_timeout
  BY <1>11 DEF TypeOK, Phases, Life, Tracked, Stops, Alive, accept_timeout,
     AcceptGoto, owning, tracking, client
<1>12. CASE accept_closed
  BY <1>12 DEF TypeOK, Phases, Life, Tracked, Stops, Alive, accept_closed,
     AcceptGoto, owning, tracking, client
<1>13. CASE track_conn
  BY <1>13 DEF TypeOK, Phases, Life, Tracked, Stops, Alive, track_conn,
     AcceptGoto, owning, tracking, client
<1>14. CASE track_thread
  BY <1>14 DEF TypeOK, Phases, Life, Tracked, Stops, Alive, track_thread,
     AcceptGoto, owning, tracking, client
<1>15. CASE spawn
  BY <1>15 DEF TypeOK, Phases, Life, Tracked, Stops, Alive, spawn, AcceptGoto,
     owning, tracking, client
<1>16. ASSUME NEW c \in Conns, accept_conn(c) PROVE Tracked'
  <2>1. held = NoConn /\ held' = c /\ acceptor' = "track"
    BY <1>16 DEF TypeOK, accept_conn, AcceptGoto
  <2>2. /\ \A d \in Conns : sock[d] = "closed" => sock'[d] = "closed"
        /\ UNCHANGED <<connections, conn_threads, late, thread>>
    BY <1>16 DEF TypeOK, accept_conn, tracking
  <2> QED
    BY <2>1, <2>2, TcpServerAssumption DEF Tracked, Alive
<1>17. ASSUME NEW c \in Conns, loop(c) PROVE Tracked'
  BY <1>17 DEF TypeOK, Phases, Life, Tracked, Stops, Alive, loop, ThreadGoto,
     owning, tracking, client
<1>18. ASSUME NEW c \in Conns, read_frame(c) PROVE Tracked'
  <2>1. PICK t \in {"loop", "dispatch", "finally"} : thread' = [thread EXCEPT ![c] = t]
    BY <1>18, ReadEffect
  <2>2. \A d \in Conns : thread'[d] = IF d = c THEN t ELSE thread[d]
    BY <2>1 DEF TypeOK
  <2>3. thread[c] = "read" /\ UNCHANGED <<acceptor, held, connections, conn_threads, late, sock>>
    BY <1>18 DEF read_frame, ThreadGoto, tracking
  <2> QED
    BY <2>2, <2>3 DEF Tracked, Alive
<1>19. ASSUME NEW c \in Conns, read_nothing(c) PROVE Tracked'
  BY <1>19 DEF TypeOK, Phases, Life, Tracked, Stops, Alive, read_nothing,
     ThreadGoto, owning, tracking, client
<1>20. ASSUME NEW c \in Conns, dispatched(c) PROVE Tracked'
  BY <1>20 DEF TypeOK, Phases, Life, Tracked, Stops, Alive, dispatched,
     ThreadGoto, owning, tracking, client
<1>21. ASSUME NEW c \in Conns, untrack_conn(c) PROVE Tracked'
  BY <1>21 DEF TypeOK, Phases, Life, Tracked, Stops, Alive, untrack_conn,
     ThreadGoto, owning, tracking, client
<1>22. ASSUME NEW c \in Conns, close_conn(c) PROVE Tracked'
  BY <1>22 DEF TypeOK, Phases, Life, Tracked, Stops, Alive, close_conn,
     ThreadGoto, CloseEnds, owning, tracking, client
<1>23. ASSUME NEW c \in Conns, untrack_thread(c) PROVE Tracked'
  BY <1>23 DEF TypeOK, Phases, Life, Tracked, Stops, Alive, untrack_thread,
     ThreadGoto, owning, tracking, client
<1>24. ASSUME NEW c \in Conns, connect(c) PROVE Tracked'
  BY <1>24 DEF TypeOK, Phases, Life, Tracked, Stops, Alive, connect, owning,
     tracking, client
<1>25. ASSUME NEW c \in Conns, hang_up(c) PROVE Tracked'
  BY <1>25 DEF TypeOK, Phases, Life, Tracked, Stops, Alive, hang_up, owning,
     tracking, client
<1>26. ASSUME NEW c \in Conns, NEW i \in DOMAIN Frames, send(c, Frames[i]) PROVE Tracked'
  BY <1>26 DEF TypeOK, Phases, Life, Tracked, Stops, Alive, send, owning,
     tracking, client
<1>27. CASE UNCHANGED vars
  BY <1>27 DEF TypeOK, Phases, Life, Tracked, Stops, Alive, vars, owning,
     tracking, client
<1>28. CASE start_fails
  BY <1>28 DEF TypeOK, Phases, Life, Tracked, Stops, Alive, start_fails, owning,
     tracking, client
<1> QED
  BY <1>1, <1>2, <1>3, <1>4, <1>5, <1>6, <1>7, <1>8, <1>9, <1>10, <1>11, <1>12,
     <1>13, <1>14, <1>15, <1>16, <1>17, <1>18, <1>19, <1>20, <1>21, <1>22, <1>23,
     <1>24, <1>25, <1>26, <1>27, <1>28
  DEF Next, stop, accept_loop, connection_loop

\* Every step of stop() achieves what the next one counts on, and no other step
\* undoes it.
LEMMA StopsStep ==
  ASSUME TypeOK, Phases, Life, Tracked, Stops, [Next]_vars
  PROVE  Stops'
<1>1. CASE start
  BY <1>1 DEF TypeOK, Phases, Life, Tracked, Stops, Alive, Reading, start, owning,
     tracking, client
<1>2. CASE stop_set
  BY <1>2 DEF TypeOK, Phases, Life, Tracked, Stops, Alive, Reading, stop_set,
     OwnerGoto, owning, tracking, client
<1>3. CASE stop_close_listening
  BY <1>3 DEF TypeOK, Phases, Life, Tracked, Stops, Alive, Reading,
     stop_close_listening, OwnerGoto, CloseEnds, owning, tracking, client
<1>4. CASE stop_snapshot
  BY <1>4 DEF TypeOK, Phases, Life, Tracked, Stops, Alive, Reading, stop_snapshot,
     OwnerGoto, owning, tracking, client
<1>5. CASE stop_close_conns
  BY <1>5 DEF TypeOK, Phases, Life, Tracked, Stops, Alive, Reading,
     stop_close_conns, OwnerGoto, CloseEnds, owning, tracking, client
<1>6. CASE stop_join_accept
  BY <1>6 DEF TypeOK, Phases, Life, Tracked, Stops, Alive, Reading,
     stop_join_accept, OwnerGoto, owning, tracking, client
<1>7. CASE stop_list_threads
  <2>1. /\ owner = "list_threads" /\ owner' = "join" /\ snap' = conn_threads
        /\ UNCHANGED <<sock, thread, late>>
    BY <1>7 DEF stop_list_threads, OwnerGoto
  <2>2. held = NoConn
    BY <2>1 DEF TypeOK, Phases
  <2> QED
    BY <2>1, <2>2, TcpServerAssumption DEF Tracked, Stops, Alive, Reading
<1>8. CASE stop_join
  BY <1>8 DEF TypeOK, Phases, Life, Tracked, Stops, Alive, Reading, stop_join,
     OwnerGoto, owning, tracking, client
<1>9. CASE stop_clear
  BY <1>9 DEF TypeOK, Phases, Life, Tracked, Stops, Alive, Reading, stop_clear,
     OwnerGoto, owning, tracking, client
<1>10. CASE accept_check
  BY <1>10 DEF TypeOK, Phases, Life, Tracked, Stops, Alive, Reading, accept_check,
     AcceptGoto, owning, tracking, client
<1>11. CASE accept_timeout
  BY <1>11 DEF TypeOK, Phases, Life, Tracked, Stops, Alive, Reading,
     accept_timeout, AcceptGoto, owning, tracking, client
<1>12. CASE accept_closed
  BY <1>12 DEF TypeOK, Phases, Life, Tracked, Stops, Alive, Reading,
     accept_closed, AcceptGoto, owning, tracking, client
<1>13. CASE track_conn
  BY <1>13 DEF TypeOK, Phases, Life, Tracked, Stops, Alive, Reading, track_conn,
     AcceptGoto, owning, tracking, client
<1>14. CASE track_thread
  BY <1>14 DEF TypeOK, Phases, Life, Tracked, Stops, Alive, Reading, track_thread,
     AcceptGoto, owning, tracking, client
<1>15. CASE spawn
  BY <1>15 DEF TypeOK, Phases, Life, Tracked, Stops, Alive, Reading, spawn,
     AcceptGoto, owning, tracking, client
<1>16. ASSUME NEW c \in Conns, accept_conn(c) PROVE Stops'
  BY <1>16 DEF TypeOK, Phases, Life, Tracked, Stops, Alive, Reading, accept_conn,
     AcceptGoto, owning, tracking, client
<1>17. ASSUME NEW c \in Conns, loop(c) PROVE Stops'
  BY <1>17 DEF TypeOK, Phases, Life, Tracked, Stops, Alive, Reading, loop,
     ThreadGoto, owning, tracking, client
<1>18. ASSUME NEW c \in Conns, read_frame(c) PROVE Stops'
  BY <1>18 DEF TypeOK, Phases, Life, Tracked, Stops, Alive, Reading, read_frame,
     ThreadGoto, owning, tracking, client
<1>19. ASSUME NEW c \in Conns, read_nothing(c) PROVE Stops'
  BY <1>19 DEF TypeOK, Phases, Life, Tracked, Stops, Alive, Reading, read_nothing,
     ThreadGoto, owning, tracking, client
<1>20. ASSUME NEW c \in Conns, dispatched(c) PROVE Stops'
  BY <1>20 DEF TypeOK, Phases, Life, Tracked, Stops, Alive, Reading, dispatched,
     ThreadGoto, owning, tracking, client
<1>21. ASSUME NEW c \in Conns, untrack_conn(c) PROVE Stops'
  BY <1>21 DEF TypeOK, Phases, Life, Tracked, Stops, Alive, Reading, untrack_conn,
     ThreadGoto, owning, tracking, client
<1>22. ASSUME NEW c \in Conns, close_conn(c) PROVE Stops'
  BY <1>22 DEF TypeOK, Phases, Life, Tracked, Stops, Alive, Reading, close_conn,
     ThreadGoto, CloseEnds, owning, tracking, client
<1>23. ASSUME NEW c \in Conns, untrack_thread(c) PROVE Stops'
  BY <1>23 DEF TypeOK, Phases, Life, Tracked, Stops, Alive, Reading,
     untrack_thread, ThreadGoto, owning, tracking, client
<1>24. ASSUME NEW c \in Conns, connect(c) PROVE Stops'
  BY <1>24 DEF TypeOK, Phases, Life, Tracked, Stops, Alive, Reading, connect,
     owning, tracking, client
<1>25. ASSUME NEW c \in Conns, hang_up(c) PROVE Stops'
  BY <1>25 DEF TypeOK, Phases, Life, Tracked, Stops, Alive, Reading, hang_up,
     owning, tracking, client
<1>26. ASSUME NEW c \in Conns, NEW i \in DOMAIN Frames, send(c, Frames[i]) PROVE Stops'
  BY <1>26 DEF TypeOK, Phases, Life, Tracked, Stops, Alive, Reading, send, owning,
     tracking, client
<1>27. CASE UNCHANGED vars
  BY <1>27 DEF TypeOK, Phases, Life, Tracked, Stops, Alive, Reading, vars, owning,
     tracking, client
<1>28. CASE start_fails
  BY <1>28 DEF TypeOK, Phases, Life, Tracked, Stops, Alive, Reading, start_fails, owning,
     tracking, client
<1> QED
  BY <1>1, <1>2, <1>3, <1>4, <1>5, <1>6, <1>7, <1>8, <1>9, <1>10, <1>11, <1>12,
     <1>13, <1>14, <1>15, <1>16, <1>17, <1>18, <1>19, <1>20, <1>21, <1>22, <1>23,
     <1>24, <1>25, <1>26, <1>27, <1>28
  DEF Next, stop, accept_loop, connection_loop

-----------------------------------------------------------------------------
\* The inductive invariant of the server.
IInv == TypeOK /\ Phases /\ Life /\ Tracked /\ Stops

\* The invariant holds in every reachable state.
THEOREM Inductive == Spec => []IInv
<1>1. Init => IInv
  <2> SUFFICES ASSUME Init PROVE IInv
    OBVIOUS
  <2>1. inbox \in [Conns -> Seq(Kinds)]
    BY EmptySeq DEF Init
  <2>a. starts \in 0..MaxStarts /\ sent \in 0..MaxFrames /\ born \in [Conns -> 0..MaxStarts]
    BY TcpServerAssumption DEF Init
  <2>b. /\ sock \in [Conns -> {"none", "backlog", "open", "closed"}]
        /\ client_open \in [Conns -> BOOLEAN]
        /\ thread \in [Conns -> {"none", "loop", "read", "dispatch", "finally", "close",
                                 "untrack", "done"}]
    BY DEF Init
  <2>2. TypeOK
    BY <2>1, <2>a, <2>b DEF Init, TypeOK
  <2>3. Phases
    BY DEF Init, Phases
  <2>4. Life /\ Tracked /\ Stops
    BY TcpServerAssumption DEF Init, Life, Tracked, Stops, Alive, Reading
  <2> QED
    BY <2>2, <2>3, <2>4 DEF IInv
<1>2. IInv /\ [Next]_vars => IInv'
  BY TypeStep, PhasesStep, LifeStep, TrackedStep, StopsStep DEF IInv
<1> QED
  BY <1>1, <1>2, PTL DEF Spec

\* Sets hold connections, and the accept thread has one in hand exactly between
\* accept() and the start of its thread.
THEOREM Typed == Spec => []TypeOK
<1>1. IInv => TypeOK
  BY DEF IInv
<1> QED
  BY <1>1, Inductive, PTL

\* When stop() has returned no socket of the server is open, also none accepted
\* while it ran, and every connection thread has ended or is one whose handler
\* outlived the wait.
THEOREM StopLeavesNothing == Spec => []NothingLeft
<1>1. IInv => NothingLeft
  BY StoppedIsClosed DEF IInv
<1> QED
  BY <1>1, Inductive, PTL

\* stop() never joins a thread that was not started, although the accept thread
\* tracks threads before it starts them.
THEOREM JoinsOnlyStarted == Spec => []JoinsStarted
<1>1. IInv => JoinsStarted
  BY DEF IInv, TypeOK, Stops, JoinsStarted
<1> QED
  BY <1>1, Inductive, PTL

\* A connection accepted under an earlier start() gives no frame to the
\* dispatcher, however long its handler outlives stop() and however soon the
\* server is started again.
THEOREM NoStaleDispatch == Spec => StaleNeverDispatch
<1> DEFINE Ok == \A c \in Conns :
              thread'[c] = "dispatch" /\ thread[c] # "dispatch"
                 => owner # "stopped" /\ born[c] = starts
<1>1. IInv /\ [Next]_vars => [Ok]_vars
  <2> SUFFICES ASSUME IInv, Next, NEW c \in Conns,
                      thread'[c] = "dispatch", thread[c] # "dispatch"
               PROVE  owner # "stopped" /\ born[c] = starts
    OBVIOUS
  <2>0. TypeOK /\ Life /\ NothingLeft
    BY StoppedIsClosed DEF IInv
  <2>1. read_frame(c)
    BY <2>0 DEF Next, stop, accept_loop, connection_loop, TypeOK,
       start, start_fails, stop_set, stop_close_listening, stop_snapshot, stop_close_conns,
       stop_join_accept, stop_list_threads, stop_join, stop_clear, AcceptGoto,
       accept_check, accept_timeout, accept_closed, track_conn, track_thread, spawn,
       accept_conn, ThreadGoto, loop, read_frame, read_nothing, dispatched,
       untrack_conn, close_conn, untrack_thread, connect, hang_up, send
  <2>2. sock[c] = "open"
    BY <2>1 DEF read_frame
  <2> QED
    BY <2>0, <2>2 DEF Life, NothingLeft
<1> QED
  BY <1>1, Inductive, PTL DEF Spec, StaleNeverDispatch

-----------------------------------------------------------------------------
\* A message of this code's senders.
Msg(type, a, p) ==
  [msg_type |-> type, sender_id |-> Str(a), payload |-> Dict(p), timestamp |-> now]

\* The parts of a JSON value.
LEMMA JsonParts ==
  /\ \A f : Dict(f).type = "dict" /\ Dict(f).fields = f
  /\ \A s : List(s).type = "list" /\ List(s).fields = s
  /\ \A x : Str(x).type = "str" /\ Str(x).text = x
BY DEF Dict, List, Str, Scalar

\* Message(...) keeps a payload that is not empty, and stamps it with the time.
LEMMA MessageBuilt ==
  ASSUME NEW type, NEW a, NEW p, DOMAIN p # {}
  PROVE  new_message(type, Str(a), Dict(p), Null) = Msg(type, a, p)
<1>1. truthy(Dict(p))
  BY DEF truthy, Dict
<1>2. Null.type = "null" /\ Str(a).type = "str" /\ Dict(p).type = "dict" /\ is_int(now)
  BY DEF Null, Str, Dict, now, Scalar, is_int
<1> QED
  BY <1>1, <1>2 DEF new_message, Msg

\* What is written to JSON and read back is the message that was sent.
LEMMA RoundTrip ==
  ASSUME NEW type \in MessageType, NEW a, NEW p, DOMAIN p # {}
  PROVE  received(Msg(type, a, p)) = Msg(type, a, p)
<1> DEFINE f == [type |-> Str(type), sender_id |-> Str(a),
                 timestamp |-> now, payload |-> Dict(p)]
           raw == to_dict(Msg(type, a, p))
<1>1. raw = Dict(f)
  BY DEF to_dict, Msg
<1>2. raw.type = "dict" /\ raw.fields = f
  <2> HIDE DEF raw, f
  <2> QED
    BY <1>1, JsonParts
<1>3. /\ get(raw, "type") = Str(type) /\ get(raw, "sender_id") = Str(a)
      /\ get(raw, "payload") = Dict(p) /\ get(raw, "timestamp") = now
      /\ raw.fields.type = Str(type) /\ raw.fields.sender_id = Str(a)
  BY <1>2 DEF get
<1>4. Str(type).type = "str" /\ Str(type).text = type /\ Str(a).type = "str"
  BY DEF Str, Scalar
<1>5. truthy(Dict(p)) /\ Dict(p).type = "dict"
  BY DEF truthy, Dict
<1>a. now.type # "null" /\ is_int(now)
  BY DEF now, Scalar, is_int
<1> HIDE DEF f, raw
<1>6. from_json(raw) = new_message(type, Str(a), Dict(p), now)
  BY <1>2, <1>3, <1>4 DEF from_json
<1>7. new_message(type, Str(a), Dict(p), now) = Msg(type, a, p)
  BY <1>4, <1>5, <1>a DEF new_message, Msg
<1> QED
  BY <1>6, <1>7 DEF received, raw

\* The fields of the dict that describes node x at host s.
PeerFields(x, s) == [node_id |-> Str(x), host |-> Str(s), port |-> Scalar("int", "1")]
Peer(x, s) == Dict(PeerFields(x, s))

\* The handlers accept such a dict for every node but the receiver.
LEMMA PeerAccepted ==
  ASSUME NEW x \in Ids, NEW s \in Ids, NEW b \in Ids
  PROVE  is_peer(Peer(x, s), Str(b)) <=> x # b
<1>1. /\ Peer(x, s).fields = PeerFields(x, s)
  BY JsonParts DEF Peer
<1>2. /\ get(Peer(x, s), "node_id") = Str(x) /\ get(Peer(x, s), "host") = Str(s)
      /\ get(Peer(x, s), "port") = Scalar("int", "1")
  BY <1>1 DEF get, PeerFields
<1>3. x # "" /\ s # ""
  BY CodecAssumption
<1>4. truthy(Str(x)) /\ truthy(Str(s))
  BY <1>3, JsonParts DEF truthy
<1>5. is_int(Scalar("int", "1"))
  BY DEF is_int, Scalar
<1>6. Str(x) # Str(b) <=> x # b
  BY JsonParts
<1> QED
  BY <1>2, <1>4, <1>5, <1>6 DEF is_peer

\* A JOIN_REQUEST adds its sender and answers it.
LEMMA JoinUnderstood ==
  ASSUME NEW a \in Ids, NEW b \in Ids, NEW s \in Ids, a # b
  PROVE  dispatch(received(make_join_request(Peer(a, s))), Str(b))
           = [join |-> Peer(a, s), reply_to |-> Str(a)]
<1> DEFINE m == Msg("JOIN_REQUEST", a, PeerFields(a, s))
<1>1. DOMAIN PeerFields(a, s) # {} /\ PeerFields(a, s).node_id = Str(a)
  BY DEF PeerFields
<1>2. Peer(a, s).fields.node_id = Str(a)
  BY <1>1, JsonParts DEF Peer
<1>3. make_join_request(Peer(a, s)) = m
  BY <1>1, <1>2, MessageBuilt DEF make_join_request, Peer
<1>4. received(m) = m
  BY <1>1, RoundTrip DEF MessageType
<1>5. m.msg_type = "JOIN_REQUEST" /\ m.payload = Peer(a, s) /\ m.sender_id = Str(a)
  BY DEF Msg, Peer
<1> HIDE DEF m
<1>6. dispatch(m, Str(b)) = handle_join_request(m, Str(b))
  BY <1>5 DEF dispatch
<1> QED
  BY <1>3, <1>4, <1>5, <1>6, PeerAccepted DEF handle_join_request

\* A PEER_LIST adds every entry but the receiver.
LEMMA ListUnderstood ==
  ASSUME NEW a \in Ids, NEW b \in Ids, NEW s \in Ids
  PROVE  dispatch(received(peer_list_message(Str(a), <<Peer(b, s), Peer(s, s)>>)), Str(b))
           = {Peer(s, s)} \ {Peer(b, s)}
<1> DEFINE list == <<Peer(b, s), Peer(s, s)>>
           f == [peers |-> List(list)]
           m == Msg("PEER_LIST", a, f)
<1>1. DOMAIN f # {} /\ f["peers"] = List(list) /\ "peers" \in DOMAIN f
  OBVIOUS
<1>2. peer_list_message(Str(a), list) = m
  BY <1>1, MessageBuilt DEF peer_list_message
<1>3. received(m) = m
  BY <1>1, RoundTrip DEF MessageType
<1>4. m.msg_type = "PEER_LIST" /\ m.payload = Dict(f)
  BY DEF Msg
<1>5. /\ DOMAIN list = {1, 2} /\ list[1] = Peer(b, s) /\ list[2] = Peer(s, s)
  OBVIOUS
<1>6. Peer(b, s).type = "dict" /\ Peer(s, s).type = "dict"
  BY JsonParts DEF Peer
<1>7. Peer(s, s) = Peer(b, s) <=> s = b
  <2>1. Peer(s, s).fields = PeerFields(s, s) /\ Peer(b, s).fields = PeerFields(b, s)
    BY JsonParts DEF Peer
  <2>2. PeerFields(s, s).node_id = Str(s) /\ PeerFields(b, s).node_id = Str(b)
    BY DEF PeerFields
  <2> QED
    BY <2>1, <2>2, JsonParts
<1> HIDE DEF m, f, list
<1>8. dispatch(m, Str(b)) = handle_peer_list(m, Str(b))
  BY <1>4 DEF dispatch
<1>9. get(m.payload, "peers") = List(list)
  BY <1>1, <1>4, JsonParts DEF get
<1> DEFINE read == {i \in DOMAIN list : \A j \in 1..i : list[j].type = "dict"}
<1>10. read = {1, 2}
  BY <1>5, <1>6
<1>11. handle_peer_list(m, Str(b))
         = {list[i] : i \in {j \in read : is_peer(list[j], Str(b))}}
  BY <1>9, JsonParts DEF handle_peer_list
<1> HIDE DEF read
<1>12. {j \in read : is_peer(list[j], Str(b))} = IF s = b THEN {} ELSE {2}
  BY <1>5, <1>10, PeerAccepted
<1>13. {list[i] : i \in {j \in read : is_peer(list[j], Str(b))}} = {Peer(s, s)} \ {Peer(b, s)}
  BY <1>5, <1>7, <1>12
<1> QED
  BY <1>2, <1>3, <1>8, <1>11, <1>13 DEF list

\* A SENSOR_UPDATE merges the reading as it was made, whatever its value is, and
\* a time of 0 too.
LEMMA UpdateUnderstood ==
  ASSUME NEW a \in Ids, NEW b \in Ids, NEW s \in Ids, NEW v, NEW t, is_int(t)
  PROVE  dispatch(received(sensor_update_message(Str(a), Str(s), v, t)), Str(b))
           = [merge |-> Str(s), value |-> v, ts_ms |-> t, origin |-> Str(a)]
<1> DEFINE f == [sensor_id |-> Str(s), value |-> v, ts_ms |-> t, origin |-> Str(a),
                 meta |-> Dict(<<>>)]
           m == Msg("SENSOR_UPDATE", a, f)
<1>1. /\ DOMAIN f # {} /\ {"sensor_id", "value", "ts_ms", "origin"} \subseteq DOMAIN f
      /\ f["sensor_id"] = Str(s) /\ f["value"] = v /\ f["ts_ms"] = t /\ f["origin"] = Str(a)
  OBVIOUS
<1>2. sensor_update_message(Str(a), Str(s), v, t) = m
  BY <1>1, MessageBuilt DEF sensor_update_message
<1>3. received(m) = m
  BY <1>1, RoundTrip DEF MessageType
<1>4. m.msg_type = "SENSOR_UPDATE" /\ m.payload = Dict(f) /\ m.sender_id = Str(a)
  BY DEF Msg
<1> HIDE DEF m, f
<1>5. /\ m.payload.fields = f
      /\ get(m.payload, "sensor_id") = Str(s) /\ get(m.payload, "value") = v
      /\ get(m.payload, "ts_ms") = t /\ get(m.payload, "origin") = Str(a)
  BY <1>1, <1>4, JsonParts DEF get
<1>6. a # "" /\ s # ""
  BY CodecAssumption
<1>7. truthy(Str(a)) /\ is_name(Str(a)) /\ is_name(Str(s))
  BY <1>6, JsonParts DEF truthy, is_name
<1>8. dispatch(m, Str(b)) = handle_sensor_update(m)
  BY <1>4 DEF dispatch
<1> QED
  BY <1>1, <1>2, <1>3, <1>5, <1>7, <1>8 DEF handle_sensor_update

\* Whatever ids the nodes have, the messages they build are understood by the
\* handlers of the nodes that receive them.
THEOREM MessagesUnderstood == \A a, b, s \in Ids : Understood(a, b, s)
<1> SUFFICES ASSUME NEW a \in Ids, NEW b \in Ids, NEW s \in Ids PROVE Understood(a, b, s)
  OBVIOUS
<1>1. a # b => dispatch(received(make_join_request(Peer(a, s))), Str(b))
                 = [join |-> Peer(a, s), reply_to |-> Str(a)]
  BY JoinUnderstood
<1>2. dispatch(received(peer_list_message(Str(a), <<Peer(b, s), Peer(s, s)>>)), Str(b))
        = {Peer(s, s)} \ {Peer(b, s)}
  BY ListUnderstood
<1>3. is_int(Scalar("int", "0")) /\ is_int(now)
  BY DEF is_int, Scalar, now
<1>4. \A v \in {Null, Str(s)}, t \in {Scalar("int", "0"), now} :
         dispatch(received(sensor_update_message(Str(a), Str(s), v, t)), Str(b))
           = [merge |-> Str(s), value |-> v, ts_ms |-> t, origin |-> Str(a)]
  BY <1>3, UpdateUnderstood
<1> QED
  BY <1>1, <1>2, <1>4 DEF Understood, Peer, PeerFields

\* The checks of decoder, dispatcher and handlers refuse nothing that this code's
\* senders build, in every state of the server.
THEOREM AllSentHandled == Spec => []SentIsHandled
<1>1. SentIsHandled
  BY MessagesUnderstood DEF SentIsHandled
<1> QED
  BY <1>1, PTL
=============================================================================
