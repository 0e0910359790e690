------------------------------ MODULE LWWStore ------------------------------
(***************************************************************************)
(* What the replicated state promises, without queues, publishers or       *)
(* frames: every node holds, per sensor, nothing or a reading that its     *)
(* origin really issued; a node only ever moves to a newer reading; and    *)
(* an origin never issues two readings under one stamp, so a stamp names   *)
(* one reading everywhere.                                                 *)
(***************************************************************************)
EXTENDS LWW

VARIABLES
  issued,   \* the readings issued so far, as <<sensor, record>>
  view      \* view[n][s]: what node n shows for sensor s

storeVars == <<issued, view>>

Init ==
  /\ issued = {}
  /\ view = [n \in Nodes |-> NoRecords]

\* Origin n takes a new reading of s under a stamp it never used before.
Issue(n, s, r) ==
  /\ r.origin = n
  /\ newer(r, view[n][s])
  /\ \A e \in issued : ~(e[1] = s /\ SameStamp(e[2], r))
  /\ issued' = issued \cup {<<s, r>>}
  /\ view' = [view EXCEPT ![n][s] = r]

\* Node n learns a reading newer than the one it shows.
Learn(n, s, r) ==
  /\ <<s, r>> \in issued
  /\ newer(r, view[n][s])
  /\ view' = [view EXCEPT ![n][s] = r]
  /\ UNCHANGED issued

\* Node n restarts without memory.
Forget(n) ==
  /\ view' = [view EXCEPT ![n] = NoRecords]
  /\ UNCHANGED issued

Next ==
  \E n \in Nodes :
     \/ \E s \in Sensors, r \in Record : Issue(n, s, r)
     \/ \E e \in issued : Learn(n, e[1], e[2])
     \/ Forget(n)

Spec == Init /\ [][Next]_storeVars
=============================================================================
