-------------------------------- MODULE Link --------------------------------
(***************************************************************************)
(* What a link from one node to a peer promises the layers above it: a     *)
(* frame handed to send_json is dispatched at most once at the other end,  *)
(* or is lost; nothing arrives that was not sent.  Order is not promised.  *)
(* This is the network that the Replication module works over.             *)
(***************************************************************************)
CONSTANT Frames

VARIABLES
  pending,    \* accepted by send_json, neither dispatched nor lost
  delivered,  \* dispatched at the other end
  lost        \* gone for good

linkVars == <<pending, delivered, lost>>

Init == pending = {} /\ delivered = {} /\ lost = {}

Send(f) ==
  /\ f \notin pending \cup delivered \cup lost
  /\ pending' = pending \cup {f}
  /\ UNCHANGED <<delivered, lost>>

Deliver(f) ==
  /\ f \in pending
  /\ pending' = pending \ {f}
  /\ delivered' = delivered \cup {f}
  /\ UNCHANGED lost

\* Some frames are lost together, with the connection or the queue they are in.
Lose(F) ==
  /\ F \subseteq pending
  /\ pending' = pending \ F
  /\ lost' = lost \cup F
  /\ UNCHANGED delivered

Next == \/ \E f \in Frames : Send(f) \/ Deliver(f)
        \/ \E F \in SUBSET Frames : Lose(F)

Spec == Init /\ [][Next]_linkVars
=============================================================================
