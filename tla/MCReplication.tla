--------------------------- MODULE MCReplication ---------------------------
EXTENDS Replication, TLC

\* Readings are only compared for equality.
ValueSymmetry == Permutations(Values)

\* Strings as sequences of ":"-separated parts.
MCParts == {"n1", "n2", "n3", "9000", "t"}
T == <<"t">>
OneSensor == {T}
PlainIds == [n \in Nodes |-> << <<"n1", "n2", "n3">>[n] >>]

\* NODE_ID=n1:9000 on node 1; a sensor may be named 9000:t as well as t.
AddressIds == [n \in Nodes |-> IF n = 1 THEN <<"n1", "9000">> ELSE <<"n2">>]
TwoSensors == {T, <<"9000", "t">>}
OnlyFirst == [n \in Nodes |-> IF n = 1 THEN {T} ELSE {}]

\* The alias peer ids: 12 is bootstrap@<address of node 2>, and so on.
MCPeerIds == Nodes \cup {12}
Direct == [p \in Nodes |-> p]
MCReach == [p \in MCPeerIds |-> IF p = 12 THEN 2 ELSE p]

\* Every node runs a sensor named t: the keys collide.
Colliding == [n \in Nodes |-> {T}]

\* Only node 2 runs a sensor.
OneProducer == [n \in Nodes |-> IF n = 2 THEN {T} ELSE {}]

\* Node 1 was configured with the address of node 2.
Seeded == [n \in Nodes |-> IF n = 1 THEN {12} ELSE {}]

\* Every node has met every other one; node 2 has also met its own alias.
Mesh == [n \in Nodes |-> PeerIds \ {n}]
=============================================================================
