------------------------------- MODULE MCWeb -------------------------------
EXTENDS Web

MCIdParts == [n \in Nodes |-> <<(<<"a", "b">>)[n]>>]
MCSensors == {<<"t">>}

\* Three readings of a sensor of node 1, one of which node 2 has by replication.
Reading(n, t) == <<n, <<"t">>, [value |-> "v", ts_ms |-> t, origin |-> 1]>>
MCReadings == {Reading(1, 0), Reading(1, 1), Reading(1, 2), Reading(2, 1)}
=============================================================================
