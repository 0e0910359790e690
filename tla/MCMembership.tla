---------------------------- MODULE MCMembership ----------------------------
EXTENDS Membership

\* Two nodes that name each other, as in docker-compose-base.yml.
Pair == [n \in Nodes |-> IF n = 1 THEN <<2>> ELSE <<1>>]

\* Two nodes that know only node 2, which knows nobody.
Star == [n \in Nodes |-> IF n = 2 THEN <<>> ELSE <<2>>]
=============================================================================
