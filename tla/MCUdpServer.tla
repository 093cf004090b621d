----------------------------- MODULE MCUdpServer -----------------------------
EXTENDS UdpServer

CONSTANTS c1, c2

(* One client sends what is no query, once, the other one asks twice.       *)
(* A "long" datagram takes the path of a "broken" one.                      *)
Clients12 == {c1, c2}
OneOfEach == [c \in Clients12 |-> IF c = c1 THEN AllKinds \ {"query", "long"}
                                      ELSE {"query"}]
OnceTwice == [c \in Clients12 |-> IF c = c1 THEN 1 ELSE 2]
=============================================================================
