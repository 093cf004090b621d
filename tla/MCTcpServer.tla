----------------------------- MODULE MCTcpServer -----------------------------
EXTENDS TcpServer

EveryKind == Whole \cup Partial \cup {"empty"}
=============================================================================
