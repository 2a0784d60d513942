--------------------------- MODULE MCEchoServers ---------------------------
EXTENDS EchoServers, TLC

CONSTANTS c1, c2
MCConns == {c1, c2}
MCMaxSent == c1 :> 3 @@ c2 :> 1
============================================================================
