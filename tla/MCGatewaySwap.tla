--------------------------- MODULE MCGatewaySwap ---------------------------
(* A started service, two requests and one hot swap; nobody calls stop.    *)
EXTENDS GatewayHub
CONSTANTS r1, r2, st1, ap1, q0, None, NewSize
MCRequests  == {r1, r2}
MCStarters  == {st1}
MCStoppers  == {}
MCReloaders == {ap1}
MCInit      == [queue_size |-> 2, concurrency |-> 1]
MCConfigOf  == [a \in MCReloaders |-> [queue_size |-> NewSize, concurrency |-> 1]]
=============================================================================
