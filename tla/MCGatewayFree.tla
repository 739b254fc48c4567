---------------------------- MODULE MCGatewayFree ----------------------------
(* The gateway service with every call allowed at every time.              *)
EXTENDS GatewayHub
CONSTANTS r1, r2, sp1, ap1, ap2, q0, None
MCRequests  == {r1, r2}
MCStarters  == {}
MCStoppers  == {sp1}
MCReloaders == {ap1, ap2}
MCInit      == [queue_size |-> 2, concurrency |-> 1]
MCConfigOf  == [a \in MCReloaders |-> [queue_size |-> IF a = ap1 THEN 1 ELSE 2,
                                           concurrency |-> 1]]
=============================================================================
