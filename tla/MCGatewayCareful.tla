-------------------------- MODULE MCGatewayCareful --------------------------
(* A start, two stops, a reconfiguration and restarts by submit, none      *)
(* overlapping: a queue of one with two workers, then the other way round. *)
EXTENDS GatewayHub
CONSTANTS r1, r2, st1, sp1, sp2, ap1, q0, None
MCRequests  == {r1, r2}
MCStarters  == {st1}
MCStoppers  == {sp1, sp2}
MCReloaders == {ap1}
MCInit      == [queue_size |-> 1, concurrency |-> 2]
MCConfigOf  == [a \in MCReloaders |-> [queue_size |-> 2, concurrency |-> 1]]
=============================================================================
