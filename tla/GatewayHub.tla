----------------------------- MODULE GatewayHub -----------------------------
(***************************************************************************)
(* The gateway service in a program that calls stop and apply_config only  *)
(* while no other call is in progress, and apply_config only on a stopped  *)
(* service, but may do so over and over; a submit to the stopped service   *)
(* restarts it.                                                            *)
(*                                                                         *)
(* The chat server is such a program (chat/server.py:125-132): its startup *)
(* handler awaits apply_config and then start, its endpoints submit, its   *)
(* shutdown handler awaits stop, and the ASGI server awaits the first      *)
(* before it serves a request and ends all requests before the last.       *)
(***************************************************************************)
EXTENDS GatewayService

(* Where a request is, in the terms of the contract, and what its caller   *)
(* got: what its future says once that is done, or how its task ended.     *)
Phase ==
  [r \in Requests |->
     IF fut[r] = "none" THEN "new"
     ELSE IF calls[r] = 0 THEN "accepted"
     ELSE IF \E w \in Worker : hand[w] = r THEN "called" ELSE "finished"]

Reply ==
  [r \in Requests |->
     IF fut[r] \notin {"none", "pending"} THEN fut[r]
     ELSE IF pc[r] = "raised" THEN "error"
     ELSE IF pc[r] = "cancelled" THEN "cancelled"
     ELSE "none"]

Contract == INSTANCE DeliveryContract WITH phase <- Phase, reply <- Reply

(* In a step that leaves "idle" the task's call is made.                   *)
Calls(t) == pc[t] = "idle" /\ pc'[t] # "idle"
Quiet(T) == \A t \in T : pc[t] \in Ended \cup {"idle"}

CarefulNext ==
  /\ Next
  /\ \A t \in Stoppers \cup Reloaders : Calls(t) => Quiet(Tasks \ {t})
  /\ \A t \in Callers : Calls(t) => Quiet(Stoppers \cup Reloaders)
  /\ \A a \in Reloaders : Calls(a) => ~running
CarefulSpec == Init /\ [][CarefulNext]_vars /\ Fairness

-----------------------------------------------------------------------------
(* The service keeps the delivery contract, its liveness included.         *)
ContractHolds == Contract!Spec

(* The safety half of the contract, which needs no discipline of callers.  *)
ContractSafety == Contract!SafeSpec

(* Every submit and every stop that was called ends, however full the      *)
(* queue is and whoever is reconfigured or restarted in between            *)
(* (service.py:47-63).                                                     *)
StopEnds == \A s \in Stoppers : pc[s] # "idle" ~> pc[s] = "done"
EveryCallEnds == EverySubmitEnds /\ StopEnds

(* A stop leaves nothing behind for the next start: no worker lives, no    *)
(* request or None is left in the queue (service.py:51-54).                *)
CleanStop ==
  ~running /\ Quiet(Tasks) =>
    /\ \A w \in Worker : wstate[w] \in {"unborn", "exited"}
    /\ items[cur] = <<>>

(* While the service calls itself running and nobody is stopping it, it    *)
(* has the workers it created, and each of them serves the queue submit    *)
(* puts into.  That queue counts as unfinished what it holds and what is   *)
(* being dispatched, so the task_done of service.py:93 and 103 never       *)
(* raises (service.py:43-45, 61, 91-103).                                  *)
RunningIsServed ==
  running =>
    /\ wlist # <<>>
    /\ \A n \in 1..Len(wlist) :
         /\ wstate[wlist[n]] \in {"spawned", "getting", "busy"}
         /\ wstate[wlist[n]] = "getting" => wat[wlist[n]] = cur
    /\ unfinished[cur] = Len(items[cur]) + Cardinality({w \in Worker : wstate[w] = "busy"})

(* A hot swap gives the requests it finds in the queue priority over the   *)
(* new limit: none that awaits its dispatch leaves the queues unserved     *)
(* (service.py:71-80).                                                     *)
NothingDropped ==
  \A r \in Requests : fut[r] = "pending" /\ calls[r] = 0 => Queued(r)
=============================================================================
