-------------------------- MODULE DeliveryContract --------------------------
(***************************************************************************)
(* What GatewayService.submit promises its callers, without queue, workers *)
(* or configuration: an accepted request is handed to its adapter at most  *)
(* once, the adapter's outcome is the reply unless the caller has given up *)
(* by then, a reply is final, and every accepted request gets one.         *)
(***************************************************************************)
CONSTANT Requests
VARIABLES
  phase,  \* "new", "accepted" (in the gateway), "called" (in its adapter), "finished"
  reply   \* "none", or what the caller got: "result", "error", "cancelled"

vars == <<phase, reply>>

Init == phase = [r \in Requests |-> "new"] /\ reply = [r \in Requests |-> "none"]

Accept(r) ==
  /\ phase[r] = "new" /\ reply[r] = "none"
  /\ phase' = [phase EXCEPT ![r] = "accepted"]
  /\ UNCHANGED reply

(* The service could not be started: nothing was accepted.                 *)
Refuse(r) ==
  /\ phase[r] = "new" /\ reply[r] = "none"
  /\ reply' = [reply EXCEPT ![r] = "error"]
  /\ UNCHANGED phase

Cancel(r) ==
  /\ reply[r] = "none"
  /\ reply' = [reply EXCEPT ![r] = "cancelled"]
  /\ UNCHANGED phase

(* Asking the adapter for a request its caller has given up is allowed.    *)
Dispatch(r) ==
  /\ phase[r] = "accepted"
  /\ phase' = [phase EXCEPT ![r] = "called"]
  /\ UNCHANGED reply

Answer(r, outcome) ==
  /\ phase[r] = "called"
  /\ phase' = [phase EXCEPT ![r] = "finished"]
  /\ reply' = [reply EXCEPT ![r] = IF @ = "none" THEN outcome ELSE @]

(* A worker answers one request and takes up the next in the same step.    *)
AnswerThenDispatch(r, outcome, n) ==
  /\ phase[r] = "called" /\ phase[n] = "accepted"
  /\ phase' = [phase EXCEPT ![r] = "finished", ![n] = "called"]
  /\ reply' = [reply EXCEPT ![r] = IF @ = "none" THEN outcome ELSE @]

Next ==
  \/ \E r \in Requests : Accept(r) \/ Refuse(r) \/ Cancel(r) \/ Dispatch(r)
  \/ \E r, n \in Requests, o \in {"result", "error"} : Answer(r, o) \/ AnswerThenDispatch(r, o, n)

SafeSpec == Init /\ [][Next]_vars

EveryAcceptedAnswered == \A r \in Requests : phase[r] = "accepted" ~> reply[r] # "none"

Spec == SafeSpec /\ EveryAcceptedAnswered
=============================================================================
