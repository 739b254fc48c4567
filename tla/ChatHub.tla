------------------------------ MODULE ChatHub -------------------------------
(***************************************************************************)
(* qr_automation/chat: the endpoints of the chat server.  A post is        *)
(* stored, audited, broadcast to the sockets of its room and then, if it   *)
(* names an adapter, submitted to the gateway, whose promise is the module *)
(* DeliveryContract; here a submit just ends, with any outcome.            *)
(*                                                                         *)
(* All endpoints are coroutines of one event loop.  SQLite and the audit   *)
(* file are written without suspending, and the lock of ConnectionManager  *)
(* is held over no await, so only accepting a socket, sending to one,      *)
(* receiving from one and submitting divide a call into several actions.   *)
(***************************************************************************)
EXTENDS Integers, FiniteSets, SequencesExt

CONSTANTS
  Posts,      \* calls of POST /messages, each with its message
  Sockets,    \* connections of /ws/{room}
  Agents,     \* the ids used as senders
  Rooms,
  RoomOf,     \* the room of every post and of every socket
  SenderOf,   \* the sender_id of every post
  Targeted,   \* the posts with a target_adapter
  MaxFaults   \* bound: failures of storage and audit log and ends of the process

ASSUME ChatAssumption ==
  /\ RoomOf \in [Posts \cup Sockets -> Rooms]
  /\ SenderOf \in [Posts -> Agents]
  /\ Targeted \subseteq Posts
  /\ MaxFaults \in Nat

VARIABLES
  agents,    \* table agents
  messages,  \* table messages, in the order of created_at
  audit,     \* the events of the audit file, those of frames left out
  rooms,     \* ConnectionManager._rooms; no sockets stands for no entry
  ws,        \* where the endpoint of every socket is
  seen,      \* the messages every socket was sent
  pc,        \* where every post is
  left,      \* the sockets its broadcast has still to serve
  answer,    \* what its caller was told
  outcome,   \* what became of its submit
  copied,    \* history: the sockets its broadcast set out to serve
  earlier,   \* history: the posts answered before it was called
  faults

files == <<agents, messages, audit>>
hub   == <<rooms, ws, seen>>
calls == <<pc, left, answer, outcome, copied, earlier>>
vars  == <<files, hub, calls, faults>>

Events == {"message_stored", "gateway_response", "gateway_error"} \X Posts
            \cup {"agent_registered"} \X Agents
InRoom   == {"open", "gone", "broken"}
Outcomes == {"response", "empty", "refused", "raised"}

Init ==
  /\ agents = {} /\ messages = <<>> /\ audit = {}
  /\ rooms = [r \in Rooms |-> <<>>]
  /\ ws = [s \in Sockets |-> "new"]
  /\ seen = [s \in Sockets |-> <<>>]
  /\ pc = [p \in Posts |-> "idle"]
  /\ left = [p \in Posts |-> <<>>]
  /\ answer = [p \in Posts |-> "none"]
  /\ outcome = [p \in Posts |-> "none"]
  /\ copied = [p \in Posts |-> {}]
  /\ earlier = [p \in Posts |-> {}]
  /\ faults = 0

Logged(e) == audit' = audit \cup {e}
Fault == faults < MaxFaults /\ faults' = faults + 1

-----------------------------------------------------------------------------
(* POST /agents: replaces an agent of the same id.  If the log fails, the  *)
(* agent is registered all the same.                                       *)
CreateAgent(a) ==
  /\ agents' = agents \cup {a}
  /\ Logged(<<"agent_registered", a>>)
  /\ UNCHANGED <<messages, hub, calls, faults>>

CreateAgentUnlogged(a) ==
  /\ Fault
  /\ agents' = agents \cup {a}
  /\ UNCHANGED <<messages, audit, hub, calls>>

-----------------------------------------------------------------------------
(* POST /messages.                                                         *)
Answered == {p \in Posts : answer[p] # "none"}
Answer(p, a) == pc' = [pc EXCEPT ![p] = "done"] /\ answer' = [answer EXCEPT ![p] = a]

(* The call of p with l still to serve: it awaits a send, or the broadcast *)
(* is over and it awaits its submit, or it returns.                        *)
ProceedEarly(p, l) ==  \* Mutant: the broadcast is not awaited
  /\ left' = [left EXCEPT ![p] = l]
  /\ pc' = [pc EXCEPT ![p] = IF l # <<>> THEN "sending"
                             ELSE IF p \in Targeted THEN "asking" ELSE "done"]
  /\ answer' = [answer EXCEPT ![p] = IF p \in Targeted THEN @ ELSE "ok"]
  /\ outcome' = [outcome EXCEPT ![p] =
                   IF l = <<>> /\ p \in Targeted THEN "pending" ELSE @]

ProceedIfHeard(p, l) ==  \* Mutant: a message nobody listens to is not submitted
  /\ left' = [left EXCEPT ![p] = l]
  /\ \/ l # <<>> /\ pc' = [pc EXCEPT ![p] = "sending"] /\ UNCHANGED <<answer, outcome>>
     \/ /\ l = <<>> /\ p \in Targeted /\ pc[p] = "sending"
        /\ pc' = [pc EXCEPT ![p] = "asking"]
        /\ outcome' = [outcome EXCEPT ![p] = "pending"]
        /\ UNCHANGED answer
     \/ l = <<>> /\ (p \notin Targeted \/ pc[p] = "idle") /\ Answer(p, "ok") /\ UNCHANGED outcome

Proceed(p, l) ==
  /\ left' = [left EXCEPT ![p] = l]
  /\ \/ l # <<>> /\ pc' = [pc EXCEPT ![p] = "sending"] /\ UNCHANGED <<answer, outcome>>
     \/ /\ l = <<>> /\ p \in Targeted
        /\ pc' = [pc EXCEPT ![p] = "asking"]
        /\ outcome' = [outcome EXCEPT ![p] = "pending"]
        /\ UNCHANGED answer
     \/ l = <<>> /\ p \notin Targeted /\ Answer(p, "ok") /\ UNCHANGED outcome

(* The call is made; known is whether its sender is.                       *)
Called(p, known) ==
  /\ pc[p] = "idle"
  /\ known = (SenderOf[p] \in agents)
  /\ earlier' = [earlier EXCEPT ![p] = Answered]

Broadcast(p) ==
  /\ copied' = [copied EXCEPT ![p] = ToSet(rooms[RoomOf[p]])]
  /\ Proceed(p, rooms[RoomOf[p]])

Post(p) ==
  /\ Called(p, TRUE)
  /\ messages' = Append(messages, p)
  /\ Logged(<<"message_stored", p>>)
  /\ Broadcast(p)
  /\ UNCHANGED <<agents, hub, faults>>

PostUnknown(p) ==
  /\ Called(p, FALSE)
  /\ Answer(p, "not_found")
  /\ UNCHANGED <<files, hub, left, outcome, copied, faults>>

PostUnstored(p) ==  \* the storage raises
  /\ Called(p, TRUE) /\ Fault
  /\ Answer(p, "error")
  /\ UNCHANGED <<files, hub, left, outcome, copied>>

PostUnloggedIgnored(p) ==  \* Mutant: an audit log that fails is ignored
  /\ Called(p, TRUE) /\ Fault
  /\ messages' = Append(messages, p)
  /\ Broadcast(p)
  /\ UNCHANGED <<agents, audit, hub>>

PostUnlogged(p) ==  \* the audit log raises
  /\ Called(p, TRUE) /\ Fault
  /\ messages' = Append(messages, p)
  /\ Answer(p, "error")
  /\ UNCHANGED <<agents, audit, hub, left, outcome, copied>>

(* The send to the next socket ends.  Sent to a connection that is no more *)
(* a message is lost, or the send raises, which nobody catches: the call   *)
(* fails, the other sockets and the adapter get nothing.                   *)
Sends(p) ==
  /\ pc[p] = "sending"
  /\ LET s == Head(left[p])
     IN  seen' = IF ws[s] = "open" THEN [seen EXCEPT ![s] = Append(@, p)] ELSE seen
  /\ Proceed(p, Tail(left[p]))
  /\ UNCHANGED <<files, rooms, ws, copied, earlier, faults>>

SendRaises(p) ==
  /\ pc[p] = "sending"
  /\ ws[Head(left[p])] # "open"
  /\ Answer(p, "error")
  /\ UNCHANGED <<files, hub, left, outcome, copied, earlier, faults>>

(* The submit ends: with an answer, an empty one, a ValueError, or another *)
(* exception, which nobody catches.                                        *)
SubmitEndsCaught(p, o) ==  \* Mutant: every exception is caught, one kind is logged
  /\ pc[p] = "asking"
  /\ outcome' = [outcome EXCEPT ![p] = o]
  /\ Answer(p, "ok")
  /\ CASE o = "response" -> Logged(<<"gateway_response", p>>)
       [] o = "refused"  -> Logged(<<"gateway_error", p>>)
       [] OTHER          -> UNCHANGED audit
  /\ UNCHANGED <<agents, messages, hub, left, copied, earlier, faults>>

SubmitEnds(p, o) ==
  /\ pc[p] = "asking"
  /\ outcome' = [outcome EXCEPT ![p] = o]
  /\ Answer(p, IF o = "raised" THEN "error" ELSE "ok")
  /\ CASE o = "response" -> Logged(<<"gateway_response", p>>)
       [] o = "refused"  -> Logged(<<"gateway_error", p>>)
       [] OTHER          -> UNCHANGED audit
  /\ UNCHANGED <<agents, messages, hub, left, copied, earlier, faults>>

SubmitEndsUnlogged(p, o) ==  \* the audit log raises
  /\ pc[p] = "asking" /\ o \in {"response", "refused"} /\ Fault
  /\ outcome' = [outcome EXCEPT ![p] = o]
  /\ Answer(p, "error")
  /\ UNCHANGED <<files, hub, left, copied, earlier>>

-----------------------------------------------------------------------------
(* /ws/{room}: accept, join the room, then receive until it ends.          *)
At(s, from, to) == ws[s] = from /\ ws' = [ws EXCEPT ![s] = to]

Connect(s) == At(s, "new", "accepting") /\ UNCHANGED <<files, rooms, seen, calls, faults>>

AcceptRaises(s) == At(s, "accepting", "left") /\ UNCHANGED <<files, rooms, seen, calls, faults>>

Accepted(s) ==
  /\ At(s, "accepting", "open")
  /\ rooms' = [rooms EXCEPT ![RoomOf[s]] = Append(@, s)]
  /\ UNCHANGED <<files, seen, calls, faults>>

(* The client goes away; the endpoint will learn of it when it receives.   *)
ClientLeaves(s) == At(s, "open", "gone") /\ UNCHANGED <<files, rooms, seen, calls, faults>>

DisconnectsRoom(s) ==  \* Mutant: the room is removed with its first socket to leave
  /\ At(s, "gone", "left")
  /\ rooms' = [rooms EXCEPT ![RoomOf[s]] = <<>>]
  /\ UNCHANGED <<files, seen, calls, faults>>

DisconnectsShared(s) ==  \* Mutant: broadcasts iterate over the room's own list
  /\ At(s, "gone", "left")
  /\ rooms' = [rooms EXCEPT ![RoomOf[s]] = RemoveFirst(@, s)]
  /\ left' = [p \in Posts |->
                IF pc[p] # "sending" \/ RoomOf[p] # RoomOf[s] THEN left[p]
                ELSE IF Contains(left[p], s) THEN RemoveFirst(left[p], s) ELSE Tail(left[p])]
  /\ pc' = [p \in Posts |-> IF pc[p] = "sending" /\ left'[p] = <<>> THEN "done" ELSE pc[p]]
  /\ answer' = [p \in Posts |-> IF pc'[p] # pc[p] THEN "ok" ELSE answer[p]]
  /\ UNCHANGED <<files, seen, outcome, copied, earlier, faults>>

Disconnects(s) ==
  /\ At(s, "gone", "left")
  /\ rooms' = [rooms EXCEPT ![RoomOf[s]] = RemoveFirst(@, s)]
  /\ UNCHANGED <<files, seen, calls, faults>>

(* A frame that is JSON is logged, which changes nothing else; such log    *)
(* entries are left out.  One that is not JSON, or that cannot be logged,  *)
(* perhaps the last before the client went away, ends the endpoint and     *)
(* with it the connection, but the socket stays in its room.               *)
Breaks(s) == \E from \in {"open", "gone"} : At(s, from, "broken")

FrameMalformed(s) == Breaks(s) /\ UNCHANGED <<files, rooms, seen, calls, faults>>
FrameUnlogged(s)  == Breaks(s) /\ Fault /\ UNCHANGED <<files, rooms, seen, calls>>

-----------------------------------------------------------------------------
(* The process ends and is started anew.  The files remain, calls and      *)
(* connections do not.                                                     *)
Restarted ==
  /\ Fault
  /\ rooms' = [r \in Rooms |-> <<>>]
  /\ ws' = [s \in Sockets |-> IF ws[s] = "new" THEN "new" ELSE "left"]
  /\ left' = [p \in Posts |-> <<>>]
  /\ outcome' = [p \in Posts |-> IF outcome[p] = "pending" THEN "lost" ELSE outcome[p]]
  /\ UNCHANGED <<agents, audit, seen, copied>>

CutOff(P) ==
  /\ pc' = [p \in Posts |-> IF p \in P THEN "done" ELSE pc[p]]
  /\ answer' = [p \in Posts |-> IF p \in P THEN "lost" ELSE answer[p]]

Running == {p \in Posts : pc[p] \in {"sending", "asking"}}

Crash == Restarted /\ CutOff(Running) /\ UNCHANGED <<messages, earlier>>

(* The same between storing a message and logging that it was stored.      *)
CrashUnlogged(p) ==
  /\ Called(p, TRUE)
  /\ Restarted /\ CutOff(Running \cup {p})
  /\ messages' = Append(messages, p)

-----------------------------------------------------------------------------
(* GET /messages for the rooms in R, which is one room or all; the order   *)
(* is that of the table.                                                   *)
ListMessages(R) == {p \in ToSet(messages) : RoomOf[p] \in R}

PostEnds(p) ==
  \/ Sends(p) \/ SendRaises(p)
  \/ \E o \in Outcomes : SubmitEnds(p, o) \/ SubmitEndsUnlogged(p, o)

Next ==
  \/ \E a \in Agents : CreateAgent(a) \/ CreateAgentUnlogged(a)
  \/ \E p \in Posts :
       \/ Post(p) \/ PostUnknown(p) \/ PostUnstored(p) \/ PostUnlogged(p) \/ CrashUnlogged(p)
       \/ PostEnds(p)
  \/ \E s \in Sockets :
       \/ Connect(s) \/ AcceptRaises(s) \/ Accepted(s)
       \/ ClientLeaves(s) \/ Disconnects(s)
       \/ FrameMalformed(s) \/ FrameUnlogged(s)
  \/ Crash

(* The ASGI server bounds a send by its ping timeout and the adapters      *)
(* bound a submit; callers and clients need not do anything.               *)
Fairness == \A p \in Posts : WF_vars(PostEnds(p))

SafeSpec == Init /\ [][Next]_vars
Spec     == SafeSpec /\ Fairness

-----------------------------------------------------------------------------
TypeOK ==
  /\ agents \subseteq Agents
  /\ messages \in Seq(Posts)
  /\ audit \subseteq Events
  /\ rooms \in [Rooms -> Seq(Sockets)]
  /\ ws \in [Sockets -> InRoom \cup {"new", "accepting", "left"}]
  /\ seen \in [Sockets -> Seq(Posts)]
  /\ pc \in [Posts -> {"idle", "sending", "asking", "done"}]
  /\ left \in [Posts -> Seq(Sockets)]
  /\ \A p \in Posts :
       /\ pc[p] = "sending" => left[p] # <<>>
       /\ pc[p] = "asking" <=> outcome[p] = "pending"
       /\ pc[p] = "done" <=> answer[p] # "none"
  /\ answer \in [Posts -> {"none", "ok", "not_found", "error", "lost"}]
  /\ outcome \in [Posts -> Outcomes \cup {"none", "pending", "lost"}]
  /\ copied \in [Posts -> SUBSET Sockets]
  /\ earlier \in [Posts -> SUBSET Posts]
  /\ faults \in 0..MaxFaults

(* A room lists every socket whose endpoint joined and did not handle its  *)
(* disconnect, once, and no other, whatever joined or left meanwhile: those*)
(* that are connected, those whose disconnect is still to be noticed, and  *)
(* those whose endpoint ended any other way, for good (server.py:62-72,    *)
(* 275-281).                                                               *)
RoomsAreExact ==
  \A r \in Rooms :
    /\ \A s \in Sockets : Contains(rooms[r], s) <=> RoomOf[s] = r /\ ws[s] \in InRoom
    /\ IsInjective(rooms[r])

(* What a socket was ever sent is in the history of its room and in the    *)
(* audit log, failures of either and crashes notwithstanding               *)
(* (server.py:193-203).                                                    *)
SeenIsRecorded ==
  \A s \in Sockets : \A p \in ToSet(seen[s]) :
    /\ p \in ListMessages({RoomOf[s]})
    /\ <<"message_stored", p>> \in audit

(* A post that was answered normally reached, once, every socket that was  *)
(* in its room when it was stored and is still connected, although sockets *)
(* came and went during the broadcast (server.py:74-78, 241).              *)
AnsweredReachedAll ==
  \A p \in Posts : answer[p] = "ok" =>
    \A s \in copied[p] : ws[s] = "open" =>
      Cardinality({n \in DOMAIN seen[s] : seen[s][n] = p}) = 1

(* Posts that overlap may be seen in different orders by different sockets,*)
(* but none sees a post twice, and nobody sees a post after one that was   *)
(* made when the first had been answered (server.py:74-78, 203, 241).      *)
SeenInOrderOfCalls ==
  \A s \in Sockets :
    /\ IsInjective(seen[s])
    /\ \A m, n \in DOMAIN seen[s] : m < n => seen[s][n] \notin earlier[seen[s][m]]

(* The log tells the outcome of the submit of every post: what it says of  *)
(* one is true, and if the post was answered normally it says it, unless   *)
(* the adapter's answer was empty (server.py:219-240).                     *)
AuditTellsOutcome ==
  \A p \in Posts :
    LET responded == <<"gateway_response", p>> \in audit
        failed    == <<"gateway_error", p>> \in audit
    IN  /\ responded => outcome[p] = "response"
        /\ failed => outcome[p] = "refused"
        /\ p \in Targeted /\ answer[p] = "ok" => responded \/ failed \/ outcome[p] = "empty"

(* A stored message that names an adapter is submitted, unless the process *)
(* ended, the log failed, or a socket the broadcast set out to serve is no *)
(* longer connected (server.py:193-221).                                   *)
StoredIsSubmitted ==
  \A p \in Targeted : Contains(messages, p) ~>
    \/ outcome[p] # "none"
    \/ answer[p] = "lost"
    \/ <<"message_stored", p>> \notin audit
    \/ \E s \in copied[p] : ws[s] # "open"
=============================================================================
