---------------------------- MODULE ChatHubProofs ----------------------------
(***************************************************************************)
(* Theorems about ChatHub for every set of posts, sockets, agents and      *)
(* rooms and every bound on the faults.  No fairness is used.              *)
(***************************************************************************)
EXTENDS ChatHub, FiniteSetTheorems, TLAPS

-----------------------------------------------------------------------------
(* Sequences in which nothing occurs twice: the sockets of a room, those a *)
(* broadcast has still to serve, the messages of a socket.                 *)

LEMMA Joined ==
  ASSUME NEW S, NEW s \in Seq(S), NEW x \in S
  PROVE  /\ Append(s, x) \in Seq(S)
         /\ \A y : Contains(Append(s, x), y) <=> Contains(s, y) \/ y = x
         /\ IsInjective(s) /\ ~Contains(s, x) => IsInjective(Append(s, x))
         /\ Len(Append(s, x)) = Len(s) + 1 /\ Append(s, x)[Len(s) + 1] = x
         /\ \A n \in 1..Len(s) : Append(s, x)[n] = s[n]
<1> DEFINE t == Append(s, x)
<1>1. /\ t \in Seq(S) /\ Len(t) = Len(s) + 1 /\ t[Len(s) + 1] = x
      /\ \A n \in 1..Len(s) : t[n] = s[n]
      /\ DOMAIN s = 1..Len(s) /\ DOMAIN t = 1..Len(t)
  OBVIOUS
<1>2. Len(s) \in Nat /\ \A n \in 1..(Len(s) + 1) : n \in 1..Len(s) \/ n = Len(s) + 1
  OBVIOUS
<1> HIDE DEF t
<1>3. \A y : Contains(t, y) <=> Contains(s, y) \/ y = x
  BY <1>1, <1>2 DEF Contains
<1>4. IsInjective(s) /\ ~Contains(s, x) => IsInjective(t)
  BY <1>1, <1>2 DEF IsInjective, Contains
<1> QED
  BY <1>1, <1>3, <1>4 DEF t

LEMMA Served ==
  ASSUME NEW S, NEW s \in Seq(S), s # <<>>, IsInjective(s)
  PROVE  /\ Head(s) \in S /\ Tail(s) \in Seq(S) /\ IsInjective(Tail(s))
         /\ \A y : Contains(Tail(s), y) <=> Contains(s, y) /\ y # Head(s)
         /\ Contains(s, Head(s))
<1> DEFINE t == Tail(s)
<1>1. /\ Head(s) \in S /\ t \in Seq(S) /\ Len(s) \in Nat \ {0} /\ Len(t) = Len(s) - 1
      /\ Head(s) = s[1] /\ \A n \in 1..Len(t) : t[n] = s[n + 1]
      /\ DOMAIN s = 1..Len(s) /\ DOMAIN t = 1..Len(t)
  OBVIOUS
<1> HIDE DEF t
<1>2. /\ \A n \in 1..Len(t) : n + 1 \in 1..Len(s) /\ n + 1 # 1
      /\ \A n \in 1..Len(s) : n = 1 \/ (n - 1 \in 1..Len(t) /\ s[n] = t[n - 1])
      /\ \A m, n \in 1..Len(t) : m + 1 = n + 1 => m = n
      /\ 1 \in 1..Len(s)
  BY <1>1
<1>3. \A m, n \in 1..Len(s) : s[m] = s[n] => m = n
  BY <1>1 DEF IsInjective
<1>4. IsInjective(t)
  <2>1. \A m, n \in 1..Len(t) : t[m] = t[n] => m = n
    BY <1>1, <1>2, <1>3
  <2> QED
    BY <1>1, <2>1 DEF IsInjective
<1>5. ASSUME NEW y PROVE Contains(t, y) <=> Contains(s, y) /\ y # Head(s)
  <2>1. Contains(t, y) => Contains(s, y)
    BY <1>1, <1>2 DEF Contains
  <2>2. ~Contains(t, Head(s))
    BY <1>1, <1>2, <1>3 DEF Contains
  <2>3. Contains(s, y) /\ y # Head(s) => Contains(t, y)
    BY <1>1, <1>2 DEF Contains
  <2> QED
    BY <2>1, <2>2, <2>3
<1> QED
  BY <1>1, <1>2, <1>4, <1>5 DEF t, Contains

LEMMA Removed ==
  ASSUME NEW S, NEW s \in Seq(S), NEW x, IsInjective(s)
  PROVE  /\ RemoveFirst(s, x) \in Seq(S) /\ IsInjective(RemoveFirst(s, x))
         /\ \A y : Contains(RemoveFirst(s, x), y) <=> Contains(s, y) /\ y # x
<1>1. \A m, n \in 1..Len(s) : s[m] = s[n] => m = n
  BY DEF IsInjective
<1>2. CASE ~Contains(s, x)
  <2>1. RemoveFirst(s, x) = s
    BY <1>2 DEF RemoveFirst, Contains
  <2> QED
    BY <1>2, <2>1
<1>3. CASE Contains(s, x)
  <2>1. PICK i \in 1..Len(s) : s[i] = x
    BY <1>3 DEF Contains
  <2>2. \A n \in 1..Len(s) : s[n] = x <=> n = i
    BY <1>1, <2>1
  <2>3. {n \in 1..Len(s) : s[n] = x} = {i}
    BY <2>2
  <2>4. SelectInSeq(s, LAMBDA v : v = x) = i
    BY <2>3 DEF SelectInSeq, Min
  <2> DEFINE a == SubSeq(s, 1, i - 1)
             b == SubSeq(s, i + 1, Len(s))
             t == a \o b
             From(n) == IF n < i THEN n ELSE n + 1
  <2>5. RemoveFirst(s, x) = t
    BY <2>1, <2>4 DEF RemoveFirst, RemoveAt
  <2>6. /\ a \in Seq(S) /\ Len(a) = i - 1 /\ \A n \in 1..(i - 1) : a[n] = s[n]
        /\ b \in Seq(S) /\ Len(b) = Len(s) - i /\ \A n \in 1..(Len(s) - i) : b[n] = s[n + i]
    OBVIOUS
  <2>7. a \in Seq(S) /\ b \in Seq(S)
    BY <2>6
  <2> HIDE DEF a, b
  <2>8. /\ t \in Seq(S) /\ Len(t) = Len(s) - 1 /\ DOMAIN t = 1..Len(t)
        /\ \A n \in 1..Len(t) : t[n] = IF n <= Len(a) THEN a[n] ELSE b[n - Len(a)]
    <3>1. /\ t \in Seq(S) /\ Len(t) = Len(a) + Len(b)
          /\ \A n \in 1..Len(t) : t[n] = IF n <= Len(a) THEN a[n] ELSE b[n - Len(a)]
      BY <2>7
    <3>2. Len(t) = Len(s) - 1
      BY <2>6, <3>1
    <3>3. DOMAIN t = 1..Len(t)
      BY <3>1
    <3> QED
      BY <3>1, <3>2, <3>3
  <2>9. ASSUME NEW n \in 1..Len(t) PROVE From(n) \in 1..Len(s) /\ From(n) # i /\ t[n] = s[From(n)]
    <3>1. CASE n < i
      BY <2>6, <2>8, <3>1
    <3>2. CASE n >= i
      <4>1. n - Len(a) \in 1..(Len(s) - i) /\ (n - Len(a)) + i = n + 1
        BY <2>6, <2>8, <3>2
      <4>2. t[n] = b[n - Len(a)]
        BY <2>6, <2>8, <3>2
      <4> QED
        BY <2>6, <2>8, <3>2, <4>1, <4>2
    <3> QED
      BY <3>1, <3>2
  <2>10. \A m, n \in 1..Len(t) : From(m) = From(n) => m = n
    OBVIOUS
  <2>11. ASSUME NEW n \in 1..Len(s), n # i PROVE \E m \in 1..Len(t) : From(m) = n
    <3>1. CASE n < i
      <4>1. n \in 1..Len(t) /\ From(n) = n
        BY <2>8, <3>1
      <4> QED
        BY <4>1
    <3>2. CASE n > i
      <4>1. n - 1 \in 1..Len(t) /\ From(n - 1) = n
        BY <2>8, <3>2
      <4> QED
        BY <4>1
    <3> QED
      BY <2>11, <3>1, <3>2
  <2> HIDE DEF From, t
  <2>12. IsInjective(t)
    <3>1. \A m, n \in 1..Len(t) : t[m] = t[n] => m = n
      BY <1>1, <2>9, <2>10
    <3>2. DOMAIN t = 1..Len(t)
      BY <2>8 DEF t
    <3> QED
      BY <3>1, <3>2 DEF IsInjective
  <2>13. \A y : Contains(t, y) <=> Contains(s, y) /\ y # x
    BY <2>2, <2>9, <2>11 DEF Contains
  <2> QED
    BY <2>5, <2>8, <2>12, <2>13 DEF t
<1> QED
  BY <1>2, <1>3

-----------------------------------------------------------------------------
(* The inductive invariant.                                                *)

(* What holds of a call wherever it is: its message is stored and logged   *)
(* before a socket is served; it serves, once each, sockets that had been  *)
(* accepted into its room; the posts before it were answered.              *)
Stage(p) ==
  /\ pc[p] \in {"idle", "sending"} => outcome[p] = "none"
  /\ pc[p] = "sending" => Contains(messages, p) /\ <<"message_stored", p>> \in audit
  /\ IsInjective(left[p])
  /\ \A s \in Sockets : Contains(left[p], s) => s \in copied[p]
  /\ \A s \in copied[p] : RoomOf[s] = RoomOf[p] /\ ws[s] \notin {"new", "accepting"}
  /\ \A q \in earlier[p] : answer[q] # "none"

(* What the log says of its submit.                                        *)
Tells(p) ==
  /\ <<"gateway_response", p>> \in audit => outcome[p] = "response"
  /\ <<"gateway_error", p>> \in audit => outcome[p] = "refused"
  /\ p \in Targeted /\ answer[p] = "ok" =>
       \/ <<"gateway_response", p>> \in audit
       \/ <<"gateway_error", p>> \in audit
       \/ outcome[p] = "empty"

(* A socket was sent the message of a call or is still to be served: one   *)
(* of the two, if it was in the room when the call was stored, is still    *)
(* connected and the call has not failed; never both.                      *)
Reach(p, s) ==
  /\ Contains(seen[s], p) =>
       /\ pc[p] # "idle" /\ ~Contains(left[p], s) /\ RoomOf[p] = RoomOf[s]
       /\ Contains(messages, p) /\ <<"message_stored", p>> \in audit
  /\ s \in copied[p] /\ ws[s] = "open" /\ (pc[p] \in {"sending", "asking"} \/ answer[p] = "ok") =>
       Contains(seen[s], p) \/ (pc[p] = "sending" /\ Contains(left[p], s))

(* The order in which a socket sees posts.                                 *)
Ordered ==
  \A s \in Sockets : \A m, n \in DOMAIN seen[s] :
    m < n => seen[s][n] \notin earlier[seen[s][m]]

IInv ==
  /\ TypeOK /\ RoomsAreExact /\ Ordered
  /\ \A s \in Sockets : IsInjective(seen[s])
  /\ \A p \in Posts : Stage(p) /\ Tells(p) /\ \A s \in Sockets : Reach(p, s)

LEMMA Types ==
  ASSUME TypeOK
  PROVE  /\ agents \subseteq Agents /\ messages \in Seq(Posts) /\ audit \subseteq Events
         /\ rooms \in [Rooms -> Seq(Sockets)]
         /\ ws \in [Sockets -> InRoom \cup {"new", "accepting", "left"}]
         /\ seen \in [Sockets -> Seq(Posts)]
         /\ pc \in [Posts -> {"idle", "sending", "asking", "done"}]
         /\ left \in [Posts -> Seq(Sockets)]
         /\ answer \in [Posts -> {"none", "ok", "not_found", "error", "lost"}]
         /\ outcome \in [Posts -> Outcomes \cup {"none", "pending", "lost"}]
         /\ copied \in [Posts -> SUBSET Sockets]
         /\ earlier \in [Posts -> SUBSET Posts]
         /\ faults \in 0..MaxFaults
  BY DEF TypeOK

LEMMA InitHolds == Init => IInv
<1> SUFFICES ASSUME Init PROVE IInv
  OBVIOUS
<1>1. /\ \A S : <<>> \in Seq(S) /\ \A x : ~Contains(<<>>, x)
      /\ IsInjective(<<>>) /\ DOMAIN <<>> = {}
  BY DEF Contains, IsInjective
<1>2. TypeOK
  BY <1>1, ChatAssumption DEF ChatAssumption, Init, TypeOK
<1>3. RoomsAreExact
  BY <1>1, ChatAssumption DEF ChatAssumption, Init, RoomsAreExact, InRoom
<1>4. Ordered
  BY <1>1 DEF Init, Ordered
<1>5. \A s \in Sockets : IsInjective(seen[s])
  BY <1>1 DEF Init
<1>6. \A p \in Posts : Stage(p) /\ Tells(p) /\ \A s \in Sockets : Reach(p, s)
  BY <1>1 DEF Init, Stage, Tells, Reach
<1> QED
  BY <1>2, <1>3, <1>4, <1>5, <1>6 DEF IInv

-----------------------------------------------------------------------------
(* The endpoints of agents and sockets.                                    *)

LEMMA AgentKeeps ==
  ASSUME IInv, NEW a \in Agents,
         agents' = agents \cup {a}, audit' \in {audit, audit \cup {<<"agent_registered", a>>}},
         UNCHANGED <<messages, hub, calls>>, faults' \in 0..MaxFaults
  PROVE  IInv'
<1>1. UNCHANGED <<messages, rooms, ws, seen, pc, left, answer, outcome, copied, earlier>>
  BY DEF hub, calls
<1>2. /\ audit' \subseteq Events /\ audit \subseteq audit'
      /\ \A p : /\ <<"gateway_response", p>> \in audit' <=> <<"gateway_response", p>> \in audit
                /\ <<"gateway_error", p>> \in audit' <=> <<"gateway_error", p>> \in audit
  BY Types DEF Events, IInv
<1>3. TypeOK'
  BY <1>1, <1>2 DEF IInv, TypeOK
<1>4. RoomsAreExact' /\ Ordered' /\ (\A s \in Sockets : IsInjective(seen'[s]))
  BY <1>1 DEF IInv, RoomsAreExact, Ordered
<1>5. ASSUME NEW p \in Posts PROVE (Stage(p) /\ Tells(p) /\ \A s \in Sockets : Reach(p, s))'
  <2>1. Stage(p) /\ Tells(p) /\ \A s \in Sockets : Reach(p, s)
    BY DEF IInv
  <2> QED
    BY <1>1, <1>2, <2>1 DEF Stage, Tells, Reach
<1> QED
  BY <1>3, <1>4, <1>5 DEF IInv

LEMMA CreateAgentKeeps ==
  \A a \in Agents : IInv /\ (CreateAgent(a) \/ CreateAgentUnlogged(a)) => IInv'
<1>1. ASSUME IInv, Fault PROVE faults' \in 0..MaxFaults
  BY <1>1, Types, ChatAssumption DEF IInv, Fault, ChatAssumption
<1>2. IInv => faults \in 0..MaxFaults
  BY Types DEF IInv
<1> QED
  BY <1>1, <1>2, AgentKeeps DEF CreateAgent, CreateAgentUnlogged, Logged

(* Sockets come and go; no socket comes back.                              *)
LEMMA SocketsKeep ==
  ASSUME IInv, TypeOK', RoomsAreExact', UNCHANGED <<files, seen, calls>>,
         \A s \in Sockets : /\ ws'[s] = "open" => ws[s] \in {"open", "accepting"}
                            /\ ws'[s] \in {"new", "accepting"} => ws[s] \in {"new", "accepting"}
  PROVE  IInv'
<1>1. UNCHANGED <<agents, messages, audit, seen, pc, left, answer, outcome, copied, earlier>>
  BY DEF files, calls
<1>2. Ordered' /\ (\A s \in Sockets : IsInjective(seen'[s]))
  BY <1>1 DEF IInv, Ordered
<1>3. ASSUME NEW p \in Posts PROVE (Stage(p) /\ Tells(p) /\ \A s \in Sockets : Reach(p, s))'
  <2>1. Stage(p) /\ Tells(p) /\ \A s \in Sockets : Reach(p, s)
    BY DEF IInv
  <2>2. copied[p] \subseteq Sockets
    BY Types DEF IInv
  <2>3. Stage(p)' /\ Tells(p)'
    BY <1>1, <2>1, <2>2 DEF Stage, Tells
  <2>4. ASSUME NEW s \in Sockets, s \in copied[p], ws'[s] = "open" PROVE ws[s] = "open"
    BY <2>1, <2>4 DEF Stage
  <2> QED
    BY <1>1, <2>1, <2>3, <2>4 DEF Reach
<1> QED
  BY <1>2, <1>3 DEF IInv

LEMMA SocketsStay ==
  ASSUME IInv, TypeOK', UNCHANGED <<files, rooms, seen, calls>>,
         \A s \in Sockets : ws'[s] \in InRoom <=> ws[s] \in InRoom,
         \A s \in Sockets : ws'[s] = "open" => ws[s] = "open",
         \A s \in Sockets : ws'[s] \in {"new", "accepting"} => ws[s] \in {"new", "accepting"}
  PROVE  IInv'
<1>1. ASSUME NEW r \in Rooms
      PROVE  /\ \A s \in Sockets : Contains(rooms'[r], s) <=> RoomOf[s] = r /\ ws'[s] \in InRoom
             /\ IsInjective(rooms'[r])
  BY DEF IInv, RoomsAreExact
<1>2. RoomsAreExact'
  BY <1>1 DEF RoomsAreExact
<1>3. \A s \in Sockets : ws'[s] = "open" => ws[s] \in {"open", "accepting"}
  OBVIOUS
<1> QED
  BY <1>2, <1>3, SocketsKeep

LEMMA ConnectKeeps ==
  \A s \in Sockets : IInv /\ (Connect(s) \/ AcceptRaises(s) \/ ClientLeaves(s)) => IInv'
<1> SUFFICES ASSUME NEW s \in Sockets, IInv, Connect(s) \/ AcceptRaises(s) \/ ClientLeaves(s)
             PROVE  IInv'
  OBVIOUS
<1>1. /\ UNCHANGED <<files, rooms, seen, calls, faults>>
      /\ \/ ws[s] = "new" /\ ws' = [ws EXCEPT ![s] = "accepting"]
         \/ ws[s] = "accepting" /\ ws' = [ws EXCEPT ![s] = "left"]
         \/ ws[s] = "open" /\ ws' = [ws EXCEPT ![s] = "gone"]
  BY DEF Connect, AcceptRaises, ClientLeaves, At
<1>2. ws \in [Sockets -> InRoom \cup {"new", "accepting", "left"}]
  BY Types DEF IInv
<1>3. TypeOK'
  BY <1>1, <1>2 DEF IInv, TypeOK, files, calls, InRoom
<1>4. /\ \A t \in Sockets : ws'[t] \in InRoom <=> ws[t] \in InRoom
      /\ \A t \in Sockets : ws'[t] = "open" => ws[t] = "open"
      /\ \A t \in Sockets : ws'[t] \in {"new", "accepting"} => ws[t] \in {"new", "accepting"}
  BY <1>1, <1>2 DEF InRoom
<1>5. UNCHANGED <<files, rooms, seen, calls>>
  BY <1>1
<1> QED
  BY <1>3, <1>4, <1>5, SocketsStay

LEMMA FrameKeeps == \A s \in Sockets : IInv /\ (FrameMalformed(s) \/ FrameUnlogged(s)) => IInv'
<1> SUFFICES ASSUME NEW s \in Sockets, IInv, FrameMalformed(s) \/ FrameUnlogged(s) PROVE IInv'
  OBVIOUS
<1>1. /\ UNCHANGED <<files, rooms, seen, calls>> /\ faults' \in 0..MaxFaults
      /\ ws[s] \in {"open", "gone"} /\ ws' = [ws EXCEPT ![s] = "broken"]
  BY Types, ChatAssumption DEF IInv, FrameMalformed, FrameUnlogged, Breaks, At, Fault, ChatAssumption
<1>2. ws \in [Sockets -> InRoom \cup {"new", "accepting", "left"}]
  BY Types DEF IInv
<1>3. TypeOK'
  BY <1>1, <1>2 DEF IInv, TypeOK, files, calls, InRoom
<1>4. /\ \A t \in Sockets : ws'[t] \in InRoom <=> ws[t] \in InRoom
      /\ \A t \in Sockets : ws'[t] = "open" => ws[t] = "open"
      /\ \A t \in Sockets : ws'[t] \in {"new", "accepting"} => ws[t] \in {"new", "accepting"}
  BY <1>1, <1>2 DEF InRoom
<1>5. UNCHANGED <<files, rooms, seen, calls>>
  BY <1>1
<1> QED
  BY <1>3, <1>4, <1>5, SocketsStay

LEMMA AcceptedKeeps == \A s \in Sockets : IInv /\ Accepted(s) => IInv'
<1> SUFFICES ASSUME NEW s \in Sockets, IInv, Accepted(s) PROVE IInv'
  OBVIOUS
<1> DEFINE r == RoomOf[s]
<1>1. /\ UNCHANGED <<files, seen, calls, faults>>
      /\ ws[s] = "accepting" /\ ws' = [ws EXCEPT ![s] = "open"]
      /\ rooms' = [rooms EXCEPT ![r] = Append(@, s)]
  BY DEF Accepted, At
<1>2. /\ ws \in [Sockets -> InRoom \cup {"new", "accepting", "left"}]
      /\ rooms \in [Rooms -> Seq(Sockets)] /\ r \in Rooms
  BY Types, ChatAssumption DEF IInv, ChatAssumption
<1>3. ~Contains(rooms[r], s) /\ IsInjective(rooms[r])
  BY <1>1, <1>2 DEF IInv, RoomsAreExact, InRoom
<1> HIDE DEF r
<1>4. /\ rooms'[r] \in Seq(Sockets) /\ IsInjective(rooms'[r])
      /\ \A t : Contains(rooms'[r], t) <=> Contains(rooms[r], t) \/ t = s
      /\ \A q \in Rooms \ {r} : rooms'[q] = rooms[q]
      /\ rooms' \in [Rooms -> Seq(Sockets)]
  <2>1. rooms'[r] = Append(rooms[r], s) /\ rooms[r] \in Seq(Sockets)
    BY <1>1, <1>2
  <2> QED
    BY <1>1, <1>2, <1>3, <2>1, Joined
<1>5. TypeOK'
  BY <1>1, <1>2, <1>4 DEF IInv, TypeOK, files, calls, InRoom
<1>6. RoomsAreExact'
  <2>1. ASSUME NEW q \in Rooms
        PROVE  /\ \A t \in Sockets : Contains(rooms'[q], t) <=> RoomOf[t] = q /\ ws'[t] \in InRoom
               /\ IsInjective(rooms'[q])
    <3>1. /\ \A t \in Sockets : Contains(rooms[q], t) <=> RoomOf[t] = q /\ ws[t] \in InRoom
          /\ IsInjective(rooms[q])
      BY DEF IInv, RoomsAreExact
    <3>2. \A t \in Sockets : ws'[t] \in InRoom <=> ws[t] \in InRoom \/ t = s
      BY <1>1, <1>2 DEF InRoom
    <3> QED
      BY <1>4, <3>1, <3>2 DEF r
  <2> QED
    BY <2>1 DEF RoomsAreExact
<1>7. \A t \in Sockets : /\ ws'[t] = "open" => ws[t] \in {"open", "accepting"}
                         /\ ws'[t] \in {"new", "accepting"} => ws[t] \in {"new", "accepting"}
  BY <1>1, <1>2
<1> QED
  BY <1>1, <1>5, <1>6, <1>7, SocketsKeep

LEMMA DisconnectsKeeps == \A s \in Sockets : IInv /\ Disconnects(s) => IInv'
<1> SUFFICES ASSUME NEW s \in Sockets, IInv, Disconnects(s) PROVE IInv'
  OBVIOUS
<1> DEFINE r == RoomOf[s]
<1>1. /\ UNCHANGED <<files, seen, calls, faults>>
      /\ ws[s] = "gone" /\ ws' = [ws EXCEPT ![s] = "left"]
      /\ rooms' = [rooms EXCEPT ![r] = RemoveFirst(@, s)]
  BY DEF Disconnects, At
<1>2. /\ ws \in [Sockets -> InRoom \cup {"new", "accepting", "left"}]
      /\ rooms \in [Rooms -> Seq(Sockets)] /\ r \in Rooms
  BY Types, ChatAssumption DEF IInv, ChatAssumption
<1> HIDE DEF r
<1>3. IsInjective(rooms[r])
  BY <1>2 DEF IInv, RoomsAreExact
<1>4. /\ rooms'[r] \in Seq(Sockets) /\ IsInjective(rooms'[r])
      /\ \A t : Contains(rooms'[r], t) <=> Contains(rooms[r], t) /\ t # s
      /\ \A q \in Rooms \ {r} : rooms'[q] = rooms[q]
      /\ rooms' \in [Rooms -> Seq(Sockets)]
  <2>1. rooms'[r] = RemoveFirst(rooms[r], s) /\ rooms[r] \in Seq(Sockets)
    BY <1>1, <1>2
  <2>2. /\ RemoveFirst(rooms[r], s) \in Seq(Sockets) /\ IsInjective(RemoveFirst(rooms[r], s))
        /\ \A t : Contains(RemoveFirst(rooms[r], s), t) <=> Contains(rooms[r], t) /\ t # s
    BY <1>3, <2>1, Removed
  <2> QED
    BY <1>1, <1>2, <2>1, <2>2
<1>5. TypeOK'
  BY <1>1, <1>2, <1>4 DEF IInv, TypeOK, files, calls, InRoom
<1>6. RoomsAreExact'
  <2>1. ASSUME NEW q \in Rooms
        PROVE  /\ \A t \in Sockets : Contains(rooms'[q], t) <=> RoomOf[t] = q /\ ws'[t] \in InRoom
               /\ IsInjective(rooms'[q])
    <3>1. /\ \A t \in Sockets : Contains(rooms[q], t) <=> RoomOf[t] = q /\ ws[t] \in InRoom
          /\ IsInjective(rooms[q])
      BY DEF IInv, RoomsAreExact
    <3>2. \A t \in Sockets : ws'[t] \in InRoom <=> ws[t] \in InRoom /\ t # s
      BY <1>1, <1>2 DEF InRoom
    <3> QED
      BY <1>4, <3>1, <3>2 DEF r
  <2> QED
    BY <2>1 DEF RoomsAreExact
<1>7. \A t \in Sockets : /\ ws'[t] = "open" => ws[t] \in {"open", "accepting"}
                         /\ ws'[t] \in {"new", "accepting"} => ws[t] \in {"new", "accepting"}
  BY <1>1, <1>2
<1> QED
  BY <1>1, <1>5, <1>6, <1>7, SocketsKeep

-----------------------------------------------------------------------------
(* The calls.                                                              *)

(* Nothing is done to the call of q, and nothing is logged of its submit.  *)
Aside(q) ==
  /\ pc'[q] = pc[q] /\ left'[q] = left[q] /\ answer'[q] = answer[q]
  /\ outcome'[q] = outcome[q] /\ copied'[q] = copied[q] /\ earlier'[q] = earlier[q]
  /\ <<"gateway_response", q>> \in audit' => <<"gateway_response", q>> \in audit
  /\ <<"gateway_error", q>> \in audit' => <<"gateway_error", q>> \in audit

(* A step of the call of p: it may store and log its message, serve one    *)
(* socket that has not had it, and is nobody else's.                       *)
LEMMA CallKeeps ==
  ASSUME IInv, TypeOK', NEW p \in Posts, UNCHANGED <<agents, rooms, ws>>,
         pc[p] # "done" \/ answer'[p] # "none",
         \A q \in Posts : q # p => Aside(q),
         \A q : Contains(messages, q) => Contains(messages', q),
         audit \subseteq audit',
         earlier'[p] = earlier[p] \/ pc[p] = "idle",
         \A s \in Sockets : \/ seen'[s] = seen[s]
                            \/ /\ pc[p] = "sending" /\ ~Contains(seen[s], p)
                               /\ seen'[s] = Append(seen[s], p),
         (Stage(p) /\ Tells(p) /\ \A s \in Sockets : Reach(p, s))'
  PROVE  IInv'
<1>1. seen \in [Sockets -> Seq(Posts)]
  BY Types DEF IInv
<1>2. ASSUME NEW s \in Sockets
      PROVE  /\ IsInjective(seen'[s])
             /\ \A q : Contains(seen'[s], q) => Contains(seen[s], q) \/ q = p
             /\ \A q : Contains(seen[s], q) => Contains(seen'[s], q)
  <2>1. seen[s] \in Seq(Posts) /\ IsInjective(seen[s])
    BY <1>1 DEF IInv
  <2>2. CASE seen'[s] = Append(seen[s], p) /\ ~Contains(seen[s], p)
    BY <2>1, <2>2, Joined
  <2> QED
    BY <2>1, <2>2
<1>3. ASSUME NEW q \in Posts PROVE answer[q] # "none" => answer'[q] # "none"
  <2>1. pc[q] = "done" <=> answer[q] # "none"
    BY DEF IInv, TypeOK
  <2> QED
    BY <2>1 DEF Aside
<1>4. ASSUME NEW q \in Posts, q # p PROVE (Stage(q) /\ Tells(q) /\ \A s \in Sockets : Reach(q, s))'
  <2>0. /\ pc'[q] = pc[q] /\ left'[q] = left[q] /\ answer'[q] = answer[q]
        /\ outcome'[q] = outcome[q] /\ copied'[q] = copied[q] /\ earlier'[q] = earlier[q]
        /\ ws' = ws /\ (Contains(messages, q) => Contains(messages', q))
        /\ <<"message_stored", q>> \in audit => <<"message_stored", q>> \in audit'
        /\ <<"gateway_response", q>> \in audit' <=> <<"gateway_response", q>> \in audit
        /\ <<"gateway_error", q>> \in audit' <=> <<"gateway_error", q>> \in audit
    BY <1>4 DEF Aside
  <2>1. Stage(q) /\ Tells(q) /\ \A s \in Sockets : Reach(q, s)
    BY DEF IInv
  <2>2. earlier[q] \subseteq Posts
    BY Types DEF IInv
  <2>3. Stage(q)'
    BY <1>3, <2>0, <2>1, <2>2 DEF Stage
  <2>4. Tells(q)'
    BY <2>0, <2>1 DEF Tells
  <2>5. ASSUME NEW s \in Sockets PROVE Reach(q, s)'
    <3>1. Reach(q, s)
      BY <2>1
    <3>2. Contains(seen'[s], q) <=> Contains(seen[s], q)
      BY <1>2, <1>4
    <3> QED
      BY <2>0, <3>1, <3>2 DEF Reach
  <2> QED
    BY <2>3, <2>4, <2>5
<1>5. RoomsAreExact'
  BY DEF IInv, RoomsAreExact
<1>6. Ordered'
  <2> SUFFICES ASSUME NEW s \in Sockets, NEW m \in DOMAIN seen'[s], NEW n \in DOMAIN seen'[s], m < n
               PROVE  seen'[s][n] \notin earlier'[seen'[s][m]]
    BY DEF Ordered
  <2>1. seen[s] \in Seq(Posts) /\ DOMAIN seen[s] = 1..Len(seen[s]) /\ Len(seen[s]) \in Nat
    BY <1>1
  <2>2. \A x \in 1..Len(seen[s]) : /\ seen[s][x] \in Posts /\ Contains(seen[s], seen[s][x])
                                  /\ earlier'[seen[s][x]] = earlier[seen[s][x]]
    <3>1. ASSUME NEW x \in 1..Len(seen[s])
          PROVE  /\ seen[s][x] \in Posts /\ Contains(seen[s], seen[s][x])
                 /\ earlier'[seen[s][x]] = earlier[seen[s][x]]
      <4>1. seen[s][x] \in Posts /\ Contains(seen[s], seen[s][x])
        BY <2>1 DEF Contains
      <4>2. pc[seen[s][x]] # "idle"
        BY <4>1 DEF IInv, Reach
      <4>3. \A q \in Posts : pc[q] # "idle" => earlier'[q] = earlier[q]
        BY DEF Aside
      <4> QED
        BY <4>1, <4>2, <4>3
    <3> QED
      BY <3>1
  <2>3. CASE seen'[s] = seen[s]
    BY <2>1, <2>2, <2>3 DEF IInv, Ordered
  <2>4. CASE seen'[s] = Append(seen[s], p) /\ pc[p] = "sending"
    <3>1. /\ DOMAIN seen'[s] = 1..(Len(seen[s]) + 1) /\ seen'[s][Len(seen[s]) + 1] = p
          /\ \A x \in 1..Len(seen[s]) : seen'[s][x] = seen[s][x]
      BY <2>1, <2>4
    <3>2. m \in 1..Len(seen[s])
      BY <2>1, <3>1
    <3>3. CASE n \in 1..Len(seen[s])
      BY <2>1, <2>2, <3>1, <3>2, <3>3 DEF IInv, Ordered
    <3>4. CASE n = Len(seen[s]) + 1
      <4>1. answer[p] = "none"
        BY <2>4 DEF IInv, TypeOK
      <4>2. Stage(seen[s][m])
        BY <2>2, <3>2 DEF IInv
      <4>3. p \notin earlier[seen[s][m]]
        BY <4>1, <4>2 DEF Stage
      <4> QED
        BY <2>2, <3>1, <3>2, <3>4, <4>3
    <3> QED
      BY <2>1, <3>1, <3>3, <3>4
  <2> QED
    BY <2>3, <2>4
<1> QED
  BY <1>2, <1>4, <1>5, <1>6 DEF IInv

LEMMA CallTypes ==
  ASSUME TypeOK, NEW p \in Posts, UNCHANGED <<agents, rooms, ws>>,
         \A q \in Posts : q # p => Aside(q),
         messages' \in Seq(Posts), audit' \subseteq Events, seen' \in [Sockets -> Seq(Posts)],
         pc' \in [Posts -> {"idle", "sending", "asking", "done"}],
         left' \in [Posts -> Seq(Sockets)],
         answer' \in [Posts -> {"none", "ok", "not_found", "error", "lost"}],
         outcome' \in [Posts -> Outcomes \cup {"none", "pending", "lost"}],
         copied' \in [Posts -> SUBSET Sockets], earlier' \in [Posts -> SUBSET Posts],
         faults' \in 0..MaxFaults,
         pc'[p] = "sending" => left'[p] # <<>>,
         pc'[p] = "asking" <=> outcome'[p] = "pending",
         pc'[p] = "done" <=> answer'[p] # "none"
  PROVE  TypeOK'
<1>0. \A q \in Posts : /\ pc[q] = "sending" => left[q] # <<>>
                       /\ pc[q] = "asking" <=> outcome[q] = "pending"
                       /\ pc[q] = "done" <=> answer[q] # "none"
  BY DEF TypeOK
<1>1. ASSUME NEW q \in Posts
      PROVE  /\ pc'[q] = "sending" => left'[q] # <<>>
             /\ pc'[q] = "asking" <=> outcome'[q] = "pending"
             /\ pc'[q] = "done" <=> answer'[q] # "none"
  <2>1. CASE q = p
    BY <2>1
  <2>2. CASE q # p
    <3>1. Aside(q)
      BY <2>2
    <3> QED
      BY <1>0, <3>1 DEF Aside
  <2> QED
    BY <2>1, <2>2
<1> QED
  BY <1>1 DEF TypeOK

(* The three ways on from a point where l is still to be served.           *)
LEMMA Proceeds ==
  ASSUME TypeOK, NEW p \in Posts, NEW l \in Seq(Sockets), Proceed(p, l),
         pc[p] # "done", outcome[p] = "none"
  PROVE  /\ pc' \in [Posts -> {"idle", "sending", "asking", "done"}]
         /\ left' \in [Posts -> Seq(Sockets)]
         /\ answer' \in [Posts -> {"none", "ok", "not_found", "error", "lost"}]
         /\ outcome' \in [Posts -> Outcomes \cup {"none", "pending", "lost"}]
         /\ \A q \in Posts : q # p => /\ pc'[q] = pc[q] /\ left'[q] = left[q]
                                     /\ answer'[q] = answer[q] /\ outcome'[q] = outcome[q]
         /\ left'[p] = l
         /\ \/ l # <<>> /\ pc'[p] = "sending" /\ answer'[p] = "none" /\ outcome'[p] = "none"
            \/ l = <<>> /\ pc'[p] = "asking" /\ answer'[p] = "none" /\ outcome'[p] = "pending"
            \/ /\ l = <<>> /\ p \notin Targeted
               /\ pc'[p] = "done" /\ answer'[p] = "ok" /\ outcome'[p] = "none"
<1>1. /\ pc \in [Posts -> {"idle", "sending", "asking", "done"}] /\ left \in [Posts -> Seq(Sockets)]
      /\ answer \in [Posts -> {"none", "ok", "not_found", "error", "lost"}]
      /\ outcome \in [Posts -> Outcomes \cup {"none", "pending", "lost"}]
      /\ answer[p] = "none"
  BY DEF TypeOK
<1>2. left' = [left EXCEPT ![p] = l]
  BY DEF Proceed
<1>3. CASE l # <<>> /\ pc' = [pc EXCEPT ![p] = "sending"] /\ UNCHANGED <<answer, outcome>>
  BY <1>1, <1>2, <1>3
<1>4. CASE /\ l = <<>> /\ pc' = [pc EXCEPT ![p] = "asking"]
           /\ outcome' = [outcome EXCEPT ![p] = "pending"] /\ UNCHANGED answer
  BY <1>1, <1>2, <1>4
<1>5. CASE /\ l = <<>> /\ p \notin Targeted /\ pc' = [pc EXCEPT ![p] = "done"]
           /\ answer' = [answer EXCEPT ![p] = "ok"] /\ UNCHANGED outcome
  BY <1>1, <1>2, <1>5
<1> QED
  BY <1>3, <1>4, <1>5 DEF Proceed, Answer

LEMMA Stored ==
  ASSUME IInv, NEW p \in Posts, messages' = messages \/ messages' = Append(messages, p)
  PROVE  /\ messages' \in Seq(Posts) /\ \A q : Contains(messages, q) => Contains(messages', q)
         /\ messages' = Append(messages, p) => Contains(messages', p)
<1>1. messages \in Seq(Posts)
  BY Types DEF IInv
<1>2. CASE messages' = messages
  <2>1. Len(Append(messages, p)) # Len(messages)
    BY <1>1
  <2> QED
    BY <1>1, <1>2, <2>1
<1>3. CASE messages' = Append(messages, p)
  BY <1>1, <1>3, Joined
<1> QED
  BY <1>2, <1>3

LEMMA PostKeeps == \A p \in Posts : IInv /\ Post(p) => IInv'
<1> SUFFICES ASSUME NEW p \in Posts, IInv, Post(p) PROVE IInv'
  OBVIOUS
<1> DEFINE l == rooms[RoomOf[p]]
<1>1. /\ pc[p] = "idle" /\ earlier' = [earlier EXCEPT ![p] = Answered]
      /\ messages' = Append(messages, p) /\ audit' = audit \cup {<<"message_stored", p>>}
      /\ copied' = [copied EXCEPT ![p] = ToSet(l)] /\ Proceed(p, l)
      /\ agents' = agents /\ rooms' = rooms /\ ws' = ws /\ seen' = seen /\ faults' = faults
  BY DEF Post, Called, Logged, Broadcast, hub
<1>2. RoomOf[p] \in Rooms /\ l \in Seq(Sockets)
  BY Types, ChatAssumption DEF IInv, ChatAssumption
<1>3. /\ IsInjective(l)
      /\ \A s \in Sockets : Contains(l, s) <=> RoomOf[s] = RoomOf[p] /\ ws[s] \in InRoom
      /\ ToSet(l) \subseteq Sockets /\ \A s : s \in ToSet(l) <=> Contains(l, s)
  <2>1. DOMAIN l = 1..Len(l) /\ \A n \in 1..Len(l) : l[n] \in Sockets
    BY <1>2
  <2> QED
    BY <1>2, <2>1 DEF IInv, RoomsAreExact, ToSet, Contains
<1> HIDE DEF l
<1>4. Stage(p) /\ Tells(p) /\ \A s \in Sockets : ~Contains(seen[s], p)
  BY <1>1 DEF IInv, Reach
<1>5. answer[p] = "none" /\ outcome[p] = "none"
  BY <1>1, <1>4 DEF IInv, TypeOK, Stage
<1>6. /\ pc' \in [Posts -> {"idle", "sending", "asking", "done"}]
      /\ left' \in [Posts -> Seq(Sockets)]
      /\ answer' \in [Posts -> {"none", "ok", "not_found", "error", "lost"}]
      /\ outcome' \in [Posts -> Outcomes \cup {"none", "pending", "lost"}]
      /\ \A q \in Posts : q # p => /\ pc'[q] = pc[q] /\ left'[q] = left[q]
                                  /\ answer'[q] = answer[q] /\ outcome'[q] = outcome[q]
      /\ left'[p] = l
      /\ \/ l # <<>> /\ pc'[p] = "sending" /\ answer'[p] = "none" /\ outcome'[p] = "none"
         \/ l = <<>> /\ pc'[p] = "asking" /\ answer'[p] = "none" /\ outcome'[p] = "pending"
         \/ /\ l = <<>> /\ p \notin Targeted
            /\ pc'[p] = "done" /\ answer'[p] = "ok" /\ outcome'[p] = "none"
  BY <1>1, <1>2, <1>5, Proceeds DEF IInv
<1>7. /\ messages' \in Seq(Posts) /\ Contains(messages', p)
      /\ \A q : Contains(messages, q) => Contains(messages', q)
  BY <1>1, Stored
<1>8. /\ audit' \subseteq Events /\ audit \subseteq audit'
      /\ \A q : /\ <<"gateway_response", q>> \in audit' <=> <<"gateway_response", q>> \in audit
                /\ <<"gateway_error", q>> \in audit' <=> <<"gateway_error", q>> \in audit
  BY <1>1, Types DEF IInv, Events
<1>9. /\ copied' \in [Posts -> SUBSET Sockets] /\ copied'[p] = ToSet(l)
      /\ earlier' \in [Posts -> SUBSET Posts] /\ earlier'[p] = Answered
      /\ \A q \in Posts : q # p => copied'[q] = copied[q] /\ earlier'[q] = earlier[q]
  BY <1>1, <1>3, Types DEF IInv, Answered
<1>10. \A q \in Posts : q # p => Aside(q)
  BY <1>6, <1>8, <1>9 DEF Aside
<1>11. TypeOK'
  BY <1>1, <1>6, <1>7, <1>8, <1>9, <1>10, Types, CallTypes DEF IInv
<1>12. Stage(p)'
  <2>1. \A q \in Answered : answer'[q] # "none"
    BY <1>5, <1>6 DEF Answered
  <2>2. <<"message_stored", p>> \in audit'
    BY <1>1
  <2>3. \A s \in copied'[p] : RoomOf[s] = RoomOf[p] /\ ws[s] \notin {"new", "accepting"}
    BY <1>3, <1>9 DEF InRoom
  <2> QED
    BY <1>1, <1>3, <1>6, <1>7, <1>9, <2>1, <2>2, <2>3 DEF Stage
<1>13. Tells(p)'
  BY <1>4, <1>5, <1>6, <1>8 DEF Tells
<1>14. ASSUME NEW s \in Sockets PROVE Reach(p, s)'
  <2>1. ~Contains(seen'[s], p)
    BY <1>1, <1>4
  <2>2. s \in copied'[p] => l # <<>> /\ Contains(left'[p], s)
    BY <1>3, <1>6, <1>9 DEF Contains
  <2> QED
    BY <1>6, <2>1, <2>2 DEF Reach
<1> QED
  BY <1>1, <1>7, <1>8, <1>10, <1>11, <1>12, <1>13, <1>14, CallKeeps

LEMMA Faults == IInv /\ (Fault \/ faults' = faults) => faults' \in 0..MaxFaults
  BY Types, ChatAssumption DEF IInv, ChatAssumption, Fault

(* A call that fails before its broadcast.                                 *)
LEMMA FailedKeeps ==
  ASSUME IInv, NEW p \in Posts, pc[p] = "idle", NEW a \in {"not_found", "error"}, Answer(p, a),
         earlier' = [earlier EXCEPT ![p] = Answered],
         messages' = messages \/ messages' = Append(messages, p),
         UNCHANGED <<agents, audit, hub, left, outcome, copied>>, faults' \in 0..MaxFaults
  PROVE  IInv'
<1>1. /\ pc' = [pc EXCEPT ![p] = "done"] /\ answer' = [answer EXCEPT ![p] = a]
      /\ agents' = agents /\ audit' = audit /\ rooms' = rooms /\ ws' = ws /\ seen' = seen
      /\ left' = left /\ outcome' = outcome /\ copied' = copied
  BY DEF Answer, hub
<1>2. Stage(p) /\ Tells(p) /\ \A s \in Sockets : ~Contains(seen[s], p)
  BY DEF IInv, Reach
<1>3. answer[p] = "none" /\ outcome[p] = "none"
  BY <1>2 DEF IInv, TypeOK, Stage
<1>4. /\ pc' \in [Posts -> {"idle", "sending", "asking", "done"}]
      /\ answer' \in [Posts -> {"none", "ok", "not_found", "error", "lost"}]
      /\ earlier' \in [Posts -> SUBSET Posts] /\ earlier'[p] = Answered
      /\ pc'[p] = "done" /\ answer'[p] = a
      /\ \A q \in Posts : q # p => pc'[q] = pc[q] /\ answer'[q] = answer[q] /\ earlier'[q] = earlier[q]
  BY <1>1, Types DEF IInv, Answered
<1>5. \A q \in Posts : q # p => Aside(q)
  BY <1>1, <1>4 DEF Aside
<1>6. messages' \in Seq(Posts) /\ \A q : Contains(messages, q) => Contains(messages', q)
  BY Stored
<1>7. TypeOK'
  <2>1. /\ pc'[p] = "sending" => left'[p] # <<>>
        /\ pc'[p] = "asking" <=> outcome'[p] = "pending"
        /\ pc'[p] = "done" <=> answer'[p] # "none"
    BY <1>1, <1>3, <1>4
  <2>2. /\ audit' \subseteq Events /\ seen' \in [Sockets -> Seq(Posts)]
        /\ left' \in [Posts -> Seq(Sockets)] /\ copied' \in [Posts -> SUBSET Sockets]
        /\ outcome' \in [Posts -> Outcomes \cup {"none", "pending", "lost"}]
    BY <1>1, Types DEF IInv
  <2> QED
    BY <1>1, <1>4, <1>5, <1>6, <2>1, <2>2, CallTypes DEF IInv
<1>8. Stage(p)'
  <2>1. \A q \in Answered : answer'[q] # "none"
    BY <1>3, <1>4 DEF Answered
  <2> QED
    BY <1>1, <1>2, <1>4, <2>1 DEF Stage
<1>9. Tells(p)' /\ \A s \in Sockets : Reach(p, s)'
  BY <1>1, <1>2, <1>4 DEF Tells, Reach
<1> QED
  BY <1>1, <1>5, <1>6, <1>7, <1>8, <1>9, CallKeeps

LEMMA PostFailsKeeps ==
  \A p \in Posts : IInv /\ (PostUnknown(p) \/ PostUnstored(p) \/ PostUnlogged(p)) => IInv'
<1> SUFFICES ASSUME NEW p \in Posts, IInv, PostUnknown(p) \/ PostUnstored(p) \/ PostUnlogged(p)
             PROVE  IInv'
  OBVIOUS
<1>1. faults' \in 0..MaxFaults
  BY Faults DEF PostUnknown, PostUnstored, PostUnlogged
<1>2. pc[p] = "idle" /\ earlier' = [earlier EXCEPT ![p] = Answered]
  BY DEF PostUnknown, PostUnstored, PostUnlogged, Called
<1>3. Answer(p, "not_found") \/ Answer(p, "error")
  BY DEF PostUnknown, PostUnstored, PostUnlogged
<1>4. messages' = messages \/ messages' = Append(messages, p)
  BY DEF PostUnknown, PostUnstored, PostUnlogged, files
<1>5. UNCHANGED <<agents, audit, hub, left, outcome, copied>>
  BY DEF PostUnknown, PostUnstored, PostUnlogged, files
<1> QED
  BY <1>1, <1>2, <1>3, <1>4, <1>5, FailedKeeps

LEMMA SendsKeeps == \A p \in Posts : IInv /\ Sends(p) => IInv'
<1> SUFFICES ASSUME NEW p \in Posts, IInv, Sends(p) PROVE IInv'
  OBVIOUS
<1> DEFINE h == Head(left[p])
           l == Tail(left[p])
<1>1. /\ pc[p] = "sending" /\ Proceed(p, l)
      /\ seen' = IF ws[h] = "open" THEN [seen EXCEPT ![h] = Append(@, p)] ELSE seen
      /\ agents' = agents /\ messages' = messages /\ audit' = audit
      /\ rooms' = rooms /\ ws' = ws /\ copied' = copied /\ earlier' = earlier /\ faults' = faults
  BY DEF Sends, files
<1>2. Stage(p) /\ Tells(p) /\ \A s \in Sockets : Reach(p, s)
  BY DEF IInv
<1>3. /\ h \in Sockets /\ l \in Seq(Sockets) /\ IsInjective(l)
      /\ \A s : Contains(l, s) <=> Contains(left[p], s) /\ s # h
      /\ Contains(left[p], h)
  <2>1. left[p] \in Seq(Sockets) /\ left[p] # <<>> /\ IsInjective(left[p])
    BY <1>1, <1>2, Types DEF IInv, TypeOK, Stage
  <2> QED
    BY <2>1, Served
<1> HIDE DEF h, l
<1>4. answer[p] = "none" /\ outcome[p] = "none"
  BY <1>1, <1>2 DEF IInv, TypeOK, Stage
<1>5. /\ pc' \in [Posts -> {"idle", "sending", "asking", "done"}]
      /\ left' \in [Posts -> Seq(Sockets)]
      /\ answer' \in [Posts -> {"none", "ok", "not_found", "error", "lost"}]
      /\ outcome' \in [Posts -> Outcomes \cup {"none", "pending", "lost"}]
      /\ \A q \in Posts : q # p => /\ pc'[q] = pc[q] /\ left'[q] = left[q]
                                  /\ answer'[q] = answer[q] /\ outcome'[q] = outcome[q]
      /\ left'[p] = l
      /\ \/ l # <<>> /\ pc'[p] = "sending" /\ answer'[p] = "none" /\ outcome'[p] = "none"
         \/ l = <<>> /\ pc'[p] = "asking" /\ answer'[p] = "none" /\ outcome'[p] = "pending"
         \/ /\ l = <<>> /\ p \notin Targeted
            /\ pc'[p] = "done" /\ answer'[p] = "ok" /\ outcome'[p] = "none"
  BY <1>1, <1>3, <1>4, Proceeds DEF IInv
<1>6. \A q \in Posts : q # p => Aside(q)
  BY <1>1, <1>5 DEF Aside
<1>7. ~Contains(seen[h], p) /\ h \in copied[p]
  BY <1>2, <1>3 DEF Reach, Stage
<1>8. seen \in [Sockets -> Seq(Posts)]
  BY Types DEF IInv
<1>9. /\ \A s \in Sockets : s # h => seen'[s] = seen[s]
      /\ seen'[h] = IF ws[h] = "open" THEN Append(seen[h], p) ELSE seen[h]
  BY <1>1, <1>3, <1>8
<1>10. /\ seen'[h] \in Seq(Posts) /\ (Contains(seen'[h], p) <=> ws[h] = "open")
       /\ seen' \in [Sockets -> Seq(Posts)]
  <2>1. seen[h] \in Seq(Posts)
    BY <1>3, <1>8
  <2>2. Append(seen[h], p) \in Seq(Posts) /\ Contains(Append(seen[h], p), p)
    BY <2>1, Joined
  <2>3. seen'[h] \in Seq(Posts) /\ (Contains(seen'[h], p) <=> ws[h] = "open")
    BY <1>7, <1>9, <2>1, <2>2
  <2> QED
    BY <1>1, <1>8, <2>2, <2>3
<1>11. TypeOK'
  BY <1>1, <1>5, <1>6, <1>10, Types, CallTypes DEF IInv
<1>12. Stage(p)'
  <2>1. \A q \in earlier[p] : answer'[q] # "none"
    <3>1. earlier[p] \subseteq Posts
      BY Types DEF IInv
    <3> QED
      BY <1>2, <1>4, <1>5, <3>1 DEF Stage
  <2> QED
    BY <1>1, <1>2, <1>3, <1>5, <2>1 DEF Stage
<1>13. Tells(p)'
  BY <1>1, <1>2, <1>4, <1>5 DEF Tells
<1>14. ASSUME NEW s \in Sockets PROVE Reach(p, s)'
  <2>1. Reach(p, s) /\ Reach(p, h)
    BY <1>2, <1>3
  <2>2. RoomOf[p] = RoomOf[h] /\ Contains(messages, p) /\ <<"message_stored", p>> \in audit
    BY <1>1, <1>2, <1>7 DEF Stage
  <2>3. l = <<>> => ~Contains(l, s)
    BY DEF Contains
  <2>4. pc'[p] # "idle"
    BY <1>5
  <2>5. CASE s = h
    BY <1>1, <1>3, <1>5, <1>10, <2>2, <2>4, <2>5 DEF Reach
  <2>6. CASE s # h
    <3>1. (Contains(seen'[s], p) <=> Contains(seen[s], p)) /\ (Contains(l, s) <=> Contains(left[p], s))
      BY <1>3, <1>9, <2>6
    <3> QED
      BY <1>1, <1>5, <2>1, <2>3, <2>4, <3>1 DEF Reach
  <2> QED
    BY <2>5, <2>6
<1>15. \A s \in Sockets : \/ seen'[s] = seen[s]
                          \/ /\ pc[p] = "sending" /\ ~Contains(seen[s], p)
                             /\ seen'[s] = Append(seen[s], p)
  BY <1>1, <1>7, <1>9
<1> QED
  BY <1>1, <1>6, <1>11, <1>12, <1>13, <1>14, <1>15, CallKeeps

(* What is logged of a submit: of the caller's answer a and the outcome o. *)
Noted(p, a, o) == IF a = "ok" /\ o = "response" THEN {<<"gateway_response", p>>}
                  ELSE IF a = "ok" /\ o = "refused" THEN {<<"gateway_error", p>>} ELSE {}

(* A call that has been at its sends or its submit comes to its end.       *)
LEMMA EndKeeps ==
  ASSUME IInv, NEW p \in Posts, pc[p] \in {"sending", "asking"},
         NEW a \in {"ok", "error"}, Answer(p, a),
         NEW o \in Outcomes \cup {"none"}, outcome' = [outcome EXCEPT ![p] = o],
         a = "ok" => pc[p] = "asking",
         audit' = audit \cup Noted(p, a, o),
         a = "ok" => o \in {"response", "refused", "empty"},
         UNCHANGED <<agents, messages, hub, left, copied, earlier>>, faults' \in 0..MaxFaults
  PROVE  IInv'
<1>1. /\ pc' = [pc EXCEPT ![p] = "done"] /\ answer' = [answer EXCEPT ![p] = a]
      /\ agents' = agents /\ messages' = messages /\ rooms' = rooms /\ ws' = ws /\ seen' = seen
      /\ left' = left /\ copied' = copied /\ earlier' = earlier
  BY DEF Answer, hub
<1>2. Stage(p) /\ Tells(p) /\ \A s \in Sockets : Reach(p, s)
  BY DEF IInv
<1>3. answer[p] = "none" /\ outcome[p] \in {"none", "pending"}
  BY <1>2 DEF IInv, TypeOK, Stage
<1>4. /\ pc' \in [Posts -> {"idle", "sending", "asking", "done"}]
      /\ answer' \in [Posts -> {"none", "ok", "not_found", "error", "lost"}]
      /\ outcome' \in [Posts -> Outcomes \cup {"none", "pending", "lost"}]
      /\ pc'[p] = "done" /\ answer'[p] = a /\ outcome'[p] = o
      /\ \A q \in Posts : q # p => pc'[q] = pc[q] /\ answer'[q] = answer[q] /\ outcome'[q] = outcome[q]
  BY <1>1, Types DEF IInv
<1>5. audit \subseteq audit' /\ audit' \subseteq Events
  BY Types DEF IInv, Noted, Events
<1>6. ASSUME NEW q
       PROVE  /\ <<"gateway_response", q>> \in audit' <=>
                   <<"gateway_response", q>> \in audit \/ (q = p /\ o = "response" /\ a = "ok")
              /\ <<"gateway_error", q>> \in audit' <=>
                   <<"gateway_error", q>> \in audit \/ (q = p /\ o = "refused" /\ a = "ok")
  BY DEF Noted
<1>7. \A q \in Posts : q # p => Aside(q)
  BY <1>1, <1>4, <1>6 DEF Aside
<1>8. TypeOK'
  <2>1. o # "pending"
    BY DEF Outcomes
  <2>2. /\ pc'[p] = "sending" => left'[p] # <<>>
        /\ pc'[p] = "asking" <=> outcome'[p] = "pending"
        /\ pc'[p] = "done" <=> answer'[p] # "none"
    BY <1>4, <2>1
  <2>3. /\ messages' \in Seq(Posts) /\ seen' \in [Sockets -> Seq(Posts)]
        /\ left' \in [Posts -> Seq(Sockets)] /\ copied' \in [Posts -> SUBSET Sockets]
        /\ earlier' \in [Posts -> SUBSET Posts]
    BY <1>1, Types DEF IInv
  <2> QED
    BY <1>1, <1>4, <1>7, <1>5, <2>2, <2>3, CallTypes DEF IInv
<1>9. Stage(p)'
  <2>1. \A q \in earlier[p] : answer'[q] # "none"
    <3>1. earlier[p] \subseteq Posts
      BY Types DEF IInv
    <3> QED
      BY <1>2, <1>4, <3>1 DEF Stage
  <2> QED
    BY <1>1, <1>2, <1>4, <1>5, <2>1 DEF Stage
<1>10. Tells(p)'
  <2>1. <<"gateway_response", p>> \notin audit /\ <<"gateway_error", p>> \notin audit
    BY <1>2, <1>3 DEF Tells
  <2> QED
    BY <1>4, <1>6, <2>1 DEF Tells
<1>11. ASSUME NEW s \in Sockets PROVE Reach(p, s)'
  <2>1. Reach(p, s)
    BY <1>2
  <2> QED
    BY <1>1, <1>4, <1>5, <2>1 DEF Reach
<1> QED
  BY <1>1, <1>5, <1>7, <1>8, <1>9, <1>10, <1>11, CallKeeps

LEMMA SendRaisesKeeps == \A p \in Posts : IInv /\ SendRaises(p) => IInv'
<1> SUFFICES ASSUME NEW p \in Posts, IInv, SendRaises(p) PROVE IInv'
  OBVIOUS
<1>1. /\ pc[p] = "sending" /\ Answer(p, "error")
      /\ agents' = agents /\ messages' = messages /\ audit' = audit /\ hub' = hub /\ left' = left
      /\ outcome' = outcome /\ copied' = copied /\ earlier' = earlier /\ faults' = faults
  BY DEF SendRaises, files
<1>2. outcome[p] = "none"
  BY <1>1 DEF IInv, Stage
<1>3. outcome' = [outcome EXCEPT ![p] = "none"]
  BY <1>1, <1>2, Types DEF IInv
<1> DEFINE a == "error"
<1>4. a \in {"ok", "error"} /\ a # "ok" /\ Answer(p, a) /\ audit' = audit \cup Noted(p, a, "none")
  BY <1>1 DEF Noted
<1>5. faults' \in 0..MaxFaults
  BY <1>1, Faults
<1> HIDE DEF a
<1> QED
  BY <1>1, <1>3, <1>4, <1>5, EndKeeps

LEMMA SubmitEndsKeeps ==
  \A p \in Posts, o \in Outcomes : IInv /\ (SubmitEnds(p, o) \/ SubmitEndsUnlogged(p, o)) => IInv'
<1> SUFFICES ASSUME NEW p \in Posts, NEW o \in Outcomes, IInv,
                    SubmitEnds(p, o) \/ SubmitEndsUnlogged(p, o)
             PROVE  IInv'
  OBVIOUS
<1>1. /\ pc[p] = "asking" /\ outcome' = [outcome EXCEPT ![p] = o]
      /\ agents' = agents /\ messages' = messages /\ hub' = hub /\ left' = left
      /\ copied' = copied /\ earlier' = earlier
  BY DEF SubmitEnds, SubmitEndsUnlogged, files
<1>2. faults' \in 0..MaxFaults
  BY Faults DEF SubmitEnds, SubmitEndsUnlogged
<1>3. ASSUME NEW a \in {"ok", "error"}, Answer(p, a), a = "ok" => o \in {"response", "refused", "empty"},
             audit' = audit \cup Noted(p, a, o)
      PROVE  IInv'
  BY <1>1, <1>2, <1>3, EndKeeps
<1>4. CASE audit' = audit /\ Answer(p, "error")
  BY <1>3, <1>4 DEF Noted
<1>5. CASE o = "response" /\ audit' = audit \cup {<<"gateway_response", p>>} /\ Answer(p, "ok")
  BY <1>3, <1>5 DEF Noted
<1>6. CASE o = "refused" /\ audit' = audit \cup {<<"gateway_error", p>>} /\ Answer(p, "ok")
  BY <1>3, <1>6 DEF Noted
<1>7. CASE o = "empty" /\ audit' = audit /\ Answer(p, "ok")
  BY <1>3, <1>7 DEF Noted
<1> QED
  BY <1>4, <1>5, <1>6, <1>7 DEF SubmitEnds, SubmitEndsUnlogged, Logged, Outcomes, files

-----------------------------------------------------------------------------
(* The end of the process: every call of P is cut off, among them all that *)
(* were under way; no socket is connected any more.                        *)
LEMMA RestartKeeps ==
  ASSUME IInv, NEW P \in SUBSET Posts, Running \subseteq P, \A p \in P : pc[p] # "done",
         Restarted, CutOff(P),
         messages' \in Seq(Posts), \A q : Contains(messages, q) => Contains(messages', q),
         earlier' \in [Posts -> SUBSET Posts],
         \A q \in Posts : earlier'[q] = earlier[q] \/ (pc[q] = "idle" /\ earlier'[q] = Answered)
  PROVE  IInv'
<1>1. /\ rooms' = [r \in Rooms |-> <<>>]
      /\ ws' = [s \in Sockets |-> IF ws[s] = "new" THEN "new" ELSE "left"]
      /\ left' = [p \in Posts |-> <<>>]
      /\ outcome' = [p \in Posts |-> IF outcome[p] = "pending" THEN "lost" ELSE outcome[p]]
      /\ agents' = agents /\ audit' = audit /\ seen' = seen /\ copied' = copied
      /\ pc' = [p \in Posts |-> IF p \in P THEN "done" ELSE pc[p]]
      /\ answer' = [p \in Posts |-> IF p \in P THEN "lost" ELSE answer[p]]
  BY DEF Restarted, CutOff
<1>2. faults' \in 0..MaxFaults
  BY Faults DEF Restarted
<1>3. ASSUME NEW q \in Posts
      PROVE  /\ left'[q] = <<>> /\ pc'[q] \in {"idle", "done"} /\ outcome'[q] # "pending"
             /\ pc'[q] = "done" <=> answer'[q] # "none"
             /\ answer[q] # "none" => answer'[q] # "none"
             /\ pc'[q] = "idle" => pc[q] = "idle" /\ outcome'[q] = outcome[q]
             /\ outcome[q] \in Outcomes => outcome'[q] = outcome[q]
             /\ answer'[q] = "ok" => answer[q] = "ok"
             /\ answer'[q] \in {"none", "ok", "not_found", "error", "lost"}
             /\ outcome'[q] \in Outcomes \cup {"none", "pending", "lost"}
  <2>1. /\ pc[q] = "asking" <=> outcome[q] = "pending"
        /\ pc[q] = "done" <=> answer[q] # "none"
        /\ answer[q] \in {"none", "ok", "not_found", "error", "lost"}
        /\ outcome[q] \in Outcomes \cup {"none", "pending", "lost"}
        /\ pc[q] \in {"idle", "sending", "asking", "done"}
    BY DEF IInv, TypeOK
  <2>2. q \notin P => pc[q] \in {"idle", "done"}
    BY <2>1 DEF Running
  <2>3. "pending" \notin Outcomes
    BY DEF Outcomes
  <2> QED
    BY <1>1, <2>1, <2>2, <2>3
<1>4. TypeOK'
  <2>1. /\ left' \in [Posts -> Seq(Sockets)] /\ rooms' \in [Rooms -> Seq(Sockets)]
    BY <1>1
  <2>2. /\ pc' \in [Posts -> {"idle", "sending", "asking", "done"}]
        /\ answer' \in [Posts -> {"none", "ok", "not_found", "error", "lost"}]
        /\ outcome' \in [Posts -> Outcomes \cup {"none", "pending", "lost"}]
    BY <1>1, <1>3
  <2>3. ws' \in [Sockets -> InRoom \cup {"new", "accepting", "left"}]
    BY <1>1
  <2>4. agents' \subseteq Agents /\ audit' \subseteq Events /\ seen' \in [Sockets -> Seq(Posts)]
        /\ copied' \in [Posts -> SUBSET Sockets]
    BY <1>1, Types DEF IInv
  <2>5. \A q \in Posts : /\ pc'[q] = "sending" => left'[q] # <<>>
                         /\ pc'[q] = "asking" <=> outcome'[q] = "pending"
                         /\ pc'[q] = "done" <=> answer'[q] # "none"
    BY <1>3
  <2> QED
    BY <1>2, <2>1, <2>2, <2>3, <2>4, <2>5 DEF TypeOK
<1>5. (\A x : ~Contains(<<>>, x)) /\ IsInjective(<<>>)
  BY DEF Contains, IsInjective
<1>6. RoomsAreExact'
  <2>1. \A s \in Sockets : ws'[s] \notin InRoom
    BY <1>1 DEF InRoom
  <2> QED
    BY <1>1, <1>5, <2>1 DEF RoomsAreExact
<1>7. Ordered'
  <2> SUFFICES ASSUME NEW s \in Sockets, NEW m \in DOMAIN seen[s], NEW n \in DOMAIN seen[s], m < n
               PROVE  seen[s][n] \notin earlier'[seen[s][m]]
    BY <1>1 DEF Ordered
  <2> DEFINE q == seen[s][m]
  <2>1. q \in Posts /\ Contains(seen[s], q)
    <3>1. seen[s] \in Seq(Posts)
      BY Types DEF IInv
    <3> QED
      BY <3>1 DEF Contains
  <2>2. seen[s][n] \notin earlier[q]
    BY DEF IInv, Ordered
  <2> HIDE DEF q
  <2>3. pc[q] # "idle"
    BY <2>1 DEF IInv, Reach
  <2>4. earlier'[q] = earlier[q]
    BY <2>1, <2>3
  <2> QED
    BY <2>2, <2>4 DEF q
<1>8. ASSUME NEW p \in Posts PROVE (Stage(p) /\ Tells(p) /\ \A s \in Sockets : Reach(p, s))'
  <2>1. Stage(p) /\ Tells(p) /\ \A s \in Sockets : Reach(p, s)
    BY DEF IInv
  <2>2. Stage(p)'
    <3>1. pc'[p] \in {"idle", "sending"} => outcome'[p] = "none"
      BY <1>3, <2>1 DEF Stage
    <3>2. \A s \in copied[p] : RoomOf[s] = RoomOf[p] /\ ws'[s] \notin {"new", "accepting"}
      <4>1. copied[p] \subseteq Sockets
        BY Types DEF IInv
      <4> QED
        BY <1>1, <2>1, <4>1 DEF Stage
    <3>3. ASSUME NEW q \in earlier'[p] PROVE answer'[q] # "none"
      <4>1. q \in Posts /\ answer[q] # "none"
        <5>1. earlier[p] \subseteq Posts
          BY Types DEF IInv
        <5> QED
          BY <2>1, <3>3, <5>1 DEF Stage, Answered
      <4> QED
        BY <1>3, <4>1
    <3> QED
      BY <1>1, <1>3, <1>5, <3>1, <3>2, <3>3 DEF Stage
  <2>3. Tells(p)'
    BY <1>1, <1>3, <2>1 DEF Tells, Outcomes
  <2>4. ASSUME NEW s \in Sockets PROVE Reach(p, s)'
    <3>1. Reach(p, s) /\ ws'[s] # "open"
      BY <1>1, <2>1
    <3> QED
      BY <1>1, <1>3, <1>5, <3>1 DEF Reach
  <2> QED
    BY <2>2, <2>3, <2>4
<1> QED
  BY <1>1, <1>4, <1>6, <1>7, <1>8 DEF IInv

LEMMA CrashKeeps == IInv /\ Crash => IInv'
<1> SUFFICES ASSUME IInv, Crash PROVE IInv'
  OBVIOUS
<1>1. Running \in SUBSET Posts /\ \A p \in Running : pc[p] # "done"
  BY DEF Running
<1>2. Restarted /\ CutOff(Running) /\ messages' = messages /\ earlier' = earlier
  BY DEF Crash
<1> QED
  BY <1>1, <1>2, Types, RestartKeeps DEF IInv

LEMMA CrashUnloggedKeeps == \A p \in Posts : IInv /\ CrashUnlogged(p) => IInv'
<1> SUFFICES ASSUME NEW p \in Posts, IInv, CrashUnlogged(p) PROVE IInv'
  OBVIOUS
<1> DEFINE P == Running \cup {p}
<1>1. /\ pc[p] = "idle" /\ earlier' = [earlier EXCEPT ![p] = Answered]
      /\ Restarted /\ CutOff(P) /\ messages' = Append(messages, p)
  BY DEF CrashUnlogged, Called
<1>2. P \in SUBSET Posts /\ Running \subseteq P /\ \A q \in P : pc[q] # "done"
  BY <1>1 DEF Running
<1>3. messages' \in Seq(Posts) /\ \A q : Contains(messages, q) => Contains(messages', q)
  BY <1>1, Stored
<1>4. /\ earlier' \in [Posts -> SUBSET Posts]
      /\ \A q \in Posts : earlier'[q] = earlier[q] \/ (pc[q] = "idle" /\ earlier'[q] = Answered)
  BY <1>1, Types DEF IInv, Answered
<1> HIDE DEF P
<1> QED
  BY <1>1, <1>2, <1>3, <1>4, RestartKeeps

-----------------------------------------------------------------------------
LEMMA StutterKeeps == IInv /\ UNCHANGED vars => IInv'
<1> SUFFICES ASSUME IInv, UNCHANGED vars PROVE IInv'
  OBVIOUS
<1>1. UNCHANGED <<agents, messages, audit, rooms, ws, seen, pc, left, answer, outcome, copied,
                  earlier, faults>>
  BY DEF vars, files, hub, calls
<1>2. TypeOK'
  BY <1>1 DEF IInv, TypeOK
<1> QED
  BY <1>1, <1>2, SocketsStay DEF files, calls

THEOREM ChatInvariant == SafeSpec => []IInv
<1>1. IInv /\ [Next]_vars => IInv'
  BY CreateAgentKeeps, ConnectKeeps, FrameKeeps, AcceptedKeeps, DisconnectsKeeps, PostKeeps,
     PostFailsKeeps, SendsKeeps, SendRaisesKeeps, SubmitEndsKeeps, CrashKeeps,
     CrashUnloggedKeeps, StutterKeeps DEF Next, PostEnds
<1> QED
  BY <1>1, InitHolds, PTL DEF SafeSpec

(* Whatever the invariant says of every call, in the words of the          *)
(* properties.                                                             *)
LEMMA Gives == IInv => SeenIsRecorded /\ AnsweredReachedAll /\ AuditTellsOutcome
<1> SUFFICES ASSUME IInv PROVE SeenIsRecorded /\ AnsweredReachedAll /\ AuditTellsOutcome
  OBVIOUS
<1>1. \A s \in Sockets : /\ seen[s] \in Seq(Posts) /\ DOMAIN seen[s] = 1..Len(seen[s])
                         /\ \A n \in 1..Len(seen[s]) : seen[s][n] \in Posts
  <2>1. \A s \in Sockets : seen[s] \in Seq(Posts)
    BY Types DEF IInv
  <2> QED
    BY <2>1
<1>2. SeenIsRecorded
  <2> SUFFICES ASSUME NEW s \in Sockets, NEW p \in ToSet(seen[s])
               PROVE  p \in ListMessages({RoomOf[s]}) /\ <<"message_stored", p>> \in audit
    BY DEF SeenIsRecorded
  <2>1. p \in Posts /\ Contains(seen[s], p)
    BY <1>1 DEF ToSet, Contains
  <2>2. RoomOf[p] = RoomOf[s] /\ Contains(messages, p) /\ <<"message_stored", p>> \in audit
    BY <2>1 DEF IInv, Reach
  <2>3. p \in ToSet(messages)
    <3>1. DOMAIN messages = 1..Len(messages)
      BY Types DEF IInv
    <3> QED
      BY <2>2, <3>1 DEF Contains, ToSet
  <2> QED
    BY <2>2, <2>3 DEF ListMessages
<1>3. AnsweredReachedAll
  <2> SUFFICES ASSUME NEW p \in Posts, answer[p] = "ok", NEW s \in copied[p], ws[s] = "open"
               PROVE  Cardinality({n \in DOMAIN seen[s] : seen[s][n] = p}) = 1
    BY DEF AnsweredReachedAll
  <2>1. s \in Sockets
    BY Types DEF IInv
  <2>2. pc[p] = "done"
    BY DEF IInv, TypeOK
  <2>3. Contains(seen[s], p) /\ IsInjective(seen[s])
    BY <2>1, <2>2 DEF IInv, Reach
  <2>4. PICK n \in DOMAIN seen[s] : seen[s][n] = p
    BY <1>1, <2>1, <2>3 DEF Contains
  <2>5. {m \in DOMAIN seen[s] : seen[s][m] = p} = {n}
    BY <2>3, <2>4 DEF IsInjective
  <2> QED
    BY <2>5, FS_Singleton
<1>4. AuditTellsOutcome
  BY DEF IInv, Tells, AuditTellsOutcome
<1> QED
  BY <1>2, <1>3, <1>4

-----------------------------------------------------------------------------
(* No list, log or answer ever leaves its range, and a call is answered    *)
(* just when it is over (server.py:189-250).                               *)
THEOREM ChatTypeCorrect == SafeSpec => []TypeOK
<1>1. IInv => TypeOK
  BY DEF IInv
<1> QED
  BY <1>1, ChatInvariant, PTL

(* However many sockets join and leave at once, a room lists those whose   *)
(* endpoint has joined and not seen its disconnect, each once              *)
(* (server.py:62-72, 275-281).                                             *)
THEOREM RoomsAlwaysExact == SafeSpec => []RoomsAreExact
<1>1. IInv => RoomsAreExact
  BY DEF IInv
<1> QED
  BY <1>1, ChatInvariant, PTL

(* Nothing reaches a socket that storage and log do not know of, whatever  *)
(* fails and whenever the process ends (server.py:193-203).                *)
THEOREM SeenAlwaysRecorded == SafeSpec => []SeenIsRecorded
  BY ChatInvariant, Gives, PTL

(* A normal answer means that every socket that stayed had the message,    *)
(* once, however the room changed during the broadcast (server.py:74-78,   *)
(* 241).                                                                   *)
THEOREM AnsweredAlwaysReachedAll == SafeSpec => []AnsweredReachedAll
  BY ChatInvariant, Gives, PTL

(* No socket sees a post twice, or after one whose call was made when the  *)
(* first had been answered (server.py:74-78, 203, 241).                    *)
THEOREM AlwaysSeenInOrder == SafeSpec => []SeenInOrderOfCalls
<1>1. IInv => SeenInOrderOfCalls
  BY DEF IInv, Ordered, SeenInOrderOfCalls
<1> QED
  BY <1>1, ChatInvariant, PTL

(* What the log says of a submit is true, and it says it of every call     *)
(* answered normally but for an empty answer (server.py:219-240).          *)
THEOREM AuditAlwaysTellsOutcome == SafeSpec => []AuditTellsOutcome
  BY ChatInvariant, Gives, PTL
=============================================================================
