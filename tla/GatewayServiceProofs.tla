------------------------ MODULE GatewayServiceProofs ------------------------
(***************************************************************************)
(* Theorems about GatewayService for every set of calls, every             *)
(* configuration and every queue size, with hot swaps, stops, failures and *)
(* cancellations at any time.  They are about SafeSpec: no fairness.       *)
(***************************************************************************)
EXTENDS GatewayService, TLAPS

USE ServiceAssumption

-----------------------------------------------------------------------------
(* Types.  An operator shared by several actions leaves `svc` and `wstate` *)
(* to the action, so the type invariant is split the same way.             *)

TypeService ==
  /\ running \in BOOLEAN
  /\ config \in Config
  /\ wlist \in Seq(Worker)
  /\ wstate \in [Worker -> WStates]

TypeRest ==
  /\ cur \in Queue
  /\ gauge \in Nat
  /\ items \in [Queue -> Seq(Requests \cup {Sentinel})]
  /\ maxsize \in [Queue -> Nat]
  /\ unfinished \in [Queue -> Nat]
  /\ pc \in [Tasks -> Steps]
  /\ at \in [Tasks -> Queue]
  /\ sent \in [Stoppers -> Nat]
  /\ gathered \in [Stoppers -> SUBSET Worker]
  /\ wat \in [Worker -> Queue]
  /\ hand \in [Worker -> Requests \cup {Sentinel}]
  /\ fut \in [Requests -> Futures]
  /\ calls \in [Requests -> Nat]

LEMMA TypeSplit ==
  /\ TypeOK <=> TypeService /\ TypeRest
  /\ TypeOK' <=> TypeService' /\ TypeRest'
  BY DEF TypeOK, TypeService, TypeRest

(* A stutter of everything an action does not touch keeps its type.        *)
LEMMA GotoTypes ==
  ASSUME TypeRest, NEW t \in Tasks, NEW p \in {"reloading", "locking", "applying"} \cup Ended,
         Goto(t, p)
  PROVE  TypeRest'
  BY DEF TypeRest, Goto, queues, stops, Steps, Ended

LEMMA EnqueueTypes ==
  ASSUME TypeRest, NEW r \in Requests, NEW q \in Queue, Enqueue(r, q)
  PROVE  TypeRest'
<1> r \in Tasks
  BY DEF Tasks, Callers
<1>1. items' \in [Queue -> Seq(Requests \cup {Sentinel})]
  BY DEF TypeRest, Enqueue
<1>2. cur' = cur /\ gauge' \in Nat
  BY <1>1 DEF TypeRest, Enqueue
<1>3. unfinished' \in [Queue -> Nat]
  BY DEF TypeRest, Enqueue
<1>4. fut' \in [Requests -> Futures]
  BY DEF TypeRest, Enqueue, Futures
<1>5. pc' \in [Tasks -> Steps]
  BY DEF TypeRest, Enqueue, Steps
<1>6. UNCHANGED <<maxsize, at, sent, gathered, wat, hand, calls>>
  BY DEF Enqueue, stops
<1> QED
  BY <1>1, <1>2, <1>3, <1>4, <1>5, <1>6 DEF TypeRest

LEMMA PutTypes ==
  ASSUME TypeRest, NEW r \in Requests, Put(r)
  PROVE  TypeRest'
<1> r \in Tasks
  BY DEF Tasks, Callers
<1>1. CASE ~Full(cur) /\ Enqueue(r, cur)
  BY <1>1, EnqueueTypes DEF TypeRest
<1>2. CASE Full(cur)
  BY <1>2 DEF Put, TypeRest, queues, stops, Steps
<1> QED
  BY <1>1, <1>2 DEF Put

LEMMA ProceedTypes ==
  ASSUME TypeRest, NEW t \in Callers, Proceed(t)
  PROVE  TypeRest'
  BY PutTypes, GotoTypes DEF Proceed, Tasks, Ended

LEMMA AcquiredTypes ==
  ASSUME TypeRest, NEW t \in Callers, Acquired(t)
  PROVE  TypeRest'
  BY ProceedTypes, GotoTypes DEF Acquired, Tasks

(* The workers a start creates extend the list.                            *)
LEMMA BornAreWorkers ==
  ASSUME NEW t \in Callers, NEW k \in 1..MaxConcurrency, wlist \in Seq(Worker)
  PROVE  wlist \o [n \in 1..k |-> <<t, n>>] \in Seq(Worker)
<1>1. [n \in 1..k |-> <<t, n>>] \in Seq(Worker)
  BY DEF Worker
<1> QED
  BY <1>1

LEMMA GetTypes ==
  ASSUME TypeRest, TypeService, NEW w \in Worker, NEW q \in Queue,
         NEW uf \in [Queue -> Nat], Get(w, q, uf),
         gauge' \in Nat, fut' \in [Requests -> Futures]
  PROVE  TypeRest' /\ TypeService'
<1>1. UNCHANGED <<running, config, wlist, cur, maxsize, pc, at, sent, gathered>>
  BY DEF Get, svc, stops
<1>2. wat' \in [Worker -> Queue]
  BY DEF Get, TypeRest
<1>3. cur \in Queue
  BY DEF TypeRest
<1>4. CASE items[q] = <<>>
  <2>1. wstate' \in [Worker -> WStates]
    BY <1>4 DEF Get, TypeService, WStates
  <2>2. hand' \in [Worker -> Requests \cup {Sentinel}]
    BY <1>4 DEF Get, TypeRest
  <2>3. unfinished' = uf /\ items' = items /\ calls' = calls
    BY <1>4 DEF Get
  <2> QED
    BY <1>1, <1>2, <2>1, <2>2, <2>3 DEF TypeRest, TypeService
<1>5. CASE items[q] # <<>>
  <2> DEFINE x == Head(items[q])
  <2>1. x \in Requests \cup {Sentinel} /\ Tail(items[q]) \in Seq(Requests \cup {Sentinel})
    BY <1>5 DEF TypeRest
  <2>2. /\ items' = [items EXCEPT ![q] = Tail(@)]
        /\ hand' = [hand EXCEPT ![w] = x]
        /\ \/ /\ x \in Requests
              /\ wstate' = [wstate EXCEPT ![w] = "busy"]
              /\ calls' = [calls EXCEPT ![x] = @ + 1]
              /\ unfinished' = uf
           \/ /\ wstate' = [wstate EXCEPT ![w] = IF uf[cur] = 0 THEN "crashed" ELSE "exited"]
              /\ unfinished' = [uf EXCEPT ![cur] = IF @ = 0 THEN 0 ELSE @ - 1]
              /\ UNCHANGED calls
    BY <1>5 DEF Get
  <2> HIDE DEF x
  <2>3. items' \in [Queue -> Seq(Requests \cup {Sentinel})]
    BY <2>1, <2>2 DEF TypeRest
  <2>4. hand' \in [Worker -> Requests \cup {Sentinel}]
    BY <2>1, <2>2 DEF TypeRest
  <2>5. wstate' \in [Worker -> WStates]
    BY <2>2 DEF TypeService, WStates
  <2>6. calls' \in [Requests -> Nat]
    <3>1. CASE x \in Requests /\ calls' = [calls EXCEPT ![x] = @ + 1]
      BY <3>1 DEF TypeRest
    <3>2. CASE UNCHANGED calls
      BY <3>2 DEF TypeRest
    <3> QED
      BY <2>2, <3>1, <3>2
  <2>7. unfinished' \in [Queue -> Nat]
    <3>1. (IF uf[cur] = 0 THEN 0 ELSE uf[cur] - 1) \in Nat
      BY <1>3
    <3>2. CASE unfinished' = [uf EXCEPT ![cur] = IF @ = 0 THEN 0 ELSE @ - 1]
      BY <3>1, <3>2
    <3> QED
      BY <2>2, <3>2
  <2> QED
    BY <1>1, <1>2, <2>3, <2>4, <2>5, <2>6, <2>7 DEF TypeRest, TypeService
<1> QED
  BY <1>4, <1>5

LEMMA PutSentinelsTypes ==
  ASSUME TypeRest, TypeService, NEW s \in Stoppers, NEW k \in Nat,
         NEW its \in [Queue -> Seq(Requests \cup {Sentinel})], NEW uf \in [Queue -> Nat],
         PutSentinels(s, k, its, uf),
         UNCHANGED <<cur, gauge, maxsize, workers, fut, calls>>
  PROVE  TypeRest'
<1> DEFINE room  == maxsize[cur] - Len(its[cur])
           turns == Len(wlist) - k
           n     == IF turns < room THEN turns ELSE room
           m     == IF n < 0 THEN 0 ELSE n
<1>1. s \in Tasks /\ cur \in Queue
  BY DEF Tasks, TypeRest
<1>2. Len(wlist) \in Nat /\ maxsize[cur] \in Nat /\ Len(its[cur]) \in Nat
  BY <1>1 DEF TypeRest, TypeService
<1>3. m \in Nat
  BY <1>2
<1>4. /\ items' = [its EXCEPT ![cur] = @ \o [i \in 1..m |-> Sentinel]]
      /\ unfinished' = [uf EXCEPT ![cur] = @ + m]
      /\ sent' = [sent EXCEPT ![s] = k + m]
      /\ at' = [at EXCEPT ![s] = cur]
      /\ \/ pc' = [pc EXCEPT ![s] = "sentinel"] /\ UNCHANGED gathered
         \/ /\ pc' = [pc EXCEPT ![s] = "joining"]
            /\ gathered' = [gathered EXCEPT ![s] = {wlist[i] : i \in 1..Len(wlist)}]
  BY DEF PutSentinels
<1> HIDE DEF m
<1>5. items' \in [Queue -> Seq(Requests \cup {Sentinel})]
  <2>1. [i \in 1..m |-> Sentinel] \in Seq(Requests \cup {Sentinel})
    BY <1>3
  <2>2. its[cur] \o [i \in 1..m |-> Sentinel] \in Seq(Requests \cup {Sentinel})
    BY <2>1, <1>1
  <2> QED
    BY <1>4, <2>2
<1>6. unfinished' \in [Queue -> Nat] /\ sent' \in [Stoppers -> Nat] /\ at' \in [Tasks -> Queue]
  BY <1>1, <1>3, <1>4 DEF TypeRest
<1>7. {wlist[i] : i \in 1..Len(wlist)} \in SUBSET Worker
  BY DEF TypeService
<1>8. gathered' \in [Stoppers -> SUBSET Worker]
  <2>1. CASE UNCHANGED gathered
    BY <2>1 DEF TypeRest
  <2>2. CASE gathered' = [gathered EXCEPT ![s] = {wlist[i] : i \in 1..Len(wlist)}]
    BY <1>7, <2>2 DEF TypeRest
  <2> QED
    BY <1>4, <2>1, <2>2
<1>10. pc' \in [Tasks -> Steps]
  BY <1>1, <1>4 DEF TypeRest, Steps
<1>9. UNCHANGED <<cur, gauge, maxsize, wat, hand, fut, calls>>
  BY DEF workers
<1> QED
  BY <1>5, <1>6, <1>8, <1>9, <1>10 DEF TypeRest
-----------------------------------------------------------------------------
LEMMA InitTypes == Init => TypeOK
<1> SUFFICES ASSUME Init PROVE TypeOK
  OBVIOUS
<1>1. \A q \in Queue : q # FirstQueue => ConfigOf[q] \in Config
  BY DEF Queue, ServiceAssumption
<1>2. maxsize \in [Queue -> Nat]
  BY <1>1 DEF Init, ServiceAssumption, Config
<1>3. TypeService
  <2>1. wlist \in Seq(Worker)
    BY DEF Init
  <2>4. running \in BOOLEAN
    BY DEF Init
  <2>2. config \in Config
    BY DEF Init, ServiceAssumption
  <2>3. wstate \in [Worker -> WStates]
    BY DEF Init, WStates
  <2> QED
    BY <2>1, <2>2, <2>3, <2>4 DEF TypeService
<1>4. cur \in Queue /\ pc \in [Tasks -> Steps] /\ at \in [Tasks -> Queue]
  BY DEF Init, Queue, Steps
<1>5. wat \in [Worker -> Queue] /\ fut \in [Requests -> Futures]
  BY DEF Init, Queue, Futures
<1>6. items \in [Queue -> Seq(Requests \cup {Sentinel})] /\ unfinished \in [Queue -> Nat]
  BY DEF Init
<1>7. sent \in [Stoppers -> Nat] /\ gathered \in [Stoppers -> SUBSET Worker]
  BY DEF Init
<1>8. hand \in [Worker -> Requests \cup {Sentinel}] /\ calls \in [Requests -> Nat] /\ gauge \in Nat
  BY DEF Init
<1> QED
  BY <1>2, <1>3, <1>4, <1>5, <1>6, <1>7, <1>8, TypeSplit DEF TypeRest

(* One step per group of actions, as Next groups them.                     *)
LEMMA CallerTypes ==
  ASSUME TypeOK, NEW t \in Callers, CallerNext(t)
  PROVE  TypeOK'
<1> USE TypeSplit
<1> t \in Tasks
  BY DEF Tasks
<1>1. CASE Call(t)
  <2>1. TypeService'
    BY <1>1 DEF Call, svc, TypeService
  <2>2. CASE t \in Requests /\ Put(t)
    BY <2>1, <2>2, PutTypes
  <2>3. CASE Acquired(t) \/ Goto(t, "locking")
    BY <2>1, <2>3, AcquiredTypes, GotoTypes
  <2> QED
    BY <1>1, <2>2, <2>3 DEF Call
<1>2. CASE LockAcquired(t)
  BY <1>2, AcquiredTypes DEF LockAcquired, svc, TypeService
<1>3. CASE ReloadDone(t)
  <2>1. TypeRest'
    BY <1>3, ProceedTypes DEF ReloadDone
  <2>2. config.concurrency \in 1..MaxConcurrency /\ config' = config
    BY <1>3 DEF ReloadDone, TypeService, Config
  <2>3. wlist' \in Seq(Worker)
    BY <1>3, <2>2, BornAreWorkers DEF ReloadDone, TypeService
  <2>4. wstate' \in [Worker -> WStates]
    BY <1>3 DEF ReloadDone, TypeService, WStates
  <2> QED
    BY <1>3, <2>1, <2>2, <2>3, <2>4 DEF ReloadDone, TypeService
<1>4. CASE ReloadFails(t)
  BY <1>4, GotoTypes DEF ReloadFails, svc, TypeService, Ended
<1> QED
  BY <1>1, <1>2, <1>3, <1>4 DEF CallerNext

LEMMA RequestTypes ==
  ASSUME TypeOK, NEW r \in Requests, RequestNext(r)
  PROVE  TypeOK'
<1> USE TypeSplit
<1> r \in Tasks
  BY DEF Tasks, Callers
<1>1. CASE PutResumes(r)
  <2>1. at[r] \in Queue
    BY DEF TypeRest
  <2> QED
    BY <1>1, <2>1, EnqueueTypes DEF PutResumes, svc, TypeService
<1>2. CASE Return(r)
  BY <1>2, GotoTypes DEF Return, svc, TypeService, Ended
<1>3. CASE Cancel(r)
  <2>1. fut' \in [Requests -> Futures]
    BY <1>3 DEF Cancel, TypeRest, Futures
  <2>2. pc' \in [Tasks -> Steps]
    BY <1>3 DEF Cancel, TypeRest, Steps, Ended
  <2>3. UNCHANGED <<svc, cur, queues, at, stops, workers, calls>>
    BY <1>3 DEF Cancel
  <2> QED
    BY <2>1, <2>2, <2>3 DEF TypeRest, TypeService, svc, queues, stops, workers
<1> QED
  BY <1>1, <1>2, <1>3 DEF RequestNext

LEMMA WorkerTypes ==
  ASSUME TypeOK, NEW w \in Worker, WorkerNext(w)
  PROVE  TypeOK'
<1> USE TypeSplit
<1> USE DEF WorkerNext
<1>0. cur \in Queue /\ wat[w] \in Queue /\ unfinished \in [Queue -> Nat]
  BY DEF TypeRest
<1>1. CASE WorkerStarts(w)
  BY <1>0, <1>1, GetTypes DEF WorkerStarts, TypeRest
<1>2. CASE WorkerWakes(w)
  BY <1>0, <1>2, GetTypes DEF WorkerWakes, TypeRest
<1>3. ASSUME NEW o \in {"result", "error"}, WorkerFinishes(w, o)
      PROVE  TypeOK'
  <2>1. fut' \in [Requests -> Futures]
    BY <1>3 DEF WorkerFinishes, Settle, TypeRest, Futures
  <2>2. CASE unfinished[cur] > 0
    <3>1. [unfinished EXCEPT ![cur] = @ - 1] \in [Queue -> Nat]
      BY <1>0, <2>2
    <3>2. gauge' \in Nat
      BY <1>0, <1>3, <2>2 DEF WorkerFinishes, TypeRest
    <3>3. Get(w, cur, [unfinished EXCEPT ![cur] = @ - 1])
      BY <1>0, <1>3, <2>2 DEF WorkerFinishes
    <3> QED
      BY <1>0, <2>1, <3>1, <3>2, <3>3, GetTypes
  <2>3. CASE unfinished[cur] = 0
    <3>1. /\ wstate' = [wstate EXCEPT ![w] = "crashed"]
          /\ hand' = [hand EXCEPT ![w] = Sentinel]
          /\ UNCHANGED <<svc, cur, queues, pc, at, stops, wat, calls>>
      BY <1>3, <2>3 DEF WorkerFinishes
    <3>2. wstate' \in [Worker -> WStates]
      BY <3>1 DEF TypeService, WStates
    <3>3. hand' \in [Worker -> Requests \cup {Sentinel}]
      BY <3>1 DEF TypeRest
    <3> QED
      BY <2>1, <3>1, <3>2, <3>3 DEF TypeRest, TypeService, svc, queues, stops
  <2> QED
    BY <1>0, <2>2, <2>3
<1> QED
  BY <1>1, <1>2, <1>3

LEMMA StopperTypes ==
  ASSUME TypeOK, NEW s \in Stoppers, StopperNext(s)
  PROVE  TypeOK'
<1> USE TypeSplit
<1> s \in Tasks
  BY DEF Tasks
<1>1. CASE StopCalled(s)
  <2>1. TypeService'
    BY <1>1 DEF StopCalled, TypeService, workers
  <2>2. CASE Goto(s, "done")
    BY <2>1, <2>2, GotoTypes DEF Ended
  <2>3. CASE /\ PutSentinels(s, 0, items, unfinished)
             /\ UNCHANGED <<cur, gauge, maxsize, workers, fut, calls>>
    BY <2>1, <2>3, PutSentinelsTypes DEF TypeRest
  <2> QED
    BY <1>1, <2>2, <2>3 DEF StopCalled
<1>2. CASE SentinelResumes(s)
  <2>1. at[s] \in Queue /\ sent[s] + 1 \in Nat
    BY DEF TypeRest
  <2>2. [items EXCEPT ![at[s]] = Append(@, Sentinel)] \in [Queue -> Seq(Requests \cup {Sentinel})]
    BY <2>1 DEF TypeRest
  <2>3. [unfinished EXCEPT ![at[s]] = @ + 1] \in [Queue -> Nat]
    BY <2>1 DEF TypeRest
  <2>4. TypeRest'
    BY <1>2, <2>1, <2>2, <2>3, PutSentinelsTypes DEF SentinelResumes
  <2> QED
    BY <1>2, <2>4 DEF SentinelResumes, svc, workers, TypeService
<1>3. CASE StopJoined(s)
  BY <1>3, GotoTypes DEF StopJoined, TypeService, Ended
<1> QED
  BY <1>1, <1>2, <1>3 DEF StopperNext
LEMMA ReloaderTypes ==
  ASSUME TypeOK, NEW a \in Reloaders, ApplyCalled(a) \/ ApplyEnds(a)
  PROVE  TypeOK'
<1> USE TypeSplit
<1>0. a \in Tasks /\ a \in Queue /\ cur \in Queue /\ a # FirstQueue
  BY DEF Tasks, Queue, TypeRest, ServiceAssumption
<1>1. CASE ApplyCalled(a)
  BY <1>0, <1>1, GotoTypes DEF ApplyCalled, TypeService, ServiceAssumption
<1>2. CASE ApplyFails(a)
  BY <1>0, <1>2, GotoTypes DEF ApplyFails, svc, TypeService, Ended
<1>3. CASE ApplyIdle(a)
  <2>1. pc' \in [Tasks -> Steps] /\ cur' \in Queue
    BY <1>0, <1>3 DEF ApplyIdle, TypeRest, Steps, Ended
  <2>2. UNCHANGED <<svc, queues, at, stops, workers, fut, calls>>
    BY <1>3 DEF ApplyIdle
  <2> QED
    BY <2>1, <2>2 DEF svc, queues, stops, workers, TypeRest, TypeService
<1>4. CASE ApplySwaps(a)
  <2>1. pc' \in [Tasks -> Steps] /\ cur' \in Queue
    BY <1>0, <1>4 DEF ApplySwaps, TypeRest, Steps, Ended
  <2>2. items' \in [Queue -> Seq(Requests \cup {Sentinel})]
    <3>1. items' = [items EXCEPT ![a] = items[cur], ![cur] = <<>>]
      BY <1>4 DEF ApplySwaps
    <3>2. <<>> \in Seq(Requests \cup {Sentinel}) /\ items[cur] \in Seq(Requests \cup {Sentinel})
      BY <1>0 DEF TypeRest
    <3> QED
      BY <1>0, <3>1, <3>2 DEF TypeRest
  <2>3. unfinished' \in [Queue -> Nat]
    <3>1. /\ Len(items[cur]) \in Nat /\ unfinished[cur] \in Nat
          /\ maxsize[a] \in Nat /\ unfinished[a] \in Nat
      BY <1>0 DEF TypeRest
    <3>2. Len(items[cur]) <= unfinished[cur]
      BY <1>4, <3>1 DEF ApplySwaps, Movable
    <3>3. unfinished[cur] - Len(items[cur]) \in Nat
      BY <3>1, <3>2
    <3>4. CASE cur = a
      BY <1>0, <1>4, <3>1, <3>3, <3>4 DEF ApplySwaps, TypeRest
    <3>5. CASE cur # a
      BY <1>0, <1>4, <3>1, <3>3, <3>5 DEF ApplySwaps, TypeRest
    <3> QED
      BY <3>4, <3>5
  <2>4. UNCHANGED <<svc, gauge, maxsize, at, stops, workers, fut, calls>>
    BY <1>4 DEF ApplySwaps
  <2> QED
    BY <2>1, <2>2, <2>3, <2>4 DEF svc, stops, workers, TypeRest, TypeService
<1>5. CASE ApplyDrops(a)
  <2> DEFINE n == Movable(a) + 1
  <2>1. n \in Nat
    BY <1>0 DEF Movable, TypeRest
  <2>2. /\ items' = [items EXCEPT ![cur] = SubSeq(@, n + 1, Len(@))]
        /\ unfinished' = [unfinished EXCEPT ![cur] = IF @ < n THEN 0 ELSE @ - n]
        /\ pc' = [pc EXCEPT ![a] = "raised"]
        /\ UNCHANGED <<svc, cur, gauge, maxsize, at, stops, workers, fut, calls>>
    BY <1>5 DEF ApplyDrops
  <2> HIDE DEF n
  <2>3. SubSeq(items[cur], n + 1, Len(items[cur])) \in Seq(Requests \cup {Sentinel})
    BY <1>0, <2>1 DEF TypeRest
  <2>4. items' \in [Queue -> Seq(Requests \cup {Sentinel})]
    BY <2>2, <2>3 DEF TypeRest
  <2>5. unfinished' \in [Queue -> Nat]
    <3>1. (IF unfinished[cur] < n THEN 0 ELSE unfinished[cur] - n) \in Nat
      BY <1>0, <2>1 DEF TypeRest
    <3> QED
      BY <2>2, <3>1 DEF TypeRest
  <2>6. pc' \in [Tasks -> Steps]
    BY <1>0, <2>2 DEF TypeRest, Steps, Ended
  <2> QED
    BY <2>2, <2>4, <2>5, <2>6 DEF svc, stops, workers, TypeRest, TypeService
<1> QED
  BY <1>1, <1>2, <1>3, <1>4, <1>5 DEF ApplyEnds

LEMMA StepTypes == TypeOK /\ [Next]_vars => TypeOK'
<1> SUFFICES ASSUME TypeOK, [Next]_vars PROVE TypeOK'
  OBVIOUS
<1>1. CASE UNCHANGED vars
  BY <1>1 DEF vars, svc, queues, stops, workers, TypeOK
<1>2. CASE Next
  BY <1>2, CallerTypes, RequestTypes, WorkerTypes, StopperTypes, ReloaderTypes DEF Next
<1> QED
  BY <1>1, <1>2

(* Every variable keeps its type, whatever the calls, the configurations   *)
(* and their interleaving: in particular no swap, drop or task_done makes  *)
(* a queue's count of unfinished tasks negative (service.py:74-83, 93, 103)*)
THEOREM TypeCorrect == SafeSpec => []TypeOK
  BY InitTypes, StepTypes, PTL DEF SafeSpec
-----------------------------------------------------------------------------
(* Where requests are.  The operators take the contents `its` of all       *)
(* queues as a parameter, so that the lemmas hold between two puts of one  *)
(* step as well as between steps.                                          *)

Contents == [Queue -> Seq(Requests \cup {Sentinel})]

InQueue(its, r) == \E q \in Queue : \E i \in 1..Len(its[q]) : its[q][i] = r

Distinct(its) ==
  \A p, q \in Queue : \A i \in 1..Len(its[p]), j \in 1..Len(its[q]) :
    its[p][i] = its[q][j] /\ its[p][i] \in Requests => p = q /\ i = j

(* No request has been added or doubled.                                   *)
Thinner(new, its) ==
  /\ Distinct(its) => Distinct(new)
  /\ \A r \in Requests : InQueue(new, r) => InQueue(its, r)

LEMMA AppendPlaces ==
  ASSUME NEW its \in Contents, NEW q \in Queue, NEW x \in Requests,
         Distinct(its), ~InQueue(its, x)
  PROVE  LET new == [its EXCEPT ![q] = Append(@, x)]
         IN  Distinct(new) /\ \A r \in Requests : InQueue(new, r) => r = x \/ InQueue(its, r)
<1> DEFINE new == [its EXCEPT ![q] = Append(@, x)]
<1>1. \A p \in Queue : its[p] \in Seq(Requests \cup {Sentinel}) /\ Len(its[p]) \in Nat
  BY DEF Contents
<1>2. /\ Len(new[q]) = Len(its[q]) + 1
      /\ new[q][Len(its[q]) + 1] = x
      /\ \A i \in 1..Len(its[q]) : new[q][i] = its[q][i]
  BY <1>1 DEF Contents
<1>3. \A p \in Queue : p # q => new[p] = its[p]
  BY DEF Contents
<1> HIDE DEF new
<1>4. \A p \in Queue : \A i \in 1..Len(new[p]) :
        \/ i \in 1..Len(its[p]) /\ new[p][i] = its[p][i]
        \/ p = q /\ i = Len(its[q]) + 1 /\ new[p][i] = x
  BY <1>1, <1>2, <1>3
<1>5. Distinct(new)
  <2> SUFFICES ASSUME NEW p1 \in Queue, NEW p2 \in Queue, NEW i \in 1..Len(new[p1]),
                      NEW j \in 1..Len(new[p2]), new[p1][i] = new[p2][j], new[p1][i] \in Requests
               PROVE  p1 = p2 /\ i = j
    BY DEF Distinct
  <2>1. CASE i \in 1..Len(its[p1]) /\ new[p1][i] = its[p1][i] /\
             j \in 1..Len(its[p2]) /\ new[p2][j] = its[p2][j]
    BY <2>1 DEF Distinct
  <2>2. \A p \in Queue : \A k \in 1..Len(its[p]) : its[p][k] # x
    BY DEF InQueue
  <2> QED
    BY <1>4, <2>1, <2>2
<1>6. \A r \in Requests : InQueue(new, r) => r = x \/ InQueue(its, r)
  BY <1>4 DEF InQueue
<1> QED
  BY <1>5, <1>6 DEF new

LEMMA PadPlaces ==
  ASSUME NEW its \in Contents, NEW q \in Queue, NEW m \in Nat
  PROVE  Thinner([its EXCEPT ![q] = @ \o [i \in 1..m |-> Sentinel]], its)
<1> DEFINE pad == [i \in 1..m |-> Sentinel]
           new == [its EXCEPT ![q] = @ \o pad]
<1>1. \A p \in Queue : its[p] \in Seq(Requests \cup {Sentinel}) /\ Len(its[p]) \in Nat
  BY DEF Contents
<1>2. pad \in Seq(Requests \cup {Sentinel}) /\ Len(pad) = m
  OBVIOUS
<1>3. /\ Len(new[q]) = Len(its[q]) + m
      /\ \A i \in 1..Len(its[q]) : new[q][i] = its[q][i]
      /\ \A i \in 1..Len(new[q]) : i > Len(its[q]) => new[q][i] = Sentinel
  <2>1. new[q] = its[q] \o pad
    BY DEF Contents
  <2>2. Len(new[q]) = Len(its[q]) + m
    BY <1>1, <1>2, <2>1
  <2>3. \A i \in 1..Len(its[q]) : new[q][i] = its[q][i]
    BY <1>1, <1>2, <2>1
  <2>4. \A i \in 1..Len(new[q]) : i > Len(its[q]) => new[q][i] = pad[i - Len(its[q])]
    BY <1>1, <1>2, <2>1, <2>2
  <2> QED
    BY <1>1, <2>2, <2>3, <2>4
<1>4. \A p \in Queue : p # q => new[p] = its[p]
  BY DEF Contents
<1> HIDE DEF new
<1>5. \A p \in Queue : \A i \in 1..Len(new[p]) : new[p][i] \in Requests =>
        i \in 1..Len(its[p]) /\ new[p][i] = its[p][i]
  BY <1>1, <1>3, <1>4 DEF ServiceAssumption
<1>6. Thinner(new, its)
  BY <1>5 DEF Thinner, Distinct, InQueue
<1> QED
  BY <1>6 DEF new

(* Removing the first n items, which is also what a get does with n = 1.   *)
LEMMA DropPlaces ==
  ASSUME NEW its \in Contents, NEW q \in Queue, NEW n \in Nat, NEW rest,
         rest \in Seq(Requests \cup {Sentinel}), n <= Len(its[q]),
         Len(rest) = Len(its[q]) - n,
         \A i \in 1..Len(rest) : rest[i] = its[q][i + n]
  PROVE  /\ Thinner([its EXCEPT ![q] = rest], its)
         /\ \A i \in 1..n : its[q][i] \in Requests /\ Distinct(its) =>
              ~InQueue([its EXCEPT ![q] = rest], its[q][i])
<1> DEFINE new == [its EXCEPT ![q] = rest]
           From(p, i) == IF p = q THEN i + n ELSE i
<1>1. \A p \in Queue : Len(its[p]) \in Nat
  BY DEF Contents
<1>2. new[q] = rest /\ \A p \in Queue : p # q => new[p] = its[p]
  BY DEF Contents
<1> HIDE DEF new
<1>3. \A p \in Queue : \A i \in 1..Len(new[p]) :
        From(p, i) \in 1..Len(its[p]) /\ new[p][i] = its[p][From(p, i)]
  <2> SUFFICES ASSUME NEW p \in Queue, NEW i \in 1..Len(new[p])
               PROVE  From(p, i) \in 1..Len(its[p]) /\ new[p][i] = its[p][From(p, i)]
    OBVIOUS
  <2>1. CASE p # q
    BY <1>2, <2>1
  <2>2. CASE p = q
    <3>1. i \in 1..(Len(its[q]) - n) /\ rest[i] = its[q][i + n]
      BY <1>2, <2>2
    <3>2. i + n \in 1..Len(its[q])
      BY <1>1, <3>1
    <3> QED
      BY <1>2, <2>2, <3>1, <3>2
  <2> QED
    BY <2>1, <2>2
<1>4. Distinct(its) => Distinct(new)
  <2> SUFFICES ASSUME Distinct(its), NEW p1 \in Queue, NEW p2 \in Queue,
                      NEW i \in 1..Len(new[p1]), NEW j \in 1..Len(new[p2]),
                      new[p1][i] = new[p2][j], new[p1][i] \in Requests
               PROVE  p1 = p2 /\ i = j
    BY DEF Distinct
  <2>1. p1 = p2 /\ From(p1, i) = From(p2, j)
    <3>1. /\ From(p1, i) \in 1..Len(its[p1]) /\ new[p1][i] = its[p1][From(p1, i)]
          /\ From(p2, j) \in 1..Len(its[p2]) /\ new[p2][j] = its[p2][From(p2, j)]
      BY <1>3
    <3>2. its[p1][From(p1, i)] = its[p2][From(p2, j)] /\ its[p1][From(p1, i)] \in Requests
      BY <3>1
    <3> HIDE DEF From
    <3> QED
      BY <3>1, <3>2 DEF Distinct
  <2>2. i \in Int /\ j \in Int
    OBVIOUS
  <2> QED
    BY <2>1, <2>2
<1>5. \A r \in Requests : InQueue(new, r) => InQueue(its, r)
  BY <1>3 DEF InQueue
<1>6. ASSUME NEW i \in 1..n, its[q][i] \in Requests, Distinct(its), InQueue(new, its[q][i])
      PROVE  FALSE
  <2>0. PICK p \in Queue : \E j \in 1..Len(new[p]) : new[p][j] = its[q][i]
    BY <1>6 DEF InQueue
  <2>1. PICK j \in 1..Len(new[p]) : new[p][j] = its[q][i]
    BY <2>0
  <2>2. From(p, j) \in 1..Len(its[p]) /\ its[p][From(p, j)] = its[q][i]
    BY <1>3, <2>1
  <2>3. i \in 1..Len(its[q])
    BY <1>1
  <2>4. p = q /\ From(p, j) = i
    BY <1>6, <2>2, <2>3 DEF Distinct
  <2> QED
    BY <2>1, <2>4
<1> QED
  BY <1>4, <1>5, <1>6 DEF new, Thinner

LEMMA MovePlaces ==
  ASSUME NEW its \in Contents, NEW q \in Queue, NEW a \in Queue, a # q, its[a] = <<>>
  PROVE  Thinner([its EXCEPT ![a] = its[q], ![q] = <<>>], its)
<1> DEFINE new == [its EXCEPT ![a] = its[q], ![q] = <<>>]
<1>1. /\ new[a] = its[q] /\ new[q] = <<>>
      /\ \A p \in Queue : p \notin {a, q} => new[p] = its[p]
  BY DEF Contents
<1> HIDE DEF new
<1>2. \A p \in Queue : \A i \in 1..Len(new[p]) :
        /\ p # q
        /\ p = a => i \in 1..Len(its[q]) /\ new[p][i] = its[q][i]
        /\ p # a => i \in 1..Len(its[p]) /\ new[p][i] = its[p][i]
  BY <1>1
<1> DEFINE From(p) == IF p = a THEN q ELSE p
<1>3. \A p \in Queue : \A i \in 1..Len(new[p]) :
        /\ p # q /\ From(p) \in Queue
        /\ i \in 1..Len(its[From(p)]) /\ new[p][i] = its[From(p)][i]
  BY <1>2
<1>4. \A p1, p2 \in Queue : p1 # q /\ p2 # q /\ From(p1) = From(p2) => p1 = p2
  OBVIOUS
<1> HIDE DEF From
<1>5. Distinct(its) => Distinct(new)
  <2> SUFFICES ASSUME Distinct(its), NEW p1 \in Queue, NEW p2 \in Queue,
                      NEW i \in 1..Len(new[p1]), NEW j \in 1..Len(new[p2]),
                      new[p1][i] = new[p2][j], new[p1][i] \in Requests
               PROVE  p1 = p2 /\ i = j
    BY DEF Distinct
  <2>1. From(p1) = From(p2) /\ i = j
    BY <1>3 DEF Distinct
  <2> QED
    BY <1>3, <1>4, <2>1
<1>6. \A r \in Requests : InQueue(new, r) => InQueue(its, r)
  BY <1>3 DEF InQueue
<1> QED
  BY <1>5, <1>6 DEF new, Thinner
-----------------------------------------------------------------------------
(* The inductive invariant behind OnePlace and DispatchedOnce.             *)

Early == {"idle", "locking", "reloading", "putting"}   \* before the put

(* A queued request has been put and not been dispatched.                  *)
Placed ==
  /\ Distinct(items)
  /\ \A r \in Requests : InQueue(items, r) => calls[r] = 0 /\ fut[r] # "none"

(* A request in hand has been dispatched, by that worker only.             *)
Handed ==
  /\ \A w \in Worker : hand[w] \in Requests => calls[hand[w]] = 1
  /\ \A v, w \in Worker : hand[v] = hand[w] /\ hand[v] \in Requests => v = w

Counted ==
  \A r \in Requests : /\ calls[r] <= 1
                      /\ fut[r] = "none" => calls[r] = 0
                      /\ pc[r] \in Early => fut[r] = "none"

(* Nobody knows the queue object an apply_config has yet to create.        *)
Fresh ==
  \A a \in Reloaders : pc[a] # "done" =>
    items[a] = <<>> /\ cur # a /\ \A t \in Tasks : at[t] # a

IInv == TypeOK /\ Placed /\ Handed /\ Counted /\ Fresh

LEMMA InitPlaces == Init => IInv
<1> SUFFICES ASSUME Init PROVE IInv
  OBVIOUS
<1>1. \A q \in Queue : items[q] = <<>>
  BY DEF Init
<1>2. Placed
  BY <1>1 DEF Placed, Distinct, InQueue
<1>3. Handed
  BY DEF Init, Handed, ServiceAssumption
<1>4. Counted
  BY DEF Init, Counted
<1>5. Fresh
  BY <1>1 DEF Init, Fresh, Queue, ServiceAssumption
<1> QED
  BY <1>2, <1>3, <1>4, <1>5, InitTypes DEF IInv

LEMMA InvariantGives == IInv => OnePlace /\ DispatchedOnce
<1> SUFFICES ASSUME IInv PROVE OnePlace /\ DispatchedOnce
  OBVIOUS
<1>1. \A r \in Requests : Queued(r) <=> InQueue(items, r)
  BY DEF Queued, InQueue
<1>2. \A r \in Requests : Queued(r) => calls[r] = 0
  BY <1>1 DEF IInv, Placed
<1>3. \A w \in Worker : hand[w] \in Requests => ~Queued(hand[w])
  BY <1>2 DEF IInv, Handed
<1> QED
  BY <1>2, <1>3 DEF IInv, Placed, Distinct, Handed, Counted, OnePlace, DispatchedOnce

(* A step that adds no request to any queue and dispatches none.           *)
LEMMA StillPlaced ==
  ASSUME IInv, TypeOK', Fresh', Thinner(items', items), UNCHANGED <<hand, calls>>,
         \A r \in Requests : fut'[r] = "none" <=> fut[r] = "none",
         \A r \in Requests : pc'[r] \in Early => pc[r] \in Early
  PROVE  IInv'
<1>1. Placed'
  BY DEF IInv, Placed, Thinner
<1>2. Handed'
  BY DEF IInv, Handed
<1>3. Counted'
  BY DEF IInv, Counted
<1> QED
  BY <1>1, <1>2, <1>3 DEF IInv

LEMMA SameContents == items' = items => Thinner(items', items)
  BY DEF Thinner

LEMMA GotoPlaces ==
  ASSUME IInv, TypeOK', NEW t \in Tasks, NEW p, Goto(t, p), pc[t] # "done",
         p \in Early => pc[t] \in Early
  PROVE  IInv'
<1>1. /\ pc' = [pc EXCEPT ![t] = p]
      /\ UNCHANGED <<items, cur, at, hand, calls, fut>>
  BY DEF Goto, queues
<1>2. \A u \in Tasks : pc'[u] = IF u = t THEN p ELSE pc[u]
  BY <1>1 DEF IInv, TypeOK
<1>3. \A r \in Requests : r \in Tasks
  BY DEF Tasks, Callers
<1>4. \A a \in Reloaders : pc'[a] # "done" => pc[a] # "done"
  BY <1>2 DEF Tasks
<1>5. Fresh'
  BY <1>1, <1>4 DEF IInv, Fresh
<1> QED
  BY <1>1, <1>2, <1>3, <1>5, StillPlaced, SameContents

LEMMA EnqueuePlaces ==
  ASSUME IInv, TypeOK', NEW r \in Requests, NEW q \in Queue, Enqueue(r, q), pc[r] \in Early,
         \A a \in Reloaders : pc[a] # "done" => q # a
  PROVE  IInv'
<1>1. /\ items' = [items EXCEPT ![q] = Append(@, r)]
      /\ fut' = [fut EXCEPT ![r] = "pending"]
      /\ pc' = [pc EXCEPT ![r] = "waiting"]
      /\ UNCHANGED <<cur, at, hand, calls>>
  BY DEF Enqueue
<1>2. fut[r] = "none" /\ calls[r] = 0 /\ ~InQueue(items, r)
  BY DEF IInv, Counted, Placed
<1>3. items \in Contents
  BY DEF IInv, TypeOK, Contents
<1>4. Distinct(items') /\ \A x \in Requests : InQueue(items', x) => x = r \/ InQueue(items, x)
  BY <1>1, <1>2, <1>3, AppendPlaces DEF IInv, Placed
<1>5. \A x \in Requests : fut'[x] = IF x = r THEN "pending" ELSE fut[x]
  BY <1>1 DEF IInv, TypeOK
<1>6. \A x \in Tasks : pc'[x] = IF x = r THEN "waiting" ELSE pc[x]
  BY <1>1 DEF IInv, TypeOK
<1>7. Placed'
  <2>1. ASSUME NEW x \in Requests, InQueue(items', x)
        PROVE  calls'[x] = 0 /\ fut'[x] # "none"
    <3>1. CASE x = r
      BY <1>1, <1>2, <1>5, <3>1
    <3>2. CASE x # r
      BY <1>1, <1>4, <1>5, <2>1, <3>2 DEF IInv, Placed
    <3> QED
      BY <3>1, <3>2
  <2> QED
    BY <1>4, <2>1 DEF Placed
<1>8. Handed'
  BY <1>1 DEF IInv, Handed
<1>9. Counted'
  BY <1>1, <1>2, <1>5, <1>6 DEF IInv, Counted, Early, Tasks, Callers
<1>10. Fresh'
  <2>1. \A a \in Reloaders : pc'[a] = pc[a] /\ a \in Queue
    BY <1>6 DEF Tasks, Queue, ServiceAssumption
  <2>2. \A a \in Reloaders : pc[a] # "done" => items'[a] = items[a]
    BY <1>1, <1>3, <2>1 DEF Contents
  <2> QED
    BY <1>1, <2>1, <2>2 DEF IInv, Fresh
<1> QED
  BY <1>7, <1>8, <1>9, <1>10 DEF IInv

LEMMA PutPlaces ==
  ASSUME IInv, TypeOK', NEW r \in Requests, Put(r), pc[r] \in Early
  PROVE  IInv'
<1> r \in Tasks
  BY DEF Tasks, Callers
<1>0. cur \in Queue /\ \A a \in Reloaders : pc[a] # "done" => cur # a
  BY DEF IInv, TypeOK, Fresh
<1>1. CASE Enqueue(r, cur)
  BY <1>0, <1>1, EnqueuePlaces
<1>2. CASE /\ pc' = [pc EXCEPT ![r] = "putting"]
           /\ at' = [at EXCEPT ![r] = cur]
           /\ UNCHANGED <<cur, queues, stops, wat, hand, fut, calls>>
  <2>1. \A u \in Tasks : /\ pc'[u] = IF u = r THEN "putting" ELSE pc[u]
                         /\ at'[u] = IF u = r THEN cur ELSE at[u]
    BY <1>2 DEF IInv, TypeOK
  <2>2. UNCHANGED <<items, cur, hand, calls, fut>>
    BY <1>2 DEF queues
  <2>3. \A a \in Reloaders : pc'[a] = pc[a]
    BY <2>1 DEF Tasks, ServiceAssumption
  <2>4. Fresh'
    BY <1>0, <2>1, <2>2, <2>3 DEF IInv, Fresh
  <2>5. \A x \in Requests : pc'[x] \in Early => pc[x] \in Early
    BY <2>1 DEF Tasks, Callers
  <2> QED
    BY <2>2, <2>4, <2>5, StillPlaced, SameContents
<1> QED
  BY <1>1, <1>2 DEF Put
LEMMA AcquiredPlaces ==
  ASSUME IInv, TypeOK', NEW t \in Callers, Acquired(t), pc[t] \in Early
  PROVE  IInv'
<1> t \in Tasks /\ pc[t] # "done"
  BY DEF Tasks, Early
<1>1. CASE t \in Requests /\ Put(t)
  BY <1>1, PutPlaces
<1>2. CASE Goto(t, "done") \/ Goto(t, "reloading")
  BY <1>2, GotoPlaces DEF Early
<1> QED
  BY <1>1, <1>2 DEF Acquired, Proceed

LEMMA CallerPlaces ==
  ASSUME IInv, TypeOK', NEW t \in Callers, CallerNext(t)
  PROVE  IInv'
<1> t \in Tasks
  BY DEF Tasks
<1>1. CASE Call(t)
  <2>0. pc[t] \in Early
    BY <1>1 DEF Call, Early
  <2>1. CASE t \in Requests /\ Put(t)
    BY <2>0, <2>1, PutPlaces
  <2>2. CASE Acquired(t)
    BY <2>0, <2>2, AcquiredPlaces
  <2>3. CASE Goto(t, "locking")
    BY <2>0, <2>3, GotoPlaces DEF Early
  <2> QED
    BY <1>1, <2>1, <2>2, <2>3 DEF Call
<1>2. CASE LockAcquired(t)
  BY <1>2, AcquiredPlaces DEF LockAcquired, Early
<1>3. CASE ReloadDone(t)
  <2>0. pc[t] \in Early /\ pc[t] # "done"
    BY <1>3 DEF ReloadDone, Early
  <2>1. CASE t \in Requests /\ Put(t)
    BY <2>0, <2>1, PutPlaces
  <2>2. CASE Goto(t, "done")
    BY <2>0, <2>2, GotoPlaces
  <2> QED
    BY <1>3, <2>1, <2>2 DEF ReloadDone, Proceed
<1>4. CASE ReloadFails(t)
  BY <1>4, GotoPlaces DEF ReloadFails, Early
<1> QED
  BY <1>1, <1>2, <1>3, <1>4 DEF CallerNext

LEMMA RequestPlaces ==
  ASSUME IInv, TypeOK', NEW r \in Requests, RequestNext(r)
  PROVE  IInv'
<1> r \in Tasks
  BY DEF Tasks, Callers
<1>1. CASE PutResumes(r)
  <2>1. at[r] \in Queue /\ \A a \in Reloaders : pc[a] # "done" => at[r] # a
    BY DEF IInv, TypeOK, Fresh
  <2> QED
    BY <1>1, <2>1, EnqueuePlaces DEF PutResumes, Early
<1>2. CASE Return(r)
  BY <1>2, GotoPlaces DEF Return, Early
<1>3. CASE Cancel(r)
  <2>1. \A x \in Requests : fut'[x] = "none" <=> fut[x] = "none"
    BY <1>3 DEF Cancel, IInv, TypeOK
  <2>2. \A u \in Tasks : pc'[u] = IF u = r THEN "cancelled" ELSE pc[u]
    BY <1>3 DEF Cancel, IInv, TypeOK
  <2>3. UNCHANGED <<items, cur, at, hand, calls>>
    BY <1>3 DEF Cancel, queues, workers
  <2>4. Fresh'
    BY <2>2, <2>3 DEF IInv, Fresh, Tasks, ServiceAssumption
  <2>5. \A x \in Requests : pc'[x] \in Early => pc[x] \in Early
    BY <2>2 DEF Early, Tasks, Callers
  <2> QED
    BY <2>1, <2>3, <2>4, <2>5, StillPlaced, SameContents
<1> QED
  BY <1>1, <1>2, <1>3 DEF RequestNext

(* One get of a worker: the head of a queue becomes the request in hand.   *)
LEMMA GetPlaces ==
  ASSUME IInv, TypeOK', NEW w \in Worker, NEW q \in Queue, NEW uf, Get(w, q, uf),
         \A r \in Requests : fut'[r] = "none" <=> fut[r] = "none"
  PROVE  IInv'
<1> DEFINE x == Head(items[q])
<1>1. UNCHANGED <<cur, pc, at>> /\ items \in Contents
  BY DEF Get, IInv, TypeOK, Contents
<1>2. CASE items[q] = <<>>
  <2>1. UNCHANGED <<items, calls>> /\ hand' = [hand EXCEPT ![w] = Sentinel]
    BY <1>2 DEF Get
  <2>2. \A v \in Worker : hand'[v] \in Requests => hand'[v] = hand[v]
    BY <2>1 DEF IInv, TypeOK, ServiceAssumption
  <2>3. Placed' /\ Counted' /\ Fresh'
    BY <1>1, <2>1 DEF IInv, Placed, Counted, Fresh
  <2>4. Handed'
    BY <2>1, <2>2 DEF IInv, Handed
  <2> QED
    BY <2>3, <2>4 DEF IInv
<1>3. CASE items[q] # <<>>
  <2>1. items' = [items EXCEPT ![q] = Tail(@)] /\ hand' = [hand EXCEPT ![w] = x]
    BY <1>3 DEF Get
  <2>2. /\ 1 \in Nat /\ 1 <= Len(items[q]) /\ x = items[q][1]
        /\ Tail(items[q]) \in Seq(Requests \cup {Sentinel})
        /\ Len(Tail(items[q])) = Len(items[q]) - 1
        /\ \A i \in 1..Len(Tail(items[q])) : Tail(items[q])[i] = items[q][i + 1]
    BY <1>1, <1>3 DEF Contents
  <2>3. /\ Thinner(items', items)
        /\ x \in Requests /\ Distinct(items) => ~InQueue(items', x)
    <3>1. items' = [items EXCEPT ![q] = Tail(items[q])]
      BY <2>1
    <3>2. /\ Thinner(items', items)
          /\ \A i \in 1..1 : items[q][i] \in Requests /\ Distinct(items) =>
               ~InQueue(items', items[q][i])
      BY <1>1, <2>2, <3>1, DropPlaces
    <3> QED
      BY <2>2, <3>2
  <2>4. \A a \in Reloaders : items[a] = <<>> => items'[a] = <<>>
    BY <1>1, <1>3, <2>1 DEF Contents, Queue
  <2>5. Fresh'
    BY <1>1, <2>4 DEF IInv, Fresh
  <2>6. CASE x \in Requests /\ calls' = [calls EXCEPT ![x] = @ + 1]
    <3>1. InQueue(items, x) /\ calls[x] = 0 /\ fut[x] # "none"
      BY <2>2, <2>6 DEF InQueue, IInv, Placed
    <3>2. \A r \in Requests : calls'[r] = IF r = x THEN 1 ELSE calls[r]
      BY <2>6, <3>1 DEF IInv, TypeOK
    <3>3. \A v \in Worker : hand'[v] = IF v = w THEN x ELSE hand[v]
      BY <2>1 DEF IInv, TypeOK
    <3> HIDE DEF x
    <3>4. \A v \in Worker : hand[v] # x
      BY <2>6, <3>1 DEF IInv, Handed
    <3>5. Placed'
      BY <2>3, <2>6, <3>2 DEF IInv, Placed, Thinner
    <3>6. Handed'
      BY <2>6, <3>2, <3>3, <3>4 DEF IInv, Handed
    <3>7. Counted'
      BY <1>1, <3>1, <3>2 DEF IInv, Counted
    <3> QED
      BY <2>5, <3>5, <3>6, <3>7 DEF IInv
  <2>7. CASE x = Sentinel /\ UNCHANGED calls
    <3>1. \A v \in Worker : hand'[v] \in Requests => hand'[v] = hand[v]
      BY <2>1, <2>7 DEF IInv, TypeOK, ServiceAssumption
    <3>2. Handed'
      BY <2>7, <3>1 DEF IInv, Handed
    <3>3. Placed'
      BY <2>3, <2>7 DEF IInv, Placed, Thinner
    <3>4. Counted'
      BY <1>1, <2>7 DEF IInv, Counted
    <3> QED
      BY <2>5, <3>2, <3>3, <3>4 DEF IInv
  <2> QED
    BY <1>3, <2>6, <2>7 DEF Get
<1> QED
  BY <1>2, <1>3

LEMMA WorkerPlaces ==
  ASSUME IInv, TypeOK', NEW w \in Worker, WorkerNext(w)
  PROVE  IInv'
<1>0. cur \in Queue /\ wat[w] \in Queue
  BY DEF IInv, TypeOK
<1>1. CASE WorkerStarts(w)
  BY <1>0, <1>1, GetPlaces DEF WorkerStarts
<1>2. CASE WorkerWakes(w)
  BY <1>0, <1>2, GetPlaces DEF WorkerWakes
<1>3. ASSUME NEW o \in {"result", "error"}, WorkerFinishes(w, o)
      PROVE  IInv'
  <2>1. \A r \in Requests : fut'[r] = "none" <=> fut[r] = "none"
    BY <1>3 DEF WorkerFinishes, Settle, IInv, TypeOK
  <2>2. CASE Get(w, cur, [unfinished EXCEPT ![cur] = @ - 1])
    BY <1>0, <2>1, <2>2, GetPlaces
  <2>3. CASE /\ hand' = [hand EXCEPT ![w] = Sentinel]
             /\ UNCHANGED <<svc, cur, queues, pc, at, stops, wat, calls>>
    <3>1. UNCHANGED <<items, cur, pc, at, calls>>
      BY <2>3 DEF queues
    <3>2. \A v \in Worker : hand'[v] \in Requests => hand'[v] = hand[v]
      BY <2>3 DEF IInv, TypeOK, ServiceAssumption
    <3>3. Placed' /\ Counted' /\ Fresh'
      BY <2>1, <3>1 DEF IInv, Placed, Counted, Fresh
    <3>4. Handed'
      BY <3>1, <3>2 DEF IInv, Handed
    <3> QED
      BY <3>3, <3>4 DEF IInv
  <2> QED
    BY <1>3, <2>2, <2>3 DEF WorkerFinishes
<1> QED
  BY <1>1, <1>2, <1>3 DEF WorkerNext

LEMMA PutSentinelsPlaces ==
  ASSUME IInv, TypeOK', NEW s \in Stoppers, NEW k \in Nat, NEW its \in Contents, NEW uf,
         PutSentinels(s, k, its, uf), Thinner(its, items),
         \A a \in Reloaders : pc[a] # "done" => its[a] = <<>>,
         UNCHANGED <<cur, gauge, maxsize, workers, fut, calls>>
  PROVE  IInv'
<1> DEFINE room  == maxsize[cur] - Len(its[cur])
           turns == Len(wlist) - k
           n     == IF turns < room THEN turns ELSE room
           m     == IF n < 0 THEN 0 ELSE n
<1>0. s \in Tasks /\ cur \in Queue /\ s \notin Requests /\ s \notin Reloaders
  BY DEF Tasks, IInv, TypeOK, ServiceAssumption
<1>1. Len(wlist) \in Nat /\ maxsize[cur] \in Nat /\ Len(its[cur]) \in Nat
  <2>1. wlist \in Seq(Worker) /\ maxsize[cur] \in Nat
    BY <1>0 DEF IInv, TypeOK
  <2>2. its[cur] \in Seq(Requests \cup {Sentinel})
    BY <1>0 DEF Contents
  <2> QED
    BY <2>1, <2>2
<1>2. m \in Nat
  BY <1>1
<1>3. /\ items' = [its EXCEPT ![cur] = @ \o [i \in 1..m |-> Sentinel]]
      /\ at' = [at EXCEPT ![s] = cur]
      /\ \/ pc' = [pc EXCEPT ![s] = "sentinel"]
         \/ pc' = [pc EXCEPT ![s] = "joining"]
  BY DEF PutSentinels
<1> HIDE DEF m
<1>4. Thinner(items', its)
  BY <1>0, <1>2, <1>3, PadPlaces
<1>5. Thinner(items', items)
  BY <1>4 DEF Thinner
<1>6. \A t \in Tasks : /\ t # s => pc'[t] = pc[t]
                       /\ at'[t] = IF t = s THEN cur ELSE at[t]
  BY <1>3 DEF IInv, TypeOK
<1>7. Fresh'
  <2>1. \A a \in Reloaders : a \in Tasks /\ a # s /\ a \in Queue
    BY <1>0 DEF Tasks, Queue
  <2>2. \A a \in Reloaders : pc[a] # "done" => items'[a] = <<>>
    BY <1>3, <2>1 DEF Contents, IInv, Fresh
  <2> QED
    BY <1>6, <2>1, <2>2 DEF IInv, Fresh
<1>8. \A r \in Requests : pc'[r] \in Early => pc[r] \in Early
  BY <1>0, <1>6 DEF Tasks, Callers
<1> QED
  BY <1>5, <1>7, <1>8, StillPlaced DEF workers
LEMMA StopperPlaces ==
  ASSUME IInv, TypeOK', NEW s \in Stoppers, StopperNext(s)
  PROVE  IInv'
<1>0. s \in Tasks /\ items \in Contents
  BY DEF Tasks, IInv, TypeOK, Contents
<1>1. CASE StopCalled(s)
  <2>1. CASE Goto(s, "done") /\ ~running
    BY <1>0, <1>1, <2>1, GotoPlaces DEF StopCalled, Early
  <2>2. CASE /\ PutSentinels(s, 0, items, unfinished)
             /\ UNCHANGED <<cur, gauge, maxsize, workers, fut, calls>>
    <3>1. \A a \in Reloaders : pc[a] # "done" => items[a] = <<>>
      BY DEF IInv, Fresh
    <3>2. Thinner(items, items)
      BY DEF Thinner
    <3> QED
      BY <1>0, <2>2, <3>1, <3>2, PutSentinelsPlaces
  <2> QED
    BY <1>1, <2>1, <2>2 DEF StopCalled
<1>2. CASE SentinelResumes(s)
  <2> DEFINE its == [items EXCEPT ![at[s]] = Append(@, Sentinel)]
  <2>0. at[s] \in Queue /\ sent[s] + 1 \in Nat
    <3>1. at \in [Tasks -> Queue] /\ sent \in [Stoppers -> Nat]
      BY DEF IInv, TypeOK
    <3> QED
      BY <1>0, <3>1
  <2>1. items[at[s]] \o [i \in 1..1 |-> Sentinel] = Append(items[at[s]], Sentinel)
    <3>1. items[at[s]] \in Seq(Requests \cup {Sentinel})
      BY <1>0, <2>0 DEF Contents
    <3> QED
      BY <3>1
  <2>2. Thinner(its, items)
    <3>1. its = [items EXCEPT ![at[s]] = @ \o [i \in 1..1 |-> Sentinel]]
      BY <2>1
    <3> HIDE DEF its
    <3> QED
      BY <1>0, <2>0, <3>1, PadPlaces
  <2>3. its \in Contents
    BY <1>0, <2>0 DEF Contents
  <2>4. \A a \in Reloaders : pc[a] # "done" => its[a] = <<>>
    BY <1>0 DEF IInv, Fresh, Contents, Queue
  <2>5. PutSentinels(s, sent[s] + 1, its, [unfinished EXCEPT ![at[s]] = @ + 1])
    BY <1>2 DEF SentinelResumes
  <2>6. UNCHANGED <<cur, gauge, maxsize, workers, fut, calls>>
    BY <1>2 DEF SentinelResumes
  <2> HIDE DEF its
  <2> QED
    BY <2>0, <2>2, <2>3, <2>4, <2>5, <2>6, PutSentinelsPlaces
<1>3. CASE StopJoined(s)
  BY <1>0, <1>3, GotoPlaces DEF StopJoined, Early
<1> QED
  BY <1>1, <1>2, <1>3 DEF StopperNext

LEMMA ReloaderPlaces ==
  ASSUME IInv, TypeOK', NEW a \in Reloaders, ApplyCalled(a) \/ ApplyEnds(a)
  PROVE  IInv'
<1>0. /\ a \in Tasks /\ a \in Queue /\ cur \in Queue /\ items \in Contents
      /\ \A b \in Reloaders : b \in Tasks /\ b \in Queue
      /\ \A r \in Requests : r \in Tasks /\ r # a
  BY DEF Tasks, Callers, Queue, IInv, TypeOK, Contents, ServiceAssumption
<1>1. CASE ApplyCalled(a)
  BY <1>0, <1>1, GotoPlaces DEF ApplyCalled, Early
<1>2. CASE ApplyFails(a)
  BY <1>0, <1>2, GotoPlaces DEF ApplyFails, Early
<1>3. CASE ApplyIdle(a)
  <2>1. /\ cur' = a /\ UNCHANGED <<items, at, hand, fut, calls>>
        /\ \A t \in Tasks : pc'[t] = IF t = a THEN "done" ELSE pc[t]
    BY <1>3 DEF ApplyIdle, queues, workers, IInv, TypeOK
  <2>2. Fresh'
    BY <1>0, <2>1 DEF IInv, Fresh
  <2>3. \A r \in Requests : pc'[r] \in Early => pc[r] \in Early
    BY <1>0, <2>1
  <2> QED
    BY <2>1, <2>2, <2>3, StillPlaced, SameContents
<1>4. CASE ApplySwaps(a)
  <2>1. /\ cur' = a /\ UNCHANGED <<at, hand, fut, calls>>
        /\ items' = [items EXCEPT ![a] = items[cur], ![cur] = <<>>]
        /\ \A t \in Tasks : pc'[t] = IF t = a THEN "done" ELSE pc[t]
    BY <1>4 DEF ApplySwaps, workers, IInv, TypeOK
  <2>2. pc[a] # "done" /\ items[a] = <<>> /\ cur # a
    BY <1>4 DEF ApplySwaps, IInv, Fresh
  <2>3. Thinner(items', items)
    BY <1>0, <2>1, <2>2, MovePlaces
  <2>4. \A b \in Reloaders : b # a /\ items[b] = <<>> => items'[b] = <<>>
    BY <1>0, <2>1 DEF Contents
  <2>5. Fresh'
    BY <1>0, <2>1, <2>4 DEF IInv, Fresh
  <2>6. \A r \in Requests : pc'[r] \in Early => pc[r] \in Early
    BY <1>0, <2>1
  <2> QED
    BY <2>1, <2>3, <2>5, <2>6, StillPlaced
<1>5. CASE ApplyDrops(a)
  <2> DEFINE n == Movable(a) + 1
             rest == SubSeq(items[cur], n + 1, Len(items[cur]))
  <2>1. /\ UNCHANGED <<cur, at, hand, fut, calls>>
        /\ items' = [items EXCEPT ![cur] = rest]
        /\ \A t \in Tasks : pc'[t] = IF t = a THEN "raised" ELSE pc[t]
    BY <1>5 DEF ApplyDrops, workers, IInv, TypeOK
  <2>2. n \in Nat /\ n <= Len(items[cur])
    <3>0. maxsize[a] \in Nat /\ unfinished[cur] \in Nat
      BY <1>0 DEF IInv, TypeOK
    <3>1. n \in Nat
      BY <3>0 DEF Movable
    <3>2. Len(items[cur]) >= n /\ Len(items[cur]) \in Nat
      BY <1>0, <1>5 DEF ApplyDrops, Contents
    <3> QED
      BY <3>1, <3>2
  <2> HIDE DEF n
  <2>3. /\ rest \in Seq(Requests \cup {Sentinel})
        /\ Len(rest) = Len(items[cur]) - n
        /\ \A i \in 1..Len(rest) : rest[i] = items[cur][i + n]
    <3>1. items[cur] \in Seq(Requests \cup {Sentinel}) /\ Len(items[cur]) \in Nat
      BY <1>0 DEF Contents
    <3> QED
      BY <2>2, <3>1
  <2> HIDE DEF rest
  <2>4. Thinner(items', items)
    BY <1>0, <2>1, <2>2, <2>3, DropPlaces
  <2>5. pc[a] # "done" /\ \A b \in Reloaders : pc[b] # "done" => cur # b
    BY <1>5 DEF ApplyDrops, IInv, Fresh
  <2>6. \A b \in Reloaders : pc[b] # "done" => items'[b] = items[b]
    BY <1>0, <2>1, <2>5 DEF Contents
  <2>7. Fresh'
    BY <1>0, <2>1, <2>5, <2>6 DEF IInv, Fresh
  <2>8. \A r \in Requests : pc'[r] \in Early => pc[r] \in Early
    BY <1>0, <2>1
  <2> QED
    BY <2>1, <2>4, <2>7, <2>8, StillPlaced
<1> QED
  BY <1>1, <1>2, <1>3, <1>4, <1>5 DEF ApplyEnds

LEMMA StepPlaces == IInv /\ [Next]_vars => IInv'
<1> SUFFICES ASSUME IInv, [Next]_vars PROVE IInv'
  OBVIOUS
<1>0. TypeOK'
  BY StepTypes DEF IInv
<1>1. CASE UNCHANGED vars
  <2>1. UNCHANGED <<items, cur, pc, at, hand, fut, calls>>
    BY <1>1 DEF vars, queues, workers
  <2>2. Placed' /\ Handed' /\ Counted' /\ Fresh'
    BY <2>1 DEF IInv, Placed, Handed, Counted, Fresh
  <2> QED
    BY <1>0, <2>2 DEF IInv
<1>2. CASE Next
  BY <1>0, <1>2, CallerPlaces, RequestPlaces, WorkerPlaces, StopperPlaces, ReloaderPlaces DEF Next
<1> QED
  BY <1>1, <1>2

(* A request is never in two places, through every hot swap, drop, stop,   *)
(* restart and cancellation (service.py:75-83, 91).                        *)
THEOREM AlwaysOnePlace == SafeSpec => []OnePlace
  BY InitPlaces, StepPlaces, InvariantGives, PTL DEF SafeSpec

(* The adapter of a request is asked at most once, and never for a request *)
(* that is still queued (service.py:91-96).                                *)
THEOREM AlwaysDispatchedOnce == SafeSpec => []DispatchedOnce
  BY InitPlaces, StepPlaces, InvariantGives, PTL DEF SafeSpec
=============================================================================
