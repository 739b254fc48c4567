-------------------------- MODULE GatewayHubProofs --------------------------
(***************************************************************************)
(* That the gateway service, however it is called, does nothing that its   *)
(* delivery contract does not allow: the initial state maps to the         *)
(* contract's, and every step to a step of the contract or to a stutter.   *)
(***************************************************************************)
EXTENDS GatewayHub, GatewayServiceProofs, FiniteSetTheorems

-----------------------------------------------------------------------------
(* What the mapping needs besides the invariant of GatewayServiceProofs: a *)
(* worker holds a request exactly while it dispatches one; a start creates *)
(* workers that were not there; and who has a pending future awaits it.    *)

Before == {"idle", "locking", "reloading"}   \* of a start, its workers

Busy    == \A w \in Worker : wstate[w] = "busy" <=> hand[w] \in Requests
Unborn  == \A w \in Worker : pc[w[1]] \in Before => wstate[w] = "unborn"
Awaited == \A r \in Requests : fut[r] = "pending" => pc[r] = "waiting"

HInv == IInv /\ Busy /\ Unborn /\ Awaited

LEMMA InitHub == Init => HInv
<1> SUFFICES ASSUME Init PROVE HInv
  OBVIOUS
<1>1. Busy /\ Unborn /\ Awaited
  BY ServiceAssumption DEF Init, Busy, Unborn, Awaited, ServiceAssumption
<1> QED
  BY <1>1, InitPlaces DEF HInv

LEMMA Members ==
  /\ \A w \in Worker : w[1] \in Callers
  /\ \A r \in Requests : r \in Callers /\ r \in Tasks /\ r \notin Starters
                         /\ r \notin Stoppers /\ r \notin Reloaders
  /\ \A t \in Callers : t \in Tasks /\ t \notin Stoppers /\ t \notin Reloaders
  /\ \A t \in Stoppers \cup Reloaders : t \in Tasks /\ t \notin Callers
  BY ServiceAssumption DEF Worker, Callers, Tasks, ServiceAssumption

(* What a step that leaves the workers alone may do to the tasks.          *)
Onward ==
  /\ \A t \in Callers : pc'[t] \in Before => pc[t] \in Before
  /\ \A r \in Requests : fut'[r] = "pending" => pc'[r] = "waiting"

LEMMA OnwardKeeps ==
  ASSUME HInv, UNCHANGED <<wstate, hand>>, Onward
  PROVE  Busy' /\ Unborn' /\ Awaited'
  BY Members DEF HInv, Busy, Unborn, Awaited, Onward

(* A move of one task.                                                     *)
LEMMA GotoOnward ==
  ASSUME HInv, NEW t \in Tasks, NEW p, Goto(t, p), p \in Before => pc[t] \in Before,
         t \in Requests => fut[t] # "pending"
  PROVE  Onward /\ UNCHANGED hand
<1>1. pc \in [Tasks -> Steps]
  BY DEF HInv, IInv, TypeOK
<1>2. \A u \in Tasks : pc'[u] = IF u = t THEN p ELSE pc[u]
  BY <1>1 DEF Goto
<1>3. fut' = fut /\ hand' = hand
  BY DEF Goto
<1> QED
  BY <1>2, <1>3, Members DEF Onward, HInv, Awaited

LEMMA EnqueueOnward ==
  ASSUME HInv, NEW r \in Requests, NEW q \in Queue, Enqueue(r, q)
  PROVE  Onward /\ UNCHANGED hand
<1>1. pc \in [Tasks -> Steps] /\ fut \in [Requests -> Futures]
  BY DEF HInv, IInv, TypeOK
<1>2. /\ \A u \in Tasks : pc'[u] = IF u = r THEN "waiting" ELSE pc[u]
      /\ \A x \in Requests : fut'[x] = IF x = r THEN "pending" ELSE fut[x]
  BY <1>1 DEF Enqueue
<1>3. hand' = hand
  BY DEF Enqueue
<1> QED
  BY <1>2, <1>3, Members DEF Onward, HInv, Awaited, Before

(* A put that may have to wait, of a caller that has not put yet.          *)
LEMMA PutOnward ==
  ASSUME HInv, NEW r \in Requests, Put(r), pc[r] \in Early
  PROVE  Onward /\ UNCHANGED hand
<1>1. pc \in [Tasks -> Steps] /\ cur \in Queue
  BY DEF HInv, IInv, TypeOK
<1>2. CASE Enqueue(r, cur)
  BY <1>1, <1>2, EnqueueOnward
<1>3. CASE /\ pc' = [pc EXCEPT ![r] = "putting"]
           /\ UNCHANGED <<wat, hand, fut, calls>>
  <2>1. \A u \in Tasks : pc'[u] = IF u = r THEN "putting" ELSE pc[u]
    BY <1>1, <1>3
  <2>2. fut[r] = "none"
    BY DEF HInv, IInv, Counted
  <2> QED
    BY <1>3, <2>1, <2>2, Members DEF Onward, HInv, Awaited, Before
<1> QED
  BY <1>2, <1>3 DEF Put

LEMMA AcquiredOnward ==
  ASSUME HInv, NEW t \in Callers, Acquired(t), pc[t] \in Before
  PROVE  Onward /\ UNCHANGED hand
<1>1. t \in Tasks /\ (t \in Requests => fut[t] # "pending")
  BY Members DEF HInv, IInv, Counted, Early, Before
<1>2. CASE t \in Requests /\ Put(t)
  BY <1>2, PutOnward DEF Early, Before
<1>3. CASE Goto(t, "done") \/ Goto(t, "reloading")
  BY <1>1, <1>3, GotoOnward DEF Before
<1> QED
  BY <1>2, <1>3 DEF Acquired, Proceed

LEMMA CallerKeeps ==
  ASSUME HInv, NEW t \in Callers, CallerNext(t)
  PROVE  Busy' /\ Unborn' /\ Awaited'
<1>1. t \in Tasks /\ pc[t] \in Before /\ (t \in Requests => fut[t] # "pending")
  <2>1. pc[t] \in Before
    BY DEF CallerNext, Call, LockAcquired, ReloadDone, ReloadFails, Before
  <2> QED
    BY <2>1, Members DEF HInv, IInv, Counted, Early, Before
<1>2. CASE Call(t)
  <2>1. Onward /\ UNCHANGED hand
    <3>1. CASE t \in Requests /\ Put(t)
      BY <1>1, <3>1, PutOnward DEF Early, Before
    <3>2. CASE Goto(t, "locking")
      BY <1>1, <3>2, GotoOnward DEF Before
    <3>3. CASE Acquired(t)
      BY <1>1, <3>3, AcquiredOnward
    <3> QED
      BY <1>2, <3>1, <3>2, <3>3 DEF Call
  <2> QED
    BY <1>2, <2>1, OnwardKeeps DEF Call
<1>3. CASE LockAcquired(t)
  BY <1>1, <1>3, AcquiredOnward, OnwardKeeps DEF LockAcquired
<1>4. CASE ReloadFails(t)
  BY <1>1, <1>4, GotoOnward, OnwardKeeps DEF ReloadFails, Before
<1>5. CASE ReloadDone(t)
  <2>1. Onward /\ UNCHANGED hand /\ pc'[t] \notin Before
    <3>1. CASE t \in Requests /\ Put(t)
      <4>1. pc'[t] \in {"waiting", "putting"}
        BY <1>1, <3>1 DEF Put, Enqueue, HInv, IInv, TypeOK
      <4> QED
        BY <1>1, <3>1, <4>1, PutOnward DEF Early, Before
    <3>2. CASE Goto(t, "done")
      <4>1. pc'[t] = "done"
        BY <1>1, <3>2 DEF Goto, HInv, IInv, TypeOK
      <4> QED
        BY <1>1, <3>2, <4>1, GotoOnward DEF Before
    <3> QED
      BY <1>5, <3>1, <3>2 DEF ReloadDone, Proceed
  <2>2. \A w \in Worker : wstate'[w] = IF w[1] = t /\ w[2] <= config.concurrency
                                       THEN "spawned" ELSE wstate[w]
    BY <1>5 DEF ReloadDone
  <2>3. \A w \in Worker : w[1] = t => wstate[w] = "unborn"
    BY <1>1 DEF HInv, Unborn
  <2>4. Busy'
    BY <2>1, <2>2, <2>3 DEF HInv, Busy
  <2>5. Unborn'
    BY <2>1, <2>2, Members DEF HInv, Unborn, Onward
  <2>6. Awaited'
    BY <2>1 DEF Onward, Awaited
  <2> QED
    BY <2>4, <2>5, <2>6
<1> QED
  BY <1>2, <1>3, <1>4, <1>5 DEF CallerNext

LEMMA RequestKeeps ==
  ASSUME HInv, NEW r \in Requests, RequestNext(r)
  PROVE  Busy' /\ Unborn' /\ Awaited'
<1>1. r \in Tasks /\ pc \in [Tasks -> Steps] /\ fut \in [Requests -> Futures] /\ at[r] \in Queue
  BY Members DEF HInv, IInv, TypeOK
<1>2. CASE PutResumes(r)
  BY <1>1, <1>2, EnqueueOnward, OnwardKeeps DEF PutResumes
<1>3. CASE Return(r)
  BY <1>1, <1>3, GotoOnward, OnwardKeeps DEF Return, Before
<1>4. CASE Cancel(r)
  <2>1. /\ \A u \in Tasks : pc'[u] = IF u = r THEN "cancelled" ELSE pc[u]
        /\ \A x \in Requests : fut'[x] = IF x = r /\ fut[x] = "pending" THEN "cancelled" ELSE fut[x]
        /\ UNCHANGED <<wstate, hand>>
    BY <1>1, <1>4 DEF Cancel, workers
  <2>2. Onward
    BY <2>1, Members DEF Onward, HInv, Awaited, Before
  <2> QED
    BY <2>1, <2>2, OnwardKeeps
<1> QED
  BY <1>2, <1>3, <1>4 DEF RequestNext

LEMMA GetKeeps ==
  ASSUME HInv, NEW w \in Worker, NEW q \in Queue, NEW uf, Get(w, q, uf),
         pc[w[1]] \notin Before
  PROVE  Busy' /\ Unborn'
<1>1. wstate \in [Worker -> WStates] /\ hand \in [Worker -> Requests \cup {Sentinel}] /\ pc' = pc
  BY DEF HInv, IInv, TypeOK, Get
<1> DEFINE Becomes(s, h) == wstate' = [wstate EXCEPT ![w] = s] /\ hand' = [hand EXCEPT ![w] = h]
<1>2. \/ \E h \in Requests : Becomes("busy", h)
      \/ \E s \in {"getting", "crashed", "exited"} : Becomes(s, Sentinel)
  <2>1. CASE items[q] = <<>>
    BY <2>1 DEF Get
  <2>2. CASE items[q] # <<>>
    BY <2>2 DEF Get
  <2> QED
    BY <2>1, <2>2
<1>3. Sentinel \notin Requests
  BY ServiceAssumption DEF ServiceAssumption
<1> QED
  BY <1>1, <1>2, <1>3, Members DEF HInv, Busy, Unborn

LEMMA WorkerKeeps ==
  ASSUME HInv, NEW w \in Worker, WorkerNext(w)
  PROVE  Busy' /\ Unborn' /\ Awaited'
<1>1. /\ cur \in Queue /\ wat[w] \in Queue /\ fut \in [Requests -> Futures]
      /\ wstate \in [Worker -> WStates] /\ hand \in [Worker -> Requests \cup {Sentinel}]
  BY DEF HInv, IInv, TypeOK
<1>2. wstate[w] # "unborn" /\ pc' = pc
  BY DEF WorkerNext, WorkerStarts, WorkerWakes, WorkerFinishes, Get
<1>3. pc[w[1]] \notin Before
  BY <1>2 DEF HInv, Unborn
<1>4. CASE WorkerStarts(w)
  BY <1>1, <1>2, <1>3, <1>4, GetKeeps DEF WorkerStarts, HInv, Awaited
<1>5. CASE WorkerWakes(w)
  BY <1>1, <1>2, <1>3, <1>5, GetKeeps DEF WorkerWakes, HInv, Awaited
<1>6. ASSUME NEW o \in {"result", "error"}, WorkerFinishes(w, o)
      PROVE  Busy' /\ Unborn' /\ Awaited'
  <2>1. \A r \in Requests : fut'[r] = "pending" => fut[r] = "pending"
    BY <1>1, <1>6 DEF WorkerFinishes, Settle
  <2>2. Awaited'
    BY <1>2, <2>1 DEF HInv, Awaited
  <2>3. CASE wstate' = [wstate EXCEPT ![w] = "crashed"] /\ hand' = [hand EXCEPT ![w] = Sentinel]
    <3>1. Sentinel \notin Requests
      BY ServiceAssumption DEF ServiceAssumption
    <3> QED
      BY <1>1, <1>2, <1>3, <2>2, <2>3, <3>1, Members DEF HInv, Busy, Unborn
  <2>4. CASE Get(w, cur, [unfinished EXCEPT ![cur] = @ - 1])
    BY <1>1, <1>3, <2>2, <2>4, GetKeeps
  <2> QED
    BY <1>6, <2>3, <2>4 DEF WorkerFinishes
<1> QED
  BY <1>4, <1>5, <1>6 DEF WorkerNext

(* Neither stop nor apply_config moves a caller or a worker.               *)
LEMMA ControlAside ==
  ASSUME HInv, NEW c \in Stoppers \cup Reloaders,
         \/ c \in Stoppers /\ StopperNext(c)
         \/ c \in Reloaders /\ (ApplyCalled(c) \/ ApplyEnds(c))
  PROVE  /\ UNCHANGED <<wstate, hand, fut, calls>>
         /\ \A t \in Callers : pc'[t] = pc[t]
<1>1. pc \in [Tasks -> Steps] /\ c \in Tasks /\ c \notin Callers
  BY Members DEF HInv, IInv, TypeOK
<1>2. UNCHANGED <<wstate, hand, fut, calls>>
  BY DEF StopperNext, StopCalled, SentinelResumes, StopJoined, ApplyCalled, ApplyEnds,
         ApplyFails, ApplyIdle, ApplySwaps, ApplyDrops, Goto, workers, svc
<1>3. \E p : pc' = [pc EXCEPT ![c] = p]
  BY DEF StopperNext, StopCalled, SentinelResumes, StopJoined, PutSentinels, ApplyCalled, ApplyEnds,
         ApplyFails, ApplyIdle, ApplySwaps, ApplyDrops, Goto
<1> QED
  BY <1>1, <1>2, <1>3, Members

LEMMA StepHub == HInv /\ [Next]_vars => HInv'
<1> SUFFICES ASSUME HInv, [Next]_vars PROVE HInv'
  OBVIOUS
<1>0. IInv'
  BY StepPlaces DEF HInv
<1>1. CASE UNCHANGED vars
  <2>1. UNCHANGED <<wstate, hand, pc, fut>>
    BY <1>1 DEF vars, workers
  <2> QED
    BY <1>0, <2>1 DEF HInv, Busy, Unborn, Awaited
<1>2. ASSUME NEW c \in Stoppers \cup Reloaders,
             \/ c \in Stoppers /\ StopperNext(c)
             \/ c \in Reloaders /\ (ApplyCalled(c) \/ ApplyEnds(c))
      PROVE  Busy' /\ Unborn' /\ Awaited'
  BY <1>2, ControlAside, Members DEF HInv, Busy, Unborn, Awaited
<1>3. CASE Next
  BY <1>0, <1>2, <1>3, CallerKeeps, RequestKeeps, WorkerKeeps DEF Next, HInv
<1> QED
  BY <1>1, <1>3

-----------------------------------------------------------------------------
(* Every step is a step of the contract.                                   *)

(* The mapping sees of a request its future, its calls, who holds it, and  *)
(* whether its task ended without its future being done.                   *)
Held(r) == \E w \in Worker : hand[w] = r

Alike(r) ==
  /\ fut'[r] = fut[r] /\ calls'[r] = calls[r] /\ (Held(r)' <=> Held(r))
  /\ fut[r] \in {"none", "pending"} =>
       \A p \in {"raised", "cancelled"} : pc'[r] = p <=> pc[r] = p

LEMMA AlikeMaps ==
  ASSUME NEW r \in Requests, Alike(r)
  PROVE  Phase'[r] = Phase[r] /\ Reply'[r] = Reply[r]
  BY DEF Alike, Held, Phase, Reply

LEMMA Stutters ==
  ASSUME \A r \in Requests : Alike(r)
  PROVE  UNCHANGED Contract!vars
<1>1. \A r \in Requests : Phase'[r] = Phase[r] /\ Reply'[r] = Reply[r]
  BY AlikeMaps
<1>2. Phase' = Phase /\ Reply' = Reply
  BY <1>1 DEF Phase, Reply
<1> QED
  BY <1>2 DEF Contract!vars

(* A step after which all but request r is mapped as before.               *)
LEMMA Changes ==
  ASSUME NEW r \in Requests, \A x \in Requests : x # r => Alike(x)
  PROVE  /\ Phase' = [Phase EXCEPT ![r] = Phase'[r]]
         /\ Reply' = [Reply EXCEPT ![r] = Reply'[r]]
         /\ Phase'[r] = Phase[r] => Phase' = Phase
         /\ Reply'[r] = Reply[r] => Reply' = Reply
<1>1. \A x \in Requests : x # r => Phase'[x] = Phase[x] /\ Reply'[x] = Reply[x]
  BY AlikeMaps
<1>2. /\ Phase = [x \in Requests |-> Phase[x]] /\ Phase' = [x \in Requests |-> Phase'[x]]
      /\ Reply = [x \in Requests |-> Reply[x]] /\ Reply' = [x \in Requests |-> Reply'[x]]
  BY DEF Phase, Reply
<1> QED
  BY <1>1, <1>2

(* What the invariant says of the mapping.                                 *)
LEMMA Mapped ==
  ASSUME HInv, NEW r \in Requests
  PROVE  /\ fut[r] = "none" => Phase[r] = "new" /\ ~Held(r) /\ calls[r] = 0
         /\ fut[r] = "none" /\ pc[r] \notin {"raised", "cancelled"} => Reply[r] = "none"
         /\ fut[r] = "pending" => Reply[r] = "none"
         /\ fut[r] \notin {"none", "pending"} => Reply[r] = fut[r]
         /\ Held(r) => Phase[r] = "called" /\ calls[r] = 1 /\ fut[r] # "none"
         /\ InQueue(items, r) => Phase[r] = "accepted" /\ calls[r] = 0 /\ ~Held(r)
<1>1. Held(r) => calls[r] = 1
  BY DEF HInv, IInv, Handed, Held
<1>2. fut[r] = "none" => calls[r] = 0
  BY DEF HInv, IInv, Counted
<1>3. InQueue(items, r) => calls[r] = 0 /\ fut[r] # "none"
  BY DEF HInv, IInv, Placed
<1>4. fut[r] = "pending" => pc[r] = "waiting"
  BY DEF HInv, Awaited
<1> QED
  BY <1>1, <1>2, <1>3, <1>4 DEF Phase, Reply, Held

LEMMA GotoContract ==
  ASSUME HInv, NEW t \in Tasks, NEW p, Goto(t, p), pc[t] \notin {"raised", "cancelled"},
         t \in Requests /\ fut[t] \in {"none", "pending"} => p \notin {"raised", "cancelled"}
  PROVE  UNCHANGED Contract!vars
<1>1. \A u \in Tasks : pc'[u] = IF u = t THEN p ELSE pc[u]
  BY DEF Goto, HInv, IInv, TypeOK
<1>2. UNCHANGED <<hand, fut, calls>>
  BY DEF Goto
<1>3. \A r \in Requests : Alike(r)
  BY <1>1, <1>2, Members DEF Alike, Held
<1> QED
  BY <1>3, Stutters

LEMMA EnqueueContract ==
  ASSUME HInv, NEW r \in Requests, NEW q \in Queue, Enqueue(r, q), pc[r] \in Early
  PROVE  Contract!Accept(r)
<1>1. /\ \A u \in Tasks : pc'[u] = IF u = r THEN "waiting" ELSE pc[u]
      /\ \A x \in Requests : fut'[x] = IF x = r THEN "pending" ELSE fut[x]
      /\ UNCHANGED <<hand, calls>>
  BY DEF Enqueue, HInv, IInv, TypeOK
<1>2. fut[r] = "none"
  BY DEF HInv, IInv, Counted
<1>3. Phase[r] = "new" /\ Reply[r] = "none" /\ calls[r] = 0
  BY <1>2, Mapped DEF Early
<1>4. Phase'[r] = "accepted" /\ Reply'[r] = "none"
  BY <1>1, <1>3, Members DEF Phase, Reply
<1>5. \A x \in Requests : x # r => Alike(x)
  BY <1>1, Members DEF Alike, Held
<1>6. Phase' = [Phase EXCEPT ![r] = "accepted"] /\ Reply' = Reply
  BY <1>3, <1>4, <1>5, Changes
<1> QED
  BY <1>3, <1>6 DEF Contract!Accept

LEMMA PutContract ==
  ASSUME HInv, NEW r \in Requests, Put(r), pc[r] \in Early
  PROVE  Contract!Accept(r) \/ UNCHANGED Contract!vars
<1>1. cur \in Queue /\ pc \in [Tasks -> Steps]
  BY DEF HInv, IInv, TypeOK
<1>2. CASE Enqueue(r, cur)
  BY <1>1, <1>2, EnqueueContract
<1>3. CASE /\ pc' = [pc EXCEPT ![r] = "putting"]
           /\ UNCHANGED <<hand, fut, calls>>
  <2>1. \A x \in Requests : Alike(x)
    BY <1>1, <1>3, Members DEF Alike, Held, Early
  <2> QED
    BY <2>1, Stutters
<1> QED
  BY <1>2, <1>3 DEF Put

LEMMA AcquiredContract ==
  ASSUME HInv, NEW t \in Callers, Acquired(t), pc[t] \in Before
  PROVE  Contract!Next \/ UNCHANGED Contract!vars
<1>1. CASE t \in Requests /\ Put(t)
  BY <1>1, PutContract DEF Contract!Next, Early, Before
<1>2. CASE Goto(t, "done") \/ Goto(t, "reloading")
  BY <1>2, GotoContract, Members DEF Before
<1> QED
  BY <1>1, <1>2 DEF Acquired, Proceed

LEMMA CallerContract ==
  ASSUME HInv, NEW t \in Callers, CallerNext(t)
  PROVE  Contract!Next \/ UNCHANGED Contract!vars
<1>1. t \in Tasks /\ pc[t] \in Before
  BY Members DEF CallerNext, Call, LockAcquired, ReloadDone, ReloadFails, Before
<1>2. CASE t \in Requests /\ Put(t)
  BY <1>1, <1>2, PutContract DEF Contract!Next, Early, Before
<1>3. CASE Goto(t, "done") \/ Goto(t, "locking")
  BY <1>1, <1>3, GotoContract DEF Before
<1>4. CASE Acquired(t)
  BY <1>1, <1>4, AcquiredContract
<1>5. CASE ReloadFails(t)
  <2>1. CASE t \notin Requests
    BY <1>1, <1>5, <2>1, GotoContract DEF ReloadFails, Before
  <2>2. CASE t \in Requests
    <3>1. /\ \A u \in Tasks : pc'[u] = IF u = t THEN "raised" ELSE pc[u]
          /\ UNCHANGED <<hand, fut, calls>>
      BY <1>1, <1>5 DEF ReloadFails, Goto, HInv, IInv, TypeOK
    <3>2. fut[t] = "none"
      BY <1>1, <2>2 DEF HInv, IInv, Counted, Early, Before
    <3>3. Phase[t] = "new" /\ Reply[t] = "none"
      BY <1>1, <2>2, <3>2, Mapped DEF Before
    <3>4. Phase'[t] = "new" /\ Reply'[t] = "error"
      BY <1>1, <2>2, <3>1, <3>2 DEF Phase, Reply
    <3>5. \A x \in Requests : x # t => Alike(x)
      BY <3>1, Members DEF Alike, Held
    <3>6. Reply' = [Reply EXCEPT ![t] = "error"] /\ Phase' = Phase
      BY <2>2, <3>3, <3>4, <3>5, Changes
    <3> QED
      BY <2>2, <3>3, <3>6 DEF Contract!Next, Contract!Refuse
  <2> QED
    BY <2>1, <2>2
<1> QED
  BY <1>2, <1>3, <1>4, <1>5 DEF CallerNext, Call, LockAcquired, ReloadDone, Proceed

LEMMA RequestContract ==
  ASSUME HInv, NEW r \in Requests, RequestNext(r)
  PROVE  Contract!Next \/ UNCHANGED Contract!vars
<1>1. /\ r \in Tasks /\ at[r] \in Queue
      /\ pc \in [Tasks -> Steps] /\ fut \in [Requests -> Futures]
  BY Members DEF HInv, IInv, TypeOK
<1>2. CASE PutResumes(r)
  BY <1>1, <1>2, EnqueueContract DEF PutResumes, Early, Contract!Next
<1>3. CASE Return(r)
  BY <1>1, <1>3, GotoContract DEF Return
<1>4. CASE Cancel(r)
  <2>1. /\ \A u \in Tasks : pc'[u] = IF u = r THEN "cancelled" ELSE pc[u]
        /\ \A x \in Requests :
             fut'[x] = IF x = r /\ fut[x] = "pending" THEN "cancelled" ELSE fut[x]
        /\ UNCHANGED <<hand, calls>> /\ pc[r] \notin {"raised", "cancelled"}
    BY <1>1, <1>4 DEF Cancel, workers
  <2>2. \A x \in Requests : x # r => Alike(x)
    BY <2>1, Members DEF Alike, Held
  <2>3. CASE fut[r] \notin {"none", "pending"}
    <3>1. Alike(r)
      BY <2>1, <2>3 DEF Alike, Held
    <3> QED
      BY <2>2, <3>1, Stutters
  <2>4. CASE fut[r] \in {"none", "pending"}
    <3>1. Reply[r] = "none"
      BY <2>1, <2>4, Mapped
    <3>2. Reply'[r] = "cancelled" /\ Phase'[r] = Phase[r]
      BY <1>1, <2>1, <2>4 DEF Reply, Phase
    <3>3. Reply' = [Reply EXCEPT ![r] = "cancelled"] /\ Phase' = Phase
      BY <2>2, <3>2, Changes
    <3> QED
      BY <3>1, <3>3 DEF Contract!Next, Contract!Cancel
  <2> QED
    BY <2>3, <2>4
<1> QED
  BY <1>2, <1>3, <1>4 DEF RequestNext

(* What a get leaves in the hand of worker w: nothing, or a queued request.*)
Emptied(w) == UNCHANGED <<pc, calls>> /\ hand' = [hand EXCEPT ![w] = Sentinel]
Takes(w, n) ==
  /\ InQueue(items, n) /\ UNCHANGED pc
  /\ hand' = [hand EXCEPT ![w] = n] /\ calls' = [calls EXCEPT ![n] = @ + 1]

LEMMA GetTakes ==
  ASSUME HInv, NEW w \in Worker, NEW q \in Queue, NEW uf, Get(w, q, uf)
  PROVE  Emptied(w) \/ \E n \in Requests : Takes(w, n)
<1>1. CASE items[q] = <<>>
  BY <1>1 DEF Get, Emptied
<1>2. CASE items[q] # <<>>
  <2>1. items[q] \in Seq(Requests \cup {Sentinel})
    BY DEF HInv, IInv, TypeOK
  <2>2. 1 \in 1..Len(items[q]) /\ Head(items[q]) = items[q][1]
    BY <1>2, <2>1
  <2>3. InQueue(items, Head(items[q]))
    BY <2>2 DEF InQueue
  <2> QED
    BY <1>2, <2>3 DEF Get, Emptied, Takes
<1> QED
  BY <1>1, <1>2

LEMMA TakesHeld ==
  ASSUME HInv, NEW w \in Worker, NEW n \in Requests, Takes(w, n)
  PROVE  /\ calls'[n] = 1 /\ Held(n)' /\ hand[w] # n /\ UNCHANGED pc
         /\ \A x \in Requests : x # n =>
              calls'[x] = calls[x] /\ (x # hand[w] => (Held(x)' <=> Held(x)))
<1>1. calls[n] = 0 /\ ~Held(n)
  BY Mapped DEF Takes
<1>2. hand \in [Worker -> Requests \cup {Sentinel}] /\ calls \in [Requests -> Nat]
  BY DEF HInv, IInv, TypeOK
<1>3. /\ \A v \in Worker : hand'[v] = IF v = w THEN n ELSE hand[v]
      /\ \A x \in Requests : calls'[x] = IF x = n THEN 1 ELSE calls[x]
  BY <1>1, <1>2 DEF Takes
<1> QED
  BY <1>1, <1>3 DEF Held, Takes

LEMMA EmptiedHeld ==
  ASSUME HInv, NEW w \in Worker, Emptied(w)
  PROVE  \A x \in Requests : x # hand[w] => (Held(x)' <=> Held(x))
<1>1. \A v \in Worker : hand'[v] = IF v = w THEN Sentinel ELSE hand[v]
  BY DEF Emptied, HInv, IInv, TypeOK
<1> QED
  BY <1>1, ServiceAssumption DEF Held, ServiceAssumption

(* A worker that had nothing in hand.                                      *)
LEMMA IdleGetContract ==
  ASSUME HInv, NEW w \in Worker, NEW q \in Queue, NEW uf, Get(w, q, uf),
         UNCHANGED fut, wstate[w] # "busy"
  PROVE  Contract!Next \/ UNCHANGED Contract!vars
<1>1. hand[w] \notin Requests
  BY DEF HInv, Busy
<1>2. CASE Emptied(w)
  <2>1. \A x \in Requests : Alike(x)
    BY <1>1, <1>2, EmptiedHeld DEF Alike, Emptied
  <2> QED
    BY <2>1, Stutters
<1>3. ASSUME NEW n \in Requests, Takes(w, n)
      PROVE  Contract!Dispatch(n)
  <2>1. \A x \in Requests : x # n => Alike(x)
    BY <1>1, <1>3, TakesHeld DEF Alike
  <2>2. Phase[n] = "accepted" /\ fut[n] # "none"
    BY <1>3, Mapped DEF Takes
  <2>3. Phase'[n] = "called" /\ Reply'[n] = Reply[n]
    BY <1>3, <2>2, TakesHeld DEF Phase, Reply, Held
  <2>4. Phase' = [Phase EXCEPT ![n] = "called"] /\ Reply' = Reply
    BY <2>1, <2>3, Changes
  <2> QED
    BY <2>2, <2>4 DEF Contract!Dispatch
<1> QED
  BY <1>2, <1>3, GetTakes DEF Contract!Next

(* The answer of a worker, with what it takes up next.                     *)
LEMMA FinishContract ==
  ASSUME HInv, NEW w \in Worker, NEW o \in {"result", "error"}, WorkerFinishes(w, o)
  PROVE  Contract!Next
<1> DEFINE r == hand[w]
           said == IF Reply[r] = "none" THEN o ELSE Reply[r]
<1>1. r \in Requests /\ Held(r)
  BY DEF WorkerFinishes, HInv, Busy, Held
<1> HIDE DEF r
<1>2. Phase[r] = "called" /\ calls[r] = 1 /\ fut[r] # "none"
  BY <1>1, Mapped
<1>3. /\ fut'[r] = IF fut[r] = "pending" THEN o ELSE fut[r]
      /\ \A x \in Requests : x # r => fut'[x] = fut[x]
  <2>1. fut \in [Requests -> Futures] /\ Settle(r, o)
    BY DEF HInv, IInv, TypeOK, WorkerFinishes, r
  <2> QED
    BY <1>1, <2>1 DEF Settle
<1>4. fut[r] = "pending" => Reply[r] = "none"
  BY <1>1, Mapped
<1>5. fut[r] # "pending" => Reply[r] = fut[r] /\ fut[r] # "none"
  BY <1>1, <1>2, Mapped
<1>6. Reply'[r] = said
  BY <1>1, <1>3, <1>4, <1>5 DEF Reply
<1>7. \A v \in Worker : v # w => hand[v] # r
  BY <1>1 DEF HInv, IInv, Handed, r
<1>8. CASE Emptied(w)
  <2>1. \A v \in Worker : hand'[v] # r
    BY <1>1, <1>7, <1>8, ServiceAssumption DEF Emptied, ServiceAssumption, HInv, IInv, TypeOK
  <2>2. Phase'[r] = "finished"
    BY <1>1, <1>2, <1>3, <1>8, <2>1 DEF Phase, Emptied
  <2>3. \A x \in Requests : x # r => Alike(x)
    BY <1>3, <1>8, EmptiedHeld DEF Alike, Emptied, r
  <2>4. Phase' = [Phase EXCEPT ![r] = "finished"] /\ Reply' = [Reply EXCEPT ![r] = said]
    BY <1>1, <1>6, <2>2, <2>3, Changes
  <2>5. Contract!Answer(r, o)
    BY <1>2, <2>4 DEF Contract!Answer
  <2> QED
    BY <1>1, <2>5 DEF Contract!Next
<1>9. ASSUME NEW n \in Requests, Takes(w, n)
      PROVE  Contract!Next
  <2>1. n # r /\ Phase[n] = "accepted" /\ fut[n] # "none"
    BY <1>2, <1>9, Mapped DEF Takes
  <2>2. \A v \in Worker : hand'[v] # r
    BY <1>1, <1>7, <1>9, <2>1 DEF Takes, HInv, IInv, TypeOK
  <2>3. Phase'[r] = "finished"
    BY <1>1, <1>2, <1>3, <1>9, <2>1, <2>2, TakesHeld DEF Phase
  <2>4. Phase'[n] = "called" /\ Reply'[n] = Reply[n]
    BY <1>3, <1>9, <2>1, TakesHeld DEF Phase, Reply, Held
  <2>5. \A x \in Requests : x # r /\ x # n => Phase'[x] = Phase[x] /\ Reply'[x] = Reply[x]
    <3>1. \A x \in Requests : x # r /\ x # n => Alike(x)
      BY <1>3, <1>9, TakesHeld DEF Alike, r
    <3> QED
      BY <3>1, AlikeMaps
  <2>6. /\ Phase = [x \in Requests |-> Phase[x]] /\ Phase' = [x \in Requests |-> Phase'[x]]
        /\ Reply = [x \in Requests |-> Reply[x]] /\ Reply' = [x \in Requests |-> Reply'[x]]
    BY DEF Phase, Reply
  <2>7. /\ Phase' = [Phase EXCEPT ![r] = "finished", ![n] = "called"]
        /\ Reply' = [Reply EXCEPT ![r] = said]
    BY <1>1, <1>6, <2>1, <2>3, <2>4, <2>5, <2>6
  <2>8. Contract!AnswerThenDispatch(r, o, n)
    BY <1>2, <2>1, <2>7 DEF Contract!AnswerThenDispatch
  <2> QED
    BY <1>1, <2>8 DEF Contract!Next
<1>10. CASE Get(w, cur, [unfinished EXCEPT ![cur] = @ - 1])
  <2>1. cur \in Queue
    BY DEF HInv, IInv, TypeOK
  <2> QED
    BY <1>8, <1>9, <1>10, <2>1, GetTakes
<1> QED
  BY <1>8, <1>10 DEF WorkerFinishes, Emptied

LEMMA StepContract == HInv /\ [Next]_vars => [Contract!Next]_(Contract!vars)
<1> SUFFICES ASSUME HInv, [Next]_vars PROVE Contract!Next \/ UNCHANGED Contract!vars
  OBVIOUS
<1>1. CASE UNCHANGED vars
  <2>1. UNCHANGED <<hand, fut, calls, pc>>
    BY <1>1 DEF vars, workers
  <2>2. \A r \in Requests : Alike(r)
    BY <2>1 DEF Alike, Held
  <2> QED
    BY <2>2, Stutters
<1>2. ASSUME NEW w \in Worker, WorkerNext(w)
      PROVE  Contract!Next \/ UNCHANGED Contract!vars
  <2>1. cur \in Queue /\ wat[w] \in Queue
    BY DEF HInv, IInv, TypeOK
  <2>2. CASE WorkerStarts(w)
    BY <2>1, <2>2, IdleGetContract DEF WorkerStarts
  <2>3. CASE WorkerWakes(w)
    BY <2>1, <2>3, IdleGetContract DEF WorkerWakes
  <2> QED
    BY <1>2, <2>2, <2>3, FinishContract DEF WorkerNext
<1>3. ASSUME NEW c \in Stoppers \cup Reloaders,
             \/ c \in Stoppers /\ StopperNext(c)
             \/ c \in Reloaders /\ (ApplyCalled(c) \/ ApplyEnds(c))
      PROVE  UNCHANGED Contract!vars
  <2>1. \A r \in Requests : Alike(r)
    BY <1>3, ControlAside, Members DEF Alike, Held
  <2> QED
    BY <2>1, Stutters
<1>4. CASE Next
  BY <1>2, <1>3, <1>4, CallerContract, RequestContract DEF Next
<1> QED
  BY <1>1, <1>4

LEMMA InitContract == Init => Contract!Init
<1> SUFFICES ASSUME Init PROVE Contract!Init
  OBVIOUS
<1>1. \A r \in Requests : fut[r] = "none" /\ pc[r] = "idle"
  BY Members DEF Init
<1>2. \A r \in Requests : Phase[r] = "new" /\ Reply[r] = "none"
  BY <1>1 DEF Phase, Reply
<1> QED
  BY <1>2 DEF Contract!Init, Phase, Reply

(* Whatever is called in whatever order, the service does what its         *)
(* contract allows: it hands an accepted request to its adapter at most    *)
(* once, a reply is final and is the adapter's outcome unless the caller   *)
(* gave up first, and what was not accepted is not dispatched              *)
(* (service.py:56-63, 88-103).                                             *)
THEOREM ServiceKeepsContract == SafeSpec => ContractSafety
<1>1. SafeSpec => []HInv
  BY InitHub, StepHub, PTL DEF SafeSpec
<1>2. SafeSpec => [][Contract!Next]_(Contract!vars)
  BY <1>1, StepContract, PTL DEF SafeSpec
<1> QED
  BY <1>2, InitContract, PTL DEF SafeSpec, ContractSafety, Contract!SafeSpec

-----------------------------------------------------------------------------
(* A careful program.  What it keeps true besides: whoever stops or        *)
(* reconfigures the service is alone with it; one start at a time holds    *)
(* the lock; who waits for room waits for the queue of the moment.         *)

Stops == {"sentinel", "joining"}   \* steps of a stop under way

Alone ==
  \A c \in Stoppers \cup Reloaders :
    pc[c] \notin Ended \cup {"idle"} => ~running /\ Quiet(Tasks \ {c})

Locked ==
  /\ \A t \in Callers : pc[t] = "reloading" => ~running
  /\ \A t, u \in Callers : pc[t] = "reloading" /\ pc[u] = "reloading" => t = u

Served ==
  \A r \in Requests : /\ pc[r] \in {"putting", "waiting"} => running
                      /\ pc[r] = "putting" => at[r] = cur

Unused == \A a \in Reloaders : pc[a] # "done" => unfinished[a] = 0

(* The workers of the list, how many requests are at the front of the      *)
(* queue with only None behind them, and how many workers have ended.      *)
Pool     == {wlist[n] : n \in 1..Len(wlist)}
BusyOnes == {w \in Worker : wstate[w] = "busy"}
Exits    == {n \in 1..Len(wlist) : wstate[wlist[n]] = "exited"}
Front(n) ==
  n \in 0..Len(items[cur]) /\ \A i \in 1..Len(items[cur]) : items[cur][i] \in Requests <=> i <= n

Crew ==
  /\ \A m, n \in 1..Len(wlist) : wlist[m] = wlist[n] => m = n
  /\ \A w \in Worker :
       /\ w \in Pool => wstate[w] \in {"spawned", "getting", "busy", "exited"}
       /\ w \notin Pool => wstate[w] \in {"unborn", "exited"}
       /\ wstate[w] = "getting" => wat[w] = cur

Books == IsFiniteSet(BusyOnes) /\ unfinished[cur] = Len(items[cur]) + Cardinality(BusyOnes)

(* While it runs, while it rests, and while stop s winds it down: the None *)
(* put so far are in the queue or have ended a worker, and when the first  *)
(* of them has, no request is left.                                        *)
InService == running => wlist # <<>> /\ Exits = {} /\ Front(Len(items[cur]))
AtRest    == ~running /\ (\A s \in Stoppers : pc[s] \notin Stops) => wlist = <<>> /\ items[cur] = <<>>
Told(k)   == \E n \in Nat : /\ Front(n)
                            /\ Len(items[cur]) - n + Cardinality(Exits) = k
                            /\ Exits # {} => n = 0
Winding ==
  \A s \in Stoppers : pc[s] \in Stops =>
    /\ wlist # <<>> /\ at[s] = cur /\ Told(sent[s])
    /\ pc[s] = "sentinel" => sent[s] < Len(wlist)
    /\ pc[s] = "joining" => sent[s] = Len(wlist) /\ gathered[s] = Pool

PoolInv == Crew /\ Books /\ InService /\ AtRest /\ Winding
TaskInv == Alone /\ Locked /\ Served /\ Unused
CInv    == HInv /\ PoolInv /\ TaskInv

LEMMA CarefulTypes ==
  ASSUME HInv
  PROVE  /\ pc \in [Tasks -> Steps] /\ running \in BOOLEAN /\ cur \in Queue
         /\ items \in [Queue -> Seq(Requests \cup {Sentinel})] /\ unfinished \in [Queue -> Nat]
         /\ maxsize \in [Queue -> Nat]
         /\ at \in [Tasks -> Queue] /\ sent \in [Stoppers -> Nat] /\ wlist \in Seq(Worker)
         /\ gathered \in [Stoppers -> SUBSET Worker]
         /\ wstate \in [Worker -> WStates] /\ wat \in [Worker -> Queue]
         /\ Sentinel \notin Requests
         /\ config.concurrency \in 1..MaxConcurrency /\ MaxConcurrency \in Nat
  BY ServiceAssumption DEF HInv, IInv, TypeOK, ServiceAssumption, Config

LEMMA ExitsFinite ==
  ASSUME HInv
  PROVE  /\ IsFiniteSet(Exits) /\ Cardinality(Exits) \in Nat
         /\ IsFiniteSet(1..Len(wlist)) /\ Cardinality(1..Len(wlist)) = Len(wlist)
<1>1. Len(wlist) \in Nat
  <2>1. wlist \in Seq(Worker)
    BY CarefulTypes
  <2> QED
    BY <2>1
<1>2. IsFiniteSet(1..Len(wlist)) /\ Cardinality(1..Len(wlist)) = Len(wlist)
  <2>1. 1 \in Int /\ Len(wlist) \in Int
    BY <1>1
  <2>2. /\ IsFiniteSet(1..Len(wlist))
        /\ Cardinality(1..Len(wlist)) = IF 1 > Len(wlist) THEN 0 ELSE Len(wlist) - 1 + 1
    BY <2>1, FS_Interval, Zenon
  <2> QED
    BY <1>1, <2>2
<1>3. Exits \subseteq 1..Len(wlist)
  BY DEF Exits
<1> QED
  BY <1>2, <1>3, FS_Subset, FS_CardinalityType

LEMMA InitCareful == Init => CInv
<1> SUFFICES ASSUME Init PROVE CInv
  OBVIOUS
<1>1. HInv
  BY InitHub
<1>2. /\ \A t \in Tasks : pc[t] = "idle"
      /\ \A w \in Worker : wstate[w] = "unborn"
      /\ wlist = <<>> /\ running = FALSE /\ cur = FirstQueue /\ cur \in Queue
      /\ \A q \in Queue : items[q] = <<>> /\ unfinished[q] = 0
  BY DEF Init, Queue
<1>3. BusyOnes = {} /\ IsFiniteSet({}) /\ Cardinality({}) = 0 /\ Pool = {}
  BY <1>2, FS_EmptySet DEF BusyOnes, Pool
<1>4. TaskInv
  BY <1>2, Members DEF TaskInv, Alone, Locked, Served, Unused, Ended, Queue
<1>5. PoolInv
  BY <1>2, <1>3, Members DEF PoolInv, Crew, Books, InService, AtRest, Winding, Stops
<1> QED
  BY <1>1, <1>4, <1>5 DEF CInv

-----------------------------------------------------------------------------
(* Callers.                                                                *)

(* What a caller's step may do to the queue of the moment: nothing, or add *)
(* a request at its end.                                                   *)
Feeds ==
  /\ UNCHANGED <<cur, wat, sent, gathered>>
  /\ \A q \in Queue : q # cur => unfinished'[q] = unfinished[q]
  /\ \/ items'[cur] = items[cur] /\ unfinished'[cur] = unfinished[cur]
     \/ /\ running'
        /\ unfinished'[cur] = unfinished[cur] + 1
        /\ \E r \in Requests : items'[cur] = Append(items[cur], r)

(* Task t goes to step p.                                                  *)
Advances(t, p) ==
  /\ pc' = [pc EXCEPT ![t] = p] /\ Feeds
  /\ \A r \in Requests : r # t => at'[r] = at[r]
  /\ p = "putting" => at'[t] = cur

LEMMA GotoAdvances ==
  ASSUME NEW t, NEW p, Goto(t, p), p # "putting"
  PROVE  Advances(t, p)
  BY DEF Goto, Advances, Feeds, queues, stops

LEMMA EnqueueAdvances ==
  ASSUME HInv, NEW r \in Requests, Enqueue(r, cur), running'
  PROVE  Advances(r, "waiting")
<1>1. /\ items'[cur] = Append(items[cur], r) /\ unfinished'[cur] = unfinished[cur] + 1
      /\ \A q \in Queue : q # cur => unfinished'[q] = unfinished[q]
  BY CarefulTypes DEF Enqueue
<1> QED
  BY <1>1 DEF Enqueue, Advances, Feeds, stops

LEMMA PutAdvances ==
  ASSUME HInv, NEW r \in Requests, Put(r), running'
  PROVE  \E p \in {"waiting", "putting"} : Advances(r, p)
<1>1. CASE Enqueue(r, cur)
  BY <1>1, EnqueueAdvances
<1>2. CASE /\ pc' = [pc EXCEPT ![r] = "putting"] /\ at' = [at EXCEPT ![r] = cur]
           /\ UNCHANGED <<cur, queues, stops, wat, hand, fut, calls>>
  <2>1. at'[r] = cur /\ \A x \in Requests : x # r => at'[x] = at[x]
    BY <1>2, CarefulTypes, Members
  <2>2. Advances(r, "putting")
    BY <1>2, <2>1 DEF Advances, Feeds, queues, stops
  <2> QED
    BY <2>2
<1> QED
  BY <1>1, <1>2 DEF Put

LEMMA ProceedAdvances ==
  ASSUME HInv, NEW t \in Callers, Proceed(t), running'
  PROVE  \E p \in {"waiting", "putting", "done"} : Advances(t, p)
<1>1. CASE t \in Requests /\ Put(t)
  BY <1>1, PutAdvances
<1>2. CASE Goto(t, "done")
  BY <1>2, GotoAdvances
<1> QED
  BY <1>1, <1>2 DEF Proceed

(* While a caller is under way nobody stops or reconfigures.               *)
LEMMA ControlQuiet ==
  ASSUME CInv, NEW t \in Callers, pc[t] \notin Ended \cup {"idle"}
  PROVE  Quiet(Stoppers \cup Reloaders)
<1> SUFFICES ASSUME NEW c \in Stoppers \cup Reloaders, pc[c] \notin Ended \cup {"idle"} PROVE FALSE
  BY DEF Quiet
<1>1. Quiet(Tasks \ {c})
  BY DEF CInv, TaskInv, Alone
<1>2. t \in Tasks \ {c}
  BY Members
<1> QED
  BY <1>1, <1>2 DEF Quiet

LEMMA CallerTasks ==
  ASSUME CInv, NEW t \in Callers, NEW p, Advances(t, p), Quiet(Stoppers \cup Reloaders),
         p = "reloading" => ~running' /\ \A u \in Callers : pc[u] # "reloading",
         running' = running \/ (running' /\ pc[t] = "reloading" /\ p # "reloading"),
         p \in {"putting", "waiting"} => running'
  PROVE  /\ TaskInv' /\ Winding'
         /\ \A s \in Stoppers : pc[s] \notin Stops /\ pc'[s] \notin Stops
<1>1. /\ \A u \in Tasks : pc'[u] = IF u = t THEN p ELSE pc[u]
      /\ cur' = cur /\ running \in BOOLEAN
  BY CarefulTypes, Members DEF CInv, Advances, Feeds
<1>2. \A c \in Stoppers \cup Reloaders : pc'[c] = pc[c] /\ pc[c] \in Ended \cup {"idle"}
  BY <1>1, Members DEF Quiet
<1>3. Alone'
  BY <1>2 DEF Alone
<1>4. Locked'
  BY <1>1, Members DEF CInv, TaskInv, Locked
<1>5. Served'
  BY <1>1, Members DEF CInv, TaskInv, Served, Advances
<1>6. Unused'
  <2>1. \A a \in Reloaders : pc[a] # "done" => a \in Queue /\ a # cur
    BY DEF CInv, HInv, IInv, Fresh, Queue
  <2>2. \A a \in Reloaders : a \in Queue /\ a # cur => unfinished'[a] = unfinished[a]
    BY DEF Advances, Feeds
  <2> QED
    BY <1>2, <2>1, <2>2 DEF CInv, TaskInv, Unused
<1>7. \A s \in Stoppers : pc[s] \notin Stops /\ pc'[s] \notin Stops
  BY <1>2 DEF Stops, Ended
<1>8. Winding'
  BY <1>7 DEF Winding
<1> QED
  BY <1>3, <1>4, <1>5, <1>6, <1>7, <1>8 DEF TaskInv

(* A request at the end of a queue of requests.                            *)
LEMMA FedFront ==
  ASSUME HInv, Feeds
  PROVE  /\ \E e \in {0, 1} : /\ Len(items'[cur]) = Len(items[cur]) + e
                              /\ unfinished'[cur] = unfinished[cur] + e
         /\ Front(Len(items[cur])) => Front(Len(items[cur]))'
         /\ ~running' => items'[cur] = items[cur]
<1>1. items[cur] \in Seq(Requests \cup {Sentinel}) /\ cur' = cur /\ unfinished[cur] \in Nat
  BY CarefulTypes DEF Feeds
<1>2. CASE items'[cur] = items[cur] /\ unfinished'[cur] = unfinished[cur]
  <2>1. Len(items'[cur]) = Len(items[cur]) + 0 /\ unfinished'[cur] = unfinished[cur] + 0
    BY <1>1, <1>2
  <2> QED
    BY <1>1, <1>2, <2>1 DEF Front
<1>3. ASSUME NEW r \in Requests, items'[cur] = Append(items[cur], r), running',
             unfinished'[cur] = unfinished[cur] + 1
      PROVE  /\ Len(items'[cur]) = Len(items[cur]) + 1
             /\ Front(Len(items[cur])) => Front(Len(items[cur]))'
             /\ running'
  <2>1. /\ Len(items'[cur]) = Len(items[cur]) + 1 /\ items'[cur][Len(items[cur]) + 1] = r
        /\ \A i \in 1..Len(items[cur]) : items'[cur][i] = items[cur][i]
        /\ Len(items[cur]) \in Nat
    BY <1>1, <1>3
  <2> QED
    BY <1>1, <1>3, <2>1 DEF Front
<1> QED
  BY <1>2, <1>3 DEF Feeds

LEMMA AdvancesCareful ==
  ASSUME CInv, NEW t \in Callers, NEW p, Advances(t, p), Quiet(Stoppers \cup Reloaders),
         UNCHANGED <<svc, wstate>>,
         p = "reloading" => ~running /\ \A u \in Callers : pc[u] # "reloading",
         p \in {"putting", "waiting"} => running
  PROVE  PoolInv' /\ TaskInv'
<1>1. /\ UNCHANGED <<running, wlist, wstate, wat, cur>>
  BY DEF svc, Advances, Feeds
<1>2. /\ TaskInv' /\ Winding'
      /\ \A s \in Stoppers : pc[s] \notin Stops /\ pc'[s] \notin Stops
  <2>1. /\ p = "reloading" => ~running' /\ \A u \in Callers : pc[u] # "reloading"
        /\ p \in {"putting", "waiting"} => running'
    BY <1>1
  <2>2. running' = running
    BY <1>1
  <2> QED
    BY <2>1, <2>2, CallerTasks
<1>3. /\ \E e \in {0, 1} : /\ Len(items'[cur]) = Len(items[cur]) + e
                           /\ unfinished'[cur] = unfinished[cur] + e
      /\ Front(Len(items[cur])) => Front(Len(items[cur]))'
      /\ ~running' => items'[cur] = items[cur]
  BY FedFront DEF CInv, Advances
<1>4. Crew' /\ BusyOnes' = BusyOnes /\ Exits' = Exits
  BY <1>1 DEF CInv, PoolInv, Crew, Pool, BusyOnes, Exits
<1>5. Books'
  <2>1. unfinished[cur] \in Nat /\ items[cur] \in Seq(Requests \cup {Sentinel})
    BY CarefulTypes DEF CInv
  <2>2. /\ Len(items[cur]) \in Nat /\ IsFiniteSet(BusyOnes)
        /\ unfinished[cur] = Len(items[cur]) + Cardinality(BusyOnes)
    BY <2>1 DEF CInv, PoolInv, Books
  <2>3. Cardinality(BusyOnes) \in Nat
    BY <2>2, FS_CardinalityType
  <2>4. unfinished'[cur] = Len(items'[cur]) + Cardinality(BusyOnes)
    BY <1>3, <2>1, <2>2, <2>3
  <2> QED
    BY <1>1, <1>4, <2>2, <2>4 DEF Books
<1>6. InService' /\ AtRest'
  BY <1>1, <1>2, <1>3, <1>4 DEF CInv, PoolInv, InService, AtRest
<1> QED
  BY <1>2, <1>4, <1>5, <1>6 DEF PoolInv

(* At rest no worker lives, and the books are those of an empty queue.     *)
LEMMA RestFacts ==
  ASSUME CInv, ~running, \A s \in Stoppers : pc[s] \notin Stops
  PROVE  /\ wlist = <<>> /\ items[cur] = <<>> /\ Pool = {} /\ BusyOnes = {}
         /\ unfinished[cur] = 0
         /\ \A w \in Worker : wstate[w] \in {"unborn", "exited"}
         /\ \A r \in Requests : pc[r] \notin {"putting", "waiting"}
<1>1. wlist = <<>> /\ items[cur] = <<>>
  BY DEF CInv, PoolInv, AtRest
<1>2. Pool = {}
  BY <1>1 DEF Pool
<1>3. \A w \in Worker : wstate[w] \in {"unborn", "exited"}
  BY <1>2 DEF CInv, PoolInv, Crew
<1>4. BusyOnes = {}
  BY <1>3 DEF BusyOnes
<1>5. unfinished[cur] = 0
  BY <1>1, <1>4, FS_EmptySet DEF CInv, PoolInv, Books
<1>6. \A r \in Requests : pc[r] \notin {"putting", "waiting"}
  BY DEF CInv, TaskInv, Served
<1> QED
  BY <1>1, <1>2, <1>3, <1>4, <1>5, <1>6

(* A start that has the lock creates its workers for a service at rest.    *)
LEMMA BornCareful ==
  ASSUME CInv, NEW t \in Callers, ReloadDone(t)
  PROVE  PoolInv' /\ TaskInv'
<1>1. Quiet(Stoppers \cup Reloaders) /\ ~running /\ running'
  BY ControlQuiet DEF ReloadDone, Ended, CInv, TaskInv, Locked
<1>2. \A s \in Stoppers : pc[s] \notin Stops
  BY <1>1 DEF Quiet, Stops, Ended
<1>3. HInv /\ config.concurrency \in 1..MaxConcurrency /\ MaxConcurrency \in Nat
  BY CarefulTypes DEF CInv
<1>4. PICK p \in {"waiting", "putting", "done"} : Advances(t, p)
  BY <1>1, <1>3, ProceedAdvances DEF ReloadDone
<1>5. TaskInv' /\ Winding'
  <2>1. p # "reloading" /\ pc[t] = "reloading"
    BY <1>4 DEF ReloadDone
  <2> QED
    BY <1>1, <1>4, <2>1, CallerTasks
<1>6. /\ wlist = <<>> /\ items[cur] = <<>> /\ unfinished[cur] = 0
      /\ \A w \in Worker : wstate[w] \in {"unborn", "exited"}
  BY <1>1, <1>2, RestFacts
<1> DEFINE c == config.concurrency
<1>7. c \in Nat \ {0}
  BY <1>3
<1>8. /\ Len(wlist') = c /\ \A n \in 1..c : wlist'[n] = <<t, n>>
  <2>1. wlist' = <<>> \o [n \in 1..c |-> <<t, n>>]
    BY <1>6 DEF ReloadDone
  <2> HIDE DEF c
  <2>2. [n \in 1..c |-> <<t, n>>] \in Seq({<<t, n>> : n \in 1..c})
    BY <1>7
  <2>3. wlist' = [n \in 1..c |-> <<t, n>>]
    BY <2>1, <2>2
  <2> QED
    BY <1>7, <2>3
<1>9. Pool' = {<<t, n>> : n \in 1..c}
  BY <1>8 DEF Pool
<1>10. \A w \in Worker : wstate'[w] = IF w[1] = t /\ w[2] <= c THEN "spawned" ELSE wstate[w]
  BY DEF ReloadDone
<1>11. \A w \in Worker : w[1] = t /\ w[2] <= c <=> w \in Pool'
  BY <1>3, <1>7, <1>9 DEF Worker
<1>12. Crew'
  <2>1. \A m, n \in 1..Len(wlist') : wlist'[m] = wlist'[n] => m = n
    BY <1>8
  <2>2. \A w \in Worker : /\ w \in Pool' => wstate'[w] = "spawned"
                          /\ w \notin Pool' => wstate'[w] \in {"unborn", "exited"}
    BY <1>6, <1>10, <1>11
  <2> QED
    BY <2>1, <2>2 DEF Crew
<1>13. BusyOnes' = {}
  BY <1>6, <1>10 DEF BusyOnes
<1>14. /\ Front(Len(items[cur])) => Front(Len(items[cur]))'
       /\ \E e \in {0, 1} : Len(items'[cur]) = Len(items[cur]) + e /\ unfinished'[cur] = unfinished[cur] + e
       /\ cur' = cur
  BY <1>3, <1>4, FedFront DEF Advances, Feeds
<1>15. unfinished'[cur'] = Len(items'[cur']) + 0
  <2>1. Len(items[cur]) = 0
    BY <1>6
  <2> QED
    BY <1>6, <1>14, <2>1
<1>16. Books'
  BY <1>13, <1>15, FS_EmptySet DEF Books
<1>17. InService'
  <2>1. wlist' # <<>>
    BY <1>7, <1>8
  <2>2. Exits' = {}
    <3>1. \A n \in 1..Len(wlist') : wlist'[n] \in Worker /\ wlist'[n] \in Pool'
      <4>1. \A n \in 1..c : <<t, n>> \in Worker
        BY <1>3 DEF Worker
      <4>2. \A n \in 1..Len(wlist') : wlist'[n] = <<t, n>> /\ n \in 1..c
        BY <1>8
      <4> HIDE DEF c
      <4> QED
        BY <1>9, <4>1, <4>2
    <3>2. \A n \in 1..Len(wlist') : wstate'[wlist'[n]] = "spawned"
      BY <1>10, <1>11, <3>1
    <3> QED
      BY <3>2 DEF Exits
  <2>3. Front(Len(items[cur]))
    BY <1>6 DEF Front
  <2>4. Front(Len(items[cur]))'
    BY <1>14, <2>3
  <2> QED
    BY <2>1, <2>2, <2>4 DEF InService
<1>18. AtRest'
  BY <1>1 DEF AtRest
<1> QED
  BY <1>5, <1>12, <1>16, <1>17, <1>18 DEF PoolInv

LEMMA CallerCareful ==
  ASSUME CInv, NEW t \in Callers, CallerNext(t),
         Calls(t) => Quiet(Stoppers \cup Reloaders)
  PROVE  PoolInv' /\ TaskInv'
<1>0. HInv /\ pc \in [Tasks -> Steps] /\ t \in Tasks
  BY CarefulTypes, Members DEF CInv
<1>1. CASE ReloadDone(t)
  BY <1>1, BornCareful
<1>2. ASSUME Quiet(Stoppers \cup Reloaders), UNCHANGED <<svc, wstate>>,
             NEW p, Goto(t, p), p \in {"locking", "raised", "done"}
      PROVE  PoolInv' /\ TaskInv'
  BY <1>2, GotoAdvances, AdvancesCareful
<1>3. ASSUME Quiet(Stoppers \cup Reloaders), UNCHANGED <<svc, wstate>>,
             running, t \in Requests, Put(t)
      PROVE  PoolInv' /\ TaskInv'
  <2>1. PICK p \in {"waiting", "putting"} : Advances(t, p)
    BY <1>0, <1>3, PutAdvances DEF svc
  <2> QED
    BY <1>3, <2>1, AdvancesCareful
<1>4. ASSUME Quiet(Stoppers \cup Reloaders), UNCHANGED <<svc, wstate>>, Acquired(t),
             \A u \in Callers : pc[u] # "reloading"
      PROVE  PoolInv' /\ TaskInv'
  <2>1. CASE running /\ t \in Requests /\ Put(t)
    BY <1>3, <1>4, <2>1
  <2>2. CASE Goto(t, "done")
    BY <1>2, <1>4, <2>2
  <2>3. CASE ~running /\ Goto(t, "reloading")
    BY <1>4, <2>3, GotoAdvances, AdvancesCareful
  <2> QED
    BY <1>4, <2>1, <2>2, <2>3 DEF Acquired, Proceed
<1>5. CASE Call(t)
  <2>1. pc'[t] # "idle"
    <3>1. CASE t \in Requests /\ Put(t)
      BY <1>0, <3>1 DEF Put, Enqueue
    <3>2. ASSUME NEW p, Goto(t, p), p # "idle"
          PROVE  pc'[t] # "idle"
      BY <1>0, <3>2 DEF Goto
    <3> QED
      BY <1>5, <3>1, <3>2 DEF Call, Acquired, Proceed
  <2>2. Quiet(Stoppers \cup Reloaders) /\ UNCHANGED <<svc, wstate>>
    BY <1>5, <2>1 DEF Call, Calls
  <2>3. CASE t \in Requests /\ running /\ Put(t)
    BY <1>3, <2>2, <2>3
  <2>4. CASE ~Contended /\ Acquired(t)
    BY <1>4, <2>2, <2>4 DEF Contended
  <2>5. CASE Goto(t, "locking")
    BY <1>2, <2>2, <2>5
  <2> QED
    BY <1>5, <2>3, <2>4, <2>5 DEF Call
<1>6. CASE LockAcquired(t)
  <2>1. Quiet(Stoppers \cup Reloaders)
    BY <1>6, ControlQuiet DEF LockAcquired, Ended
  <2> QED
    BY <1>4, <1>6, <2>1 DEF LockAcquired
<1>7. CASE ReloadFails(t)
  <2>1. Quiet(Stoppers \cup Reloaders)
    BY <1>7, ControlQuiet DEF ReloadFails, Ended
  <2> QED
    BY <1>2, <1>7, <2>1 DEF ReloadFails
<1> QED
  BY <1>1, <1>5, <1>6, <1>7 DEF CallerNext

LEMMA RequestCareful ==
  ASSUME CInv, NEW r \in Requests, RequestNext(r)
  PROVE  PoolInv' /\ TaskInv'
<1>0. HInv /\ r \in Callers
  BY Members DEF CInv
<1>1. Quiet(Stoppers \cup Reloaders) /\ UNCHANGED <<svc, wstate>>
  <2>1. pc[r] \notin Ended \cup {"idle"} /\ UNCHANGED <<svc, wstate>>
    BY DEF RequestNext, PutResumes, Return, Cancel, Ended, workers
  <2> QED
    BY <1>0, <2>1, ControlQuiet
<1>2. CASE PutResumes(r)
  <2>1. at[r] = cur /\ running /\ running'
    BY <1>1, <1>2 DEF PutResumes, CInv, TaskInv, Served, svc
  <2>2. Advances(r, "waiting")
    BY <1>0, <1>2, <2>1, EnqueueAdvances DEF PutResumes
  <2> QED
    BY <1>0, <1>1, <2>1, <2>2, AdvancesCareful
<1>3. CASE Return(r)
  <2>1. PICK p \in {"done", "raised"} : Goto(r, p)
    BY <1>3 DEF Return
  <2>2. Advances(r, p)
    BY <2>1, GotoAdvances
  <2> QED
    BY <1>0, <1>1, <2>2, AdvancesCareful
<1>4. CASE Cancel(r)
  <2>1. Advances(r, "cancelled")
    BY <1>4 DEF Cancel, Advances, Feeds, queues, stops, workers
  <2> QED
    BY <1>0, <1>1, <2>1, AdvancesCareful
<1> QED
  BY <1>2, <1>3, <1>4 DEF RequestNext

-----------------------------------------------------------------------------
(* Workers.                                                                *)

(* One worker changes its state.                                           *)
LEMMA BusyAfter ==
  ASSUME CInv, NEW w \in Worker, NEW s \in WStates, wstate' = [wstate EXCEPT ![w] = s]
  PROVE  /\ IsFiniteSet(BusyOnes \ {w}) /\ Cardinality(BusyOnes \ {w}) \in Nat
         /\ IsFiniteSet(BusyOnes')
         /\ s = "busy" => Cardinality(BusyOnes') = Cardinality(BusyOnes \ {w}) + 1
         /\ s # "busy" => Cardinality(BusyOnes') = Cardinality(BusyOnes \ {w})
<1>1. IsFiniteSet(BusyOnes)
  BY DEF CInv, PoolInv, Books
<1>2. IsFiniteSet(BusyOnes \ {w})
  BY <1>1, FS_Subset
<1>3. \A v \in Worker : wstate'[v] = IF v = w THEN s ELSE wstate[v]
  BY CarefulTypes DEF CInv
<1>4. CASE s = "busy"
  <2>1. BusyOnes' = (BusyOnes \ {w}) \cup {w} /\ w \notin BusyOnes \ {w}
    BY <1>3, <1>4 DEF BusyOnes
  <2> QED
    BY <1>2, <1>4, <2>1, FS_AddElement, FS_CardinalityType
<1>5. CASE s # "busy"
  <2>1. BusyOnes' = BusyOnes \ {w}
    BY <1>3, <1>5 DEF BusyOnes
  <2> QED
    BY <1>2, <1>5, <2>1, FS_CardinalityType
<1> QED
  BY <1>4, <1>5

LEMMA ExitsAfter ==
  ASSUME CInv, NEW w \in Pool, wstate[w] # "exited", UNCHANGED wlist,
         NEW s \in WStates, wstate' = [wstate EXCEPT ![w] = s]
  PROVE  /\ Cardinality(Exits) \in Nat
         /\ s # "exited" => Exits' = Exits
         /\ s = "exited" => Cardinality(Exits') = Cardinality(Exits) + 1
<1>1. PICK k \in 1..Len(wlist) : wlist[k] = w
  BY DEF Pool
<1>2. /\ \A n \in 1..Len(wlist) : wlist[n] = w <=> n = k
      /\ \A n \in 1..Len(wlist) : wlist[n] \in Worker
      /\ wstate \in [Worker -> WStates]
  <2>1. wlist \in Seq(Worker) /\ wstate \in [Worker -> WStates]
    BY CarefulTypes DEF CInv
  <2>2. \A n \in 1..Len(wlist) : wlist[n] = w <=> n = k
    BY <1>1 DEF CInv, PoolInv, Crew
  <2> QED
    BY <2>1, <2>2
<1>3. \A n \in 1..Len(wlist) : wstate'[wlist[n]] = IF n = k THEN s ELSE wstate[wlist[n]]
  BY <1>2
<1>4. IsFiniteSet(Exits) /\ Cardinality(Exits) \in Nat /\ k \notin Exits
  BY <1>1, ExitsFinite DEF CInv, Exits
<1>5. s # "exited" => Exits' = Exits
  BY <1>1, <1>3, <1>4 DEF Exits
<1>6. s = "exited" => Exits' = Exits \cup {k}
  BY <1>1, <1>3 DEF Exits
<1> QED
  BY <1>4, <1>5, <1>6, FS_AddElement

(* What a step of a worker that is in the list leaves to be shown: that    *)
(* the books and the None still agree.                                     *)
LEMMA WorkerPool ==
  ASSUME CInv, NEW w \in Pool, wstate[w] # "exited",
         UNCHANGED <<svc, cur, pc, at, stops>>,
         NEW s \in {"getting", "busy", "exited"}, wstate' = [wstate EXCEPT ![w] = s],
         wat' = [wat EXCEPT ![w] = cur],
         \A q \in Queue : q # cur => unfinished'[q] = unfinished[q],
         Books', InService',
         \A k \in Nat : Told(k) => Told(k)'
  PROVE  PoolInv' /\ TaskInv'
<1>1. /\ w \in Worker /\ wstate \in [Worker -> WStates] /\ wat \in [Worker -> Queue]
      /\ sent \in [Stoppers -> Nat]
  BY CarefulTypes DEF CInv, Pool
<1>2. UNCHANGED <<running, wlist, cur, pc, at, sent, gathered>> /\ Pool' = Pool
  BY DEF svc, stops, Pool
<1>3. Crew'
  BY <1>1, <1>2 DEF CInv, PoolInv, Crew
<1>4. wlist # <<>>
  BY DEF Pool
<1>5. AtRest'
  BY <1>2, <1>4 DEF CInv, PoolInv, AtRest
<1>6. Winding'
  BY <1>1, <1>2 DEF CInv, PoolInv, Winding
<1>7. Alone' /\ Locked' /\ Served'
  BY <1>2 DEF CInv, TaskInv, Alone, Locked, Served, Quiet
<1>8. Unused'
  <2>1. \A a \in Reloaders : pc[a] # "done" => a \in Queue /\ a # cur
    BY DEF CInv, HInv, IInv, Fresh, Queue
  <2> QED
    BY <1>2, <2>1 DEF CInv, TaskInv, Unused
<1> QED
  BY <1>3, <1>5, <1>6, <1>7, <1>8 DEF PoolInv, TaskInv

(* A get from the queue of the moment, by a worker whose dispatch, if it   *)
(* had one, is no longer counted in uf.                                    *)
LEMMA GetCareful ==
  ASSUME CInv, NEW w \in Pool, wstate[w] # "exited", NEW uf \in [Queue -> Nat],
         uf[cur] = Len(items[cur]) + Cardinality(BusyOnes \ {w}),
         \A q \in Queue : q # cur => uf[q] = unfinished[q],
         Get(w, cur, uf)
  PROVE  PoolInv' /\ TaskInv'
<1>0. /\ w \in Worker /\ cur \in Queue /\ items \in [Queue -> Seq(Requests \cup {Sentinel})]
      /\ items[cur] \in Seq(Requests \cup {Sentinel}) /\ Sentinel \notin Requests
      /\ Len(items[cur]) \in Nat
  <2>1. /\ cur \in Queue /\ items \in [Queue -> Seq(Requests \cup {Sentinel})]
        /\ Sentinel \notin Requests /\ wlist \in Seq(Worker)
    BY CarefulTypes DEF CInv
  <2>2. w \in Worker
    BY <2>1 DEF Pool
  <2>3. items[cur] \in Seq(Requests \cup {Sentinel})
    BY <2>1
  <2> QED
    BY <2>1, <2>2, <2>3
<1>1. /\ UNCHANGED <<svc, cur, pc, at, stops>> /\ wat' = [wat EXCEPT ![w] = cur]
      /\ UNCHANGED <<running, wlist>>
  BY DEF Get, svc
<1>2. IsFiniteSet(BusyOnes \ {w}) /\ Cardinality(BusyOnes \ {w}) \in Nat
  <2>1. IsFiniteSet(BusyOnes \ {w})
    BY FS_Subset DEF CInv, PoolInv, Books
  <2> QED
    BY <2>1, FS_CardinalityType
<1>3. CASE items[cur] = <<>>
  <2>1. /\ wstate' = [wstate EXCEPT ![w] = "getting"] /\ unfinished' = uf /\ items' = items
    BY <1>3 DEF Get
  <2>2. Exits' = Exits
    BY <1>1, <2>1, ExitsAfter DEF WStates
  <2>3. Books'
    <3>1. IsFiniteSet(BusyOnes') /\ Cardinality(BusyOnes') = Cardinality(BusyOnes \ {w})
      BY <1>0, <2>1, BusyAfter DEF WStates
    <3> QED
      BY <1>1, <2>1, <3>1 DEF Books
  <2>4. InService' /\ \A k \in Nat : Told(k) => Told(k)'
    BY <1>1, <2>1, <2>2 DEF CInv, PoolInv, InService, Front, Told
  <2> QED
    BY <1>1, <2>1, <2>3, <2>4, WorkerPool
<1>4. CASE items[cur] # <<>>
  <2> DEFINE its == items[cur]
  <2>1. /\ items'[cur] = Tail(its) /\ Len(Tail(its)) = Len(its) - 1 /\ Len(its) >= 1
        /\ \A i \in 1..Len(Tail(its)) : Tail(its)[i] = its[i + 1]
        /\ Head(its) = its[1]
    BY <1>0, <1>4 DEF Get
  <2>2. CASE its[1] \in Requests
    <3>1. wstate' = [wstate EXCEPT ![w] = "busy"] /\ unfinished' = uf
      BY <1>0, <1>4, <2>1, <2>2 DEF Get
    <3>2. Exits' = Exits
      BY <1>1, <3>1, ExitsAfter DEF WStates
    <3>3. Books'
      <4>1. IsFiniteSet(BusyOnes') /\ Cardinality(BusyOnes') = Cardinality(BusyOnes \ {w}) + 1
        BY <1>0, <3>1, BusyAfter DEF WStates
      <4>2. unfinished'[cur] = Len(Tail(its)) + (Cardinality(BusyOnes \ {w}) + 1)
        BY <1>0, <1>2, <2>1, <3>1
      <4> QED
        BY <1>1, <2>1, <4>1, <4>2 DEF Books
    <3>4. ASSUME NEW n \in Nat, Front(n)
          PROVE  n >= 1 /\ n - 1 \in Nat /\ Front(n - 1)'
      <4>1. n >= 1 /\ n <= Len(its)
        BY <1>0, <2>1, <2>2, <3>4 DEF Front
      <4>2. \A i \in 1..Len(Tail(its)) : Tail(its)[i] \in Requests <=> i <= n - 1
        BY <1>0, <2>1, <3>4 DEF Front
      <4> QED
        BY <1>0, <1>1, <2>1, <3>4, <4>1, <4>2 DEF Front
    <3>5. InService'
      <4>1. Front(Len(its)) => Front(Len(items[cur]))'
        BY <1>0, <1>1, <2>1, <3>4
      <4> QED
        BY <1>1, <3>2, <4>1 DEF CInv, PoolInv, InService
    <3>6. ASSUME NEW k \in Nat, Told(k)
          PROVE  Told(k)'
      <4>1. PICK n \in Nat : /\ Front(n)
                             /\ Exits # {} => n = 0
                             /\ Len(its) - n + Cardinality(Exits) = k
        BY <3>6 DEF Told
      <4>2. n >= 1 /\ n - 1 \in Nat /\ Front(n - 1)'
        BY <3>4, <4>1
      <4>3. Exits = {}
        BY <4>1, <4>2
      <4>4. Cardinality(Exits) \in Nat
        BY ExitsFinite DEF CInv
      <4>5. Len(items'[cur]) - (n - 1) + Cardinality(Exits) = k
        BY <1>0, <2>1, <4>1, <4>4
      <4> QED
        BY <1>1, <3>2, <4>2, <4>3, <4>5 DEF Told
    <3> QED
      BY <1>1, <3>1, <3>3, <3>5, <3>6, WorkerPool
  <2>3. CASE its[1] = Sentinel
    <3>1. uf[cur] \in Nat /\ uf[cur] >= 1
      BY <1>0, <1>2, <2>1
    <3>2. /\ wstate' = [wstate EXCEPT ![w] = "exited"]
          /\ unfinished' = [uf EXCEPT ![cur] = @ - 1]
      BY <1>0, <1>4, <2>1, <2>3, <3>1 DEF Get
    <3>3. /\ unfinished'[cur] = uf[cur] - 1
          /\ \A q \in Queue : q # cur => unfinished'[q] = unfinished[q]
      BY <1>0, <3>2
    <3>4. Cardinality(Exits) \in Nat /\ Cardinality(Exits') = Cardinality(Exits) + 1
      BY <1>1, <3>2, ExitsAfter DEF WStates
    <3>5. Books'
      <4>1. IsFiniteSet(BusyOnes') /\ Cardinality(BusyOnes') = Cardinality(BusyOnes \ {w})
        BY <1>0, <3>2, BusyAfter DEF WStates
      <4>2. unfinished'[cur] = Len(Tail(its)) + Cardinality(BusyOnes \ {w})
        BY <1>0, <1>2, <2>1, <3>3
      <4> QED
        BY <1>1, <2>1, <4>1, <4>2 DEF Books
    <3>6. ASSUME NEW n \in Nat, Front(n)
          PROVE  n = 0 /\ Front(0)'
      <4>1. n = 0
        BY <1>0, <2>1, <2>3, <3>6 DEF Front
      <4>2. \A i \in 1..Len(Tail(its)) : Tail(its)[i] \notin Requests
        BY <1>0, <2>1, <3>6, <4>1 DEF Front
      <4>3. cur' = cur /\ items'[cur] = Tail(its) /\ Len(Tail(its)) \in Nat
        BY <1>0, <1>1, <2>1
      <4> HIDE DEF its
      <4>4. Front(0)'
        BY <4>2, <4>3 DEF Front
      <4> QED
        BY <4>1, <4>4
    <3>7. InService'
      <4>1. ~Front(Len(its))
        BY <1>0, <2>1, <3>6
      <4> QED
        BY <1>1, <4>1 DEF CInv, PoolInv, InService
    <3>8. ASSUME NEW k \in Nat, Told(k)
          PROVE  Told(k)'
      <4>1. PICK n \in Nat : Front(n) /\ Len(its) - n + Cardinality(Exits) = k
        BY <3>8 DEF Told
      <4>2. n = 0 /\ Front(0)'
        BY <3>6, <4>1
      <4>3. Len(items'[cur]) - 0 + Cardinality(Exits') = k
        BY <1>0, <2>1, <3>4, <4>1, <4>2
      <4> QED
        BY <1>1, <4>2, <4>3 DEF Told
    <3> QED
      BY <1>1, <3>2, <3>3, <3>5, <3>7, <3>8, WorkerPool
  <2> QED
    BY <1>0, <2>1, <2>2, <2>3
<1> QED
  BY <1>3, <1>4

LEMMA WorkerCareful ==
  ASSUME CInv, NEW w \in Worker, WorkerNext(w)
  PROVE  PoolInv' /\ TaskInv'
<1>1. wstate[w] \in {"spawned", "getting", "busy"}
  BY DEF WorkerNext, WorkerStarts, WorkerWakes, WorkerFinishes
<1>2. w \in Pool /\ wstate[w] # "exited"
  BY <1>1 DEF CInv, PoolInv, Crew
<1>3. /\ unfinished \in [Queue -> Nat] /\ cur \in Queue /\ Len(items[cur]) \in Nat
      /\ IsFiniteSet(BusyOnes) /\ Cardinality(BusyOnes) \in Nat
      /\ unfinished[cur] = Len(items[cur]) + Cardinality(BusyOnes)
  <2>1. /\ unfinished \in [Queue -> Nat] /\ cur \in Queue
        /\ items[cur] \in Seq(Requests \cup {Sentinel})
    BY CarefulTypes DEF CInv
  <2>2. IsFiniteSet(BusyOnes) /\ unfinished[cur] = Len(items[cur]) + Cardinality(BusyOnes)
    BY DEF CInv, PoolInv, Books
  <2> QED
    BY <2>1, <2>2, FS_CardinalityType
<1>4. ASSUME wstate[w] # "busy", Get(w, cur, unfinished)
      PROVE  PoolInv' /\ TaskInv'
  <2>1. BusyOnes \ {w} = BusyOnes
    BY <1>4 DEF BusyOnes
  <2> QED
    BY <1>2, <1>3, <1>4, <2>1, GetCareful
<1>5. CASE WorkerStarts(w)
  BY <1>4, <1>5 DEF WorkerStarts
<1>6. CASE WorkerWakes(w)
  <2>1. wat[w] = cur
    BY <1>6 DEF WorkerWakes, CInv, PoolInv, Crew
  <2> QED
    BY <1>4, <1>6, <2>1 DEF WorkerWakes
<1>7. ASSUME NEW o \in {"result", "error"}, WorkerFinishes(w, o)
      PROVE  PoolInv' /\ TaskInv'
  <2>1. w \in BusyOnes
    BY <1>7 DEF WorkerFinishes, BusyOnes
  <2>2. /\ Cardinality(BusyOnes \ {w}) = Cardinality(BusyOnes) - 1
        /\ Cardinality(BusyOnes \ {w}) \in Nat
    BY <1>3, <2>1, FS_RemoveElement, FS_Subset, FS_CardinalityType
  <2> DEFINE uf == [unfinished EXCEPT ![cur] = @ - 1]
  <2>3. unfinished[cur] \in Nat /\ unfinished[cur] > 0
    BY <1>3, <2>2
  <2>4. /\ uf \in [Queue -> Nat] /\ uf[cur] = unfinished[cur] - 1
        /\ \A q \in Queue : q # cur => uf[q] = unfinished[q]
    <3>1. unfinished \in [Queue -> Nat] /\ cur \in Queue
      BY <1>3
    <3>2. unfinished[cur] - 1 \in Nat
      BY <2>3
    <3> QED
      BY <3>1, <3>2
  <2>5. uf[cur] = Len(items[cur]) + Cardinality(BusyOnes \ {w})
    BY <1>3, <2>2, <2>4
  <2>6. Get(w, cur, uf)
    BY <1>7, <2>3 DEF WorkerFinishes
  <2> HIDE DEF uf
  <2> QED
    BY <1>2, <2>4, <2>5, <2>6, GetCareful
<1> QED
  BY <1>5, <1>6, <1>7 DEF WorkerNext

-----------------------------------------------------------------------------
(* Those who stop and reconfigure.                                         *)

(* A step of one that is alone with a stopped service.                     *)
LEMMA AloneKeeps ==
  ASSUME CInv, NEW c \in Stoppers \cup Reloaders, NEW p, pc' = [pc EXCEPT ![c] = p],
         Quiet(Tasks \ {c}), ~running'
  PROVE  /\ Alone' /\ Locked' /\ Served'
         /\ pc'[c] = p /\ \A t \in Tasks \ {c} : pc'[t] = pc[t] /\ pc'[t] \in Ended \cup {"idle"}
         /\ \A s \in Stoppers : s # c => pc'[s] \notin Stops
<1>1. /\ c \in Tasks /\ c \notin Callers /\ pc'[c] = p
      /\ \A t \in Tasks \ {c} : pc'[t] = pc[t] /\ pc'[t] \in Ended \cup {"idle"}
  BY CarefulTypes, Members DEF CInv, Quiet
<1>2. Alone'
  BY <1>1, Members DEF Alone, Quiet
<1>3. Locked' /\ Served'
  <2>1. \A t \in Callers : pc'[t] \in Ended \cup {"idle"}
    BY <1>1, Members
  <2> QED
    BY <2>1, Members DEF Locked, Served, Ended
<1>4. \A s \in Stoppers : s # c => pc'[s] \notin Stops
  BY <1>1, Members DEF Stops, Ended
<1> QED
  BY <1>1, <1>2, <1>3, <1>4

(* A queue with more put behind what it holds.                             *)
LEMMA Padded ==
  ASSUME NEW S, NEW old \in Seq(S), NEW m \in Nat, NEW x \in S
  PROVE  LET new == old \o [i \in 1..m |-> x]
         IN  /\ Len(new) = Len(old) + m
             /\ \A i \in 1..Len(old) : new[i] = old[i]
             /\ \A i \in (Len(old) + 1)..(Len(old) + m) : new[i] = x
<1> DEFINE pad == [i \in 1..m |-> x]
<1>1. pad \in Seq(S) /\ Len(pad) = m /\ \A i \in 1..m : pad[i] = x
  OBVIOUS
<1> HIDE DEF pad
<1>2. /\ Len(old \o pad) = Len(old) + m
      /\ \A i \in 1..Len(old) : (old \o pad)[i] = old[i]
      /\ \A i \in (Len(old) + 1)..(Len(old) + m) : (old \o pad)[i] = pad[i - Len(old)]
  BY <1>1
<1>3. \A i \in (Len(old) + 1)..(Len(old) + m) : i - Len(old) \in 1..m
  OBVIOUS
<1> QED
  BY <1>1, <1>2, <1>3 DEF pad

LEMMA Shifted ==
  ASSUME NEW l \in Nat, NEW n \in Nat, NEW e \in Nat, NEW k \in Nat, NEW m \in Nat,
         NEW more, more = l + m, n <= l, l - n + e = k
  PROVE  n <= more /\ more - n + e = k + m
  OBVIOUS

LEMMA Apart == \A s \in Stoppers : s \in Tasks /\ s \notin Reloaders
  BY ServiceAssumption DEF Tasks, ServiceAssumption

(* The turns of stop's loop, k of which are done; its and uf are the queue *)
(* and its count so far, n the requests at its front.                      *)
LEMMA TurnsCareful ==
  ASSUME CInv, NEW s \in Stoppers, Quiet(Tasks \ {s}), ~running', wlist # <<>>,
         UNCHANGED <<cur, wlist, workers>>,
         NEW k \in Nat, k <= Len(wlist),
         NEW its \in [Queue -> Seq(Requests \cup {Sentinel})], NEW uf \in [Queue -> Nat],
         uf[cur] = Len(its[cur]) + Cardinality(BusyOnes),
         \A q \in Queue : q # cur => uf[q] = unfinished[q],
         NEW n \in Nat, n <= Len(its[cur]),
         \A i \in 1..Len(its[cur]) : its[cur][i] \in Requests <=> i <= n,
         Len(its[cur]) - n + Cardinality(Exits) = k, Exits # {} => n = 0,
         PutSentinels(s, k, its, uf)
  PROVE  PoolInv' /\ TaskInv'
<1> DEFINE room  == maxsize[cur] - Len(its[cur])
           turns == Len(wlist) - k
           least == IF turns < room THEN turns ELSE room
           free  == IF least < 0 THEN 0 ELSE least
           old   == its[cur]
<1>0. /\ s \in Tasks /\ s \in Stoppers \cup Reloaders /\ cur \in Queue
      /\ wlist \in Seq(Worker) /\ maxsize \in [Queue -> Nat] /\ Sentinel \notin Requests
      /\ old \in Seq(Requests \cup {Sentinel})
      /\ sent \in [Stoppers -> Nat] /\ gathered \in [Stoppers -> SUBSET Worker]
      /\ at \in [Tasks -> Queue]
  <2>1. HInv
    BY DEF CInv
  <2>2. s \in Tasks /\ s \in Stoppers \cup Reloaders
    BY Members
  <2>3. cur \in Queue /\ Sentinel \notin Requests
    BY <2>1, CarefulTypes
  <2>4. old \in Seq(Requests \cup {Sentinel})
    BY <2>3
  <2> QED
    BY <2>1, <2>2, <2>3, <2>4, CarefulTypes
<1>1. Len(wlist) \in Nat /\ maxsize[cur] \in Nat /\ Len(old) \in Nat
  BY <1>0
<1>2. PICK m \in Nat : m = free /\ m <= turns /\ turns \in Nat
  BY <1>1
<1>3. /\ items' = [its EXCEPT ![cur] = @ \o [i \in 1..m |-> Sentinel]]
      /\ unfinished' = [uf EXCEPT ![cur] = @ + m]
      /\ sent' = [sent EXCEPT ![s] = k + m]
      /\ at' = [at EXCEPT ![s] = cur]
      /\ \/ /\ m < turns
            /\ pc' = [pc EXCEPT ![s] = "sentinel"]
         \/ /\ m >= turns
            /\ pc' = [pc EXCEPT ![s] = "joining"]
            /\ gathered' = [gathered EXCEPT ![s] = {wlist[i] : i \in 1..Len(wlist)}]
  BY <1>2 DEF PutSentinels
<1> HIDE DEF free
<1>4. PICK p \in {"sentinel", "joining"} : /\ pc' = [pc EXCEPT ![s] = p]
                                           /\ p = "sentinel" => m < turns
                                           /\ p = "joining" => m >= turns
                                                 /\ gathered' = [gathered EXCEPT ![s] = Pool]
  BY <1>3 DEF Pool
<1>5. /\ Alone' /\ Locked' /\ Served' /\ pc'[s] = p
      /\ \A t \in Tasks \ {s} : pc'[t] = pc[t]
      /\ \A z \in Stoppers : z # s => pc'[z] \notin Stops
  BY <1>0, <1>4, AloneKeeps
<1>6. /\ items'[cur] = old \o [i \in 1..m |-> Sentinel]
      /\ Len(items'[cur]) = Len(old) + m
      /\ \A i \in 1..Len(old) : items'[cur][i] = old[i]
      /\ \A i \in (Len(old) + 1)..(Len(old) + m) : items'[cur][i] = Sentinel
  <2>1. items'[cur] = old \o [i \in 1..m |-> Sentinel]
    BY <1>0, <1>3
  <2> HIDE DEF old
  <2>2. Sentinel \in Requests \cup {Sentinel}
    OBVIOUS
  <2> QED
    BY <1>0, <1>2, <2>1, <2>2, Padded
<1>7. UNCHANGED <<wlist, wstate, wat, cur>> /\ Pool' = Pool /\ Exits' = Exits /\ BusyOnes' = BusyOnes
  BY DEF workers, Pool, Exits, BusyOnes
<1>8. Crew'
  BY <1>7 DEF CInv, PoolInv, Crew
<1>9. Books'
  <2>1. IsFiniteSet(BusyOnes)
    BY DEF CInv, PoolInv, Books
  <2>2. Cardinality(BusyOnes) \in Nat
    BY <2>1, FS_CardinalityType
  <2>3. unfinished'[cur] = uf[cur] + m
    BY <1>0, <1>3
  <2>4. unfinished'[cur] = Len(items'[cur]) + Cardinality(BusyOnes)
    BY <1>1, <1>2, <1>6, <2>2, <2>3
  <2> QED
    BY <1>7, <2>1, <2>4 DEF Books
<1>10. Front(n)'
  <2>1. n \in 0..Len(items'[cur])
    BY <1>1, <1>2, <1>6
  <2>2. ASSUME NEW i \in 1..Len(items'[cur])
        PROVE  items'[cur][i] \in Requests <=> i <= n
    <3>1. CASE i \in 1..Len(old)
      BY <1>6, <3>1
    <3>2. CASE i \in (Len(old) + 1)..(Len(old) + m)
      <4>1. items'[cur][i] \notin Requests
        BY <1>0, <1>6, <3>2
      <4>2. ~(i <= n)
        BY <1>1, <3>2
      <4> QED
        BY <4>1, <4>2
    <3> QED
      BY <1>1, <1>2, <1>6, <3>1, <3>2
  <2> QED
    BY <1>7, <2>1, <2>2 DEF Front
<1>11. Told(k + m)'
  <2>1. Cardinality(Exits) \in Nat
    BY ExitsFinite DEF CInv
  <2>2. Len(items'[cur]) - n + Cardinality(Exits) = k + m
    <3>1. PICK e \in Nat : e = Cardinality(Exits)
      BY <2>1
    <3>2. PICK l \in Nat : l = Len(old)
      BY <1>1
    <3>3. l - n + e = k /\ Len(items'[cur]) = l + m /\ n <= l
      BY <1>6, <3>1, <3>2
    <3>4. l + m - n + e = k + m
      BY <3>3, Shifted
    <3> QED
      BY <3>1, <3>3, <3>4
  <2>3. Len(items'[cur']) - n + Cardinality(Exits') = k + m /\ (Exits' # {} => n = 0)
    BY <1>7, <2>2
  <2> DEFINE F(i) == Front(i)'
  <2>4. F(n)
    BY <1>10
  <2>5. \E i \in Nat : F(i) /\ Len(items'[cur']) - i + Cardinality(Exits') = k + m /\ (Exits' # {} => i = 0)
    <3> HIDE DEF F
    <3> QED
      BY <2>3, <2>4
  <2> QED
    BY <2>5 DEF Told
<1>12. Winding'
  <2> SUFFICES ASSUME NEW z \in Stoppers, pc'[z] \in Stops
               PROVE  /\ wlist' # <<>> /\ at'[z] = cur' /\ Told(sent[z])'
                      /\ pc'[z] = "sentinel" => sent'[z] < Len(wlist')
                      /\ pc'[z] = "joining" => sent'[z] = Len(wlist') /\ gathered'[z] = Pool'
    BY DEF Winding
  <2>1. z = s
    BY <1>5
  <2>2. at'[s] = cur /\ sent'[s] = k + m
    BY <1>0, <1>3
  <2>3. p = "sentinel" => k + m < Len(wlist)
    BY <1>1, <1>2, <1>4
  <2>4. p = "joining" => k + m = Len(wlist) /\ gathered'[s] = Pool
    BY <1>0, <1>1, <1>2, <1>4
  <2>5. Told(sent[s])'
    BY <1>11, <2>2 DEF Told
  <2> QED
    BY <1>5, <1>7, <2>1, <2>2, <2>3, <2>4, <2>5
<1>13. InService' /\ AtRest'
  BY <1>4, <1>5 DEF InService, AtRest, Stops
<1>14. Unused'
  <2>1. \A a \in Reloaders : a \in Tasks \ {s} /\ a \in Queue
    BY Members, Apart DEF Queue
  <2>2. \A a \in Reloaders : pc[a] # "done" => a # cur
    BY DEF CInv, HInv, IInv, Fresh
  <2>3. \A q \in Queue : q # cur => unfinished'[q] = unfinished[q]
    BY <1>3
  <2> QED
    BY <1>5, <2>1, <2>2, <2>3 DEF CInv, TaskInv, Unused
<1> QED
  BY <1>5, <1>8, <1>9, <1>12, <1>13, <1>14 DEF PoolInv, TaskInv

(* A step that leaves the service at rest as it is.                        *)
LEMMA RestKeeps ==
  ASSUME CInv, ~running, \A s \in Stoppers : pc[s] \notin Stops,
         NEW c \in Stoppers \cup Reloaders, NEW p, p \notin Stops, Goto(c, p),
         Quiet(Tasks \ {c}), UNCHANGED <<running, wlist, wstate>>,
         p = "done" \/ pc[c] # "done"
  PROVE  PoolInv' /\ TaskInv'
<1>1. pc' = [pc EXCEPT ![c] = p] /\ UNCHANGED <<cur, items, unfinished, wat>>
  BY DEF Goto, queues
<1>2. /\ Alone' /\ Locked' /\ Served' /\ pc'[c] = p
      /\ \A t \in Tasks \ {c} : pc'[t] = pc[t]
      /\ \A s \in Stoppers : s # c => pc'[s] \notin Stops
  BY <1>1, AloneKeeps
<1>3. \A s \in Stoppers : pc'[s] \notin Stops
  BY <1>2
<1>4. Crew' /\ Books'
  BY <1>1 DEF CInv, PoolInv, Crew, Pool, Books, BusyOnes
<1>5. InService' /\ AtRest' /\ Winding'
  BY <1>1, <1>3 DEF CInv, PoolInv, InService, AtRest, Winding
<1>6. Unused'
  <2>1. \A a \in Reloaders : a \in Tasks
    BY Members
  <2> QED
    BY <1>1, <1>2, <2>1 DEF CInv, TaskInv, Unused
<1> QED
  BY <1>2, <1>4, <1>5, <1>6 DEF PoolInv, TaskInv

LEMMA StopperCareful ==
  ASSUME CInv, NEW s \in Stoppers, StopperNext(s), Calls(s) => Quiet(Tasks \ {s})
  PROVE  PoolInv' /\ TaskInv'
<1>0. /\ s \in Tasks /\ s \in Stoppers \cup Reloaders /\ pc \in [Tasks -> Steps]
      /\ items \in [Queue -> Seq(Requests \cup {Sentinel})] /\ unfinished \in [Queue -> Nat]
      /\ cur \in Queue /\ wlist \in Seq(Worker) /\ sent \in [Stoppers -> Nat]
      /\ items[cur] \in Seq(Requests \cup {Sentinel}) /\ Sentinel \notin Requests
  BY CarefulTypes, Members DEF CInv
<1>1. Len(wlist) \in Nat /\ Len(items[cur]) \in Nat /\ Cardinality(Exits) \in Nat
  BY <1>0, ExitsFinite DEF CInv
<1>2. Quiet(Tasks \ {s})
  <2>1. CASE pc[s] = "idle"
    <3>1. pc'[s] # "idle"
      BY <1>0, <2>1 DEF StopperNext, StopCalled, SentinelResumes, StopJoined, PutSentinels, Goto
    <3> QED
      BY <2>1, <3>1 DEF Calls
  <2>2. CASE pc[s] # "idle"
    <3>1. pc[s] \in Stops
      BY <2>2 DEF StopperNext, StopCalled, SentinelResumes, StopJoined, Stops
    <3> QED
      BY <1>0, <3>1 DEF CInv, TaskInv, Alone, Stops, Ended
  <2> QED
    BY <2>1, <2>2
<1>3. \A z \in Stoppers : z # s => pc[z] \notin Stops
  BY <1>2, Apart DEF Quiet, Stops, Ended
<1>4. CASE StopCalled(s) /\ ~running
  <2>1. /\ Goto(s, "done") /\ UNCHANGED <<running, wlist, wstate>>
        /\ \A z \in Stoppers : pc[z] \notin Stops
    BY <1>3, <1>4 DEF StopCalled, Stops
  <2> QED
    BY <1>0, <1>2, <1>4, <2>1, RestKeeps DEF Stops
<1>5. CASE StopCalled(s) /\ running
  <2>1. /\ PutSentinels(s, 0, items, unfinished) /\ ~running'
        /\ UNCHANGED <<cur, wlist, workers>>
    BY <1>5 DEF StopCalled
  <2>2. wlist # <<>> /\ Exits = {} /\ Front(Len(items[cur]))
    BY <1>5 DEF CInv, PoolInv, InService
  <2>3. Len(items[cur]) - Len(items[cur]) + Cardinality(Exits) = 0
    BY <1>1, <2>2, FS_EmptySet
  <2>4. \A i \in 1..Len(items[cur]) : items[cur][i] \in Requests <=> i <= Len(items[cur])
    BY <2>2 DEF Front
  <2>5. unfinished[cur] = Len(items[cur]) + Cardinality(BusyOnes)
    BY DEF CInv, PoolInv, Books
  <2>6. 0 \in Nat /\ 0 <= Len(wlist) /\ Len(items[cur]) <= Len(items[cur])
    BY <1>1
  <2> QED
    BY <1>0, <1>1, <1>2, <2>1, <2>2, <2>3, <2>4, <2>5, <2>6, TurnsCareful
<1>6. CASE SentinelResumes(s)
  <2>1. /\ pc[s] = "sentinel" /\ at[s] = cur /\ wlist # <<>> /\ sent[s] < Len(wlist)
        /\ Told(sent[s])
    BY <1>6 DEF SentinelResumes, CInv, PoolInv, Winding, Stops
  <2>2. PICK n \in Nat : /\ Front(n)
                         /\ Exits # {} => n = 0
                         /\ Len(items[cur]) - n + Cardinality(Exits) = sent[s]
    BY <2>1 DEF Told
  <2> DEFINE its == [items EXCEPT ![cur] = Append(@, Sentinel)]
             uf  == [unfinished EXCEPT ![cur] = @ + 1]
  <2>3. /\ PutSentinels(s, sent[s] + 1, its, uf)
        /\ UNCHANGED <<cur, wlist, workers>>
    BY <1>6, <2>1 DEF SentinelResumes, svc
  <2>4. ~running'
    BY <1>0, <1>6, <2>1 DEF SentinelResumes, svc, CInv, TaskInv, Alone, Ended
  <2>5. /\ its \in [Queue -> Seq(Requests \cup {Sentinel})]
        /\ its[cur] = Append(items[cur], Sentinel)
        /\ Len(its[cur]) = Len(items[cur]) + 1
    BY <1>0
  <2>6. /\ uf \in [Queue -> Nat] /\ uf[cur] = unfinished[cur] + 1
        /\ \A q \in Queue : q # cur => uf[q] = unfinished[q]
    BY <1>0
  <2>7. n <= Len(items[cur]) /\ \A i \in 1..Len(items[cur]) : items[cur][i] \in Requests <=> i <= n
    BY <1>1, <2>2 DEF Front
  <2>8. \A i \in 1..Len(its[cur]) : its[cur][i] \in Requests <=> i <= n
    <3>1. /\ \A i \in 1..Len(items[cur]) : its[cur][i] = items[cur][i]
          /\ its[cur][Len(items[cur]) + 1] = Sentinel
      BY <1>0, <2>5
    <3> QED
      BY <1>0, <1>1, <2>5, <2>7, <3>1
  <2>9. uf[cur] = Len(its[cur]) + Cardinality(BusyOnes)
    <3>1. IsFiniteSet(BusyOnes) /\ unfinished[cur] = Len(items[cur]) + Cardinality(BusyOnes)
      BY DEF CInv, PoolInv, Books
    <3>2. Cardinality(BusyOnes) \in Nat
      BY <3>1, FS_CardinalityType
    <3> QED
      BY <1>1, <2>5, <2>6, <3>1, <3>2
  <2> HIDE DEF its, uf
  <2>10. sent[s] \in Nat
    BY <1>0
  <2>11. sent[s] + 1 \in Nat /\ sent[s] + 1 <= Len(wlist)
    BY <1>1, <2>1, <2>10
  <2>12. n <= Len(its[cur]) /\ Len(its[cur]) - n + Cardinality(Exits) = sent[s] + 1
    BY <1>1, <2>2, <2>5, <2>7, <2>10, Shifted
  <2> QED
    BY <1>2, <2>1, <2>2, <2>3, <2>4, <2>5, <2>6, <2>8, <2>9, <2>11, <2>12, TurnsCareful
<1>7. CASE StopJoined(s)
  <2>1. /\ pc[s] = "joining" /\ wlist # <<>> /\ gathered[s] = Pool /\ Told(Len(wlist))
        /\ ~running /\ \A w \in Pool : wstate[w] \in {"exited", "crashed"}
    BY <1>0, <1>7 DEF StopJoined, CInv, PoolInv, Winding, Stops, TaskInv, Alone, Ended
  <2>2. /\ \A w \in Pool : w \in Worker /\ wstate[w] = "exited"
        /\ \A w \in Worker : wstate[w] \in {"unborn", "exited"}
    <3>1. \A w \in Pool : w \in Worker
      BY <1>0 DEF Pool
    <3> QED
      BY <2>1, <3>1 DEF CInv, PoolInv, Crew
  <2>3. Exits = 1..Len(wlist) /\ Cardinality(Exits) = Len(wlist) /\ Exits # {}
    <3>1. \A n \in 1..Len(wlist) : wlist[n] \in Pool
      BY DEF Pool
    <3>2. Exits = 1..Len(wlist)
      BY <2>2, <3>1 DEF Exits
    <3>3. Len(wlist) >= 1
      BY <1>0, <2>1
    <3> QED
      BY <3>2, <3>3, ExitsFinite DEF CInv
  <2>4. items[cur] = <<>>
    <3>1. PICK n \in Nat : /\ Exits # {} => n = 0
                           /\ Len(items[cur]) - n + Cardinality(Exits) = Len(wlist)
      BY <2>1 DEF Told
    <3>2. Len(items[cur]) = 0
      BY <1>1, <2>3, <3>1
    <3> QED
      BY <1>0, <3>2
  <2>5. /\ pc' = [pc EXCEPT ![s] = "done"] /\ wlist' = <<>>
        /\ UNCHANGED <<running, wstate, cur, items, unfinished, wat>>
    BY <1>7 DEF StopJoined, Goto, queues
  <2>6. /\ Alone' /\ Locked' /\ Served' /\ pc'[s] = "done"
        /\ \A t \in Tasks \ {s} : pc'[t] = pc[t]
        /\ \A z \in Stoppers : z # s => pc'[z] \notin Stops
    BY <1>0, <1>2, <2>1, <2>5, AloneKeeps
  <2>7. \A z \in Stoppers : pc'[z] \notin Stops
    BY <2>6 DEF Stops
  <2>8. Crew'
    <3>1. Pool' = {}
      BY <2>5 DEF Pool
    <3> QED
      BY <2>2, <2>5, <3>1 DEF Crew
  <2>9. Books' /\ InService' /\ AtRest' /\ Winding'
    BY <2>1, <2>4, <2>5, <2>7 DEF CInv, PoolInv, Books, BusyOnes, InService, AtRest, Winding
  <2>10. Unused'
    <3>1. \A a \in Reloaders : a \in Tasks \ {s}
      BY Members, Apart
    <3> QED
      BY <2>5, <2>6, <3>1 DEF CInv, TaskInv, Unused
  <2> QED
    BY <2>6, <2>8, <2>9, <2>10 DEF PoolInv, TaskInv
<1> QED
  BY <1>4, <1>5, <1>6, <1>7 DEF StopperNext

LEMMA ReloaderCareful ==
  ASSUME CInv, NEW a \in Reloaders, ApplyCalled(a) \/ ApplyEnds(a),
         Calls(a) => Quiet(Tasks \ {a}) /\ ~running
  PROVE  PoolInv' /\ TaskInv'
<1>0. a \in Tasks /\ a \in Stoppers \cup Reloaders /\ pc \in [Tasks -> Steps]
  BY CarefulTypes, Members DEF CInv
<1>1. Quiet(Tasks \ {a}) /\ ~running
  <2>1. CASE ApplyCalled(a)
    <3>1. Calls(a)
      BY <1>0, <2>1 DEF ApplyCalled, Goto, Calls
    <3> QED
      BY <3>1
  <2>2. CASE ApplyEnds(a)
    <3>1. pc[a] = "applying"
      BY <2>2 DEF ApplyEnds, ApplyFails, ApplyIdle, ApplySwaps, ApplyDrops
    <3> QED
      BY <1>0, <3>1 DEF CInv, TaskInv, Alone, Ended
  <2> QED
    BY <2>1, <2>2
<1>2. \A s \in Stoppers : pc[s] \notin Stops
  BY <1>1, Apart DEF Quiet, Stops, Ended
<1>3. CASE ApplyCalled(a)
  BY <1>0, <1>1, <1>2, <1>3, RestKeeps DEF ApplyCalled, Stops
<1>4. CASE ApplyFails(a)
  BY <1>0, <1>1, <1>2, <1>4, RestKeeps DEF ApplyFails, Stops, svc
<1>5. CASE ApplyIdle(a)
  <2>1. /\ pc[a] = "applying" /\ cur' = a /\ pc' = [pc EXCEPT ![a] = "done"]
        /\ UNCHANGED <<running, wlist, wstate, wat, items, unfinished>>
    BY <1>5 DEF ApplyIdle, svc, queues, workers
  <2>2. items[a] = <<>> /\ unfinished[a] = 0
    BY <2>1 DEF CInv, HInv, IInv, Fresh, TaskInv, Unused
  <2>3. /\ wlist = <<>> /\ Pool = {} /\ BusyOnes = {}
        /\ \A w \in Worker : wstate[w] \in {"unborn", "exited"}
    BY <1>1, <1>2, RestFacts
  <2>4. /\ Alone' /\ Locked' /\ Served' /\ pc'[a] = "done"
        /\ \A t \in Tasks \ {a} : pc'[t] = pc[t]
        /\ \A z \in Stoppers : z # a => pc'[z] \notin Stops
    BY <1>0, <1>1, <2>1, AloneKeeps
  <2>5. Crew'
    <3>1. Pool' = {}
      BY <2>1, <2>3 DEF Pool
    <3> QED
      BY <2>1, <2>3, <3>1 DEF Crew
  <2>6. Books'
    <3>1. BusyOnes' = {} /\ IsFiniteSet({}) /\ Cardinality({}) = 0 /\ Len(<<>>) = 0
      BY <2>1, <2>3, FS_EmptySet DEF BusyOnes
    <3> QED
      BY <2>1, <2>2, <3>1 DEF Books
  <2>7. InService' /\ AtRest' /\ Winding'
    <3>1. \A z \in Stoppers : pc'[z] \notin Stops
      BY <2>4, Apart
    <3> QED
      BY <1>1, <2>1, <2>2, <2>3, <3>1 DEF InService, AtRest, Winding
  <2>8. Unused'
    <3>1. \A b \in Reloaders : b \in Tasks
      BY Members
    <3> QED
      BY <2>1, <2>4, <3>1 DEF CInv, TaskInv, Unused
  <2> QED
    BY <2>4, <2>5, <2>6, <2>7, <2>8 DEF PoolInv, TaskInv
<1> QED
  BY <1>1, <1>3, <1>4, <1>5 DEF ApplyEnds, ApplySwaps, ApplyDrops

-----------------------------------------------------------------------------
LEMMA StepCareful == CInv /\ [CarefulNext]_vars => CInv'
<1> SUFFICES ASSUME CInv, [CarefulNext]_vars PROVE CInv'
  OBVIOUS
<1>1. HInv'
  <2>1. [Next]_vars
    BY DEF CarefulNext
  <2> QED
    BY <2>1, StepHub DEF CInv
<1>2. CASE UNCHANGED vars
  <2>1. UNCHANGED <<running, wlist, cur, items, unfinished, pc, at, sent, gathered, wstate, wat>>
    BY <1>2 DEF vars, svc, queues, stops, workers
  <2>2. Pool' = Pool /\ BusyOnes' = BusyOnes /\ Exits' = Exits
    BY <2>1 DEF Pool, BusyOnes, Exits
  <2>3. TaskInv'
    BY <2>1 DEF CInv, TaskInv, Alone, Quiet, Locked, Served, Unused
  <2>4. PoolInv'
    BY <2>1, <2>2 DEF CInv, PoolInv, Crew, Books, InService, Front, AtRest, Winding, Told
  <2> QED
    BY <1>1, <2>3, <2>4 DEF CInv
<1>3. CASE CarefulNext
  <2>1. /\ \A t \in Stoppers \cup Reloaders : Calls(t) => Quiet(Tasks \ {t})
        /\ \A t \in Callers : Calls(t) => Quiet(Stoppers \cup Reloaders)
        /\ \A a \in Reloaders : Calls(a) => ~running
    BY <1>3 DEF CarefulNext
  <2>2. CASE \E t \in Callers : CallerNext(t)
    BY <1>1, <2>1, <2>2, CallerCareful DEF CInv
  <2>3. CASE \E r \in Requests : RequestNext(r)
    BY <1>1, <2>3, RequestCareful DEF CInv
  <2>4. CASE \E w \in Worker : WorkerNext(w)
    BY <1>1, <2>4, WorkerCareful DEF CInv
  <2>5. CASE \E s \in Stoppers : StopperNext(s)
    BY <1>1, <2>1, <2>5, StopperCareful DEF CInv
  <2>6. CASE \E a \in Reloaders : ApplyCalled(a) \/ ApplyEnds(a)
    BY <1>1, <2>1, <2>6, ReloaderCareful DEF CInv
  <2> QED
    BY <1>3, <2>2, <2>3, <2>4, <2>5, <2>6 DEF CarefulNext, Next
<1> QED
  BY <1>2, <1>3

LEMMA CarefulGives == CInv => CleanStop /\ RunningIsServed
<1> SUFFICES ASSUME CInv PROVE CleanStop /\ RunningIsServed
  OBVIOUS
<1>1. CleanStop
  <2> SUFFICES ASSUME ~running, Quiet(Tasks)
               PROVE  /\ \A w \in Worker : wstate[w] \in {"unborn", "exited"}
                      /\ items[cur] = <<>>
    BY DEF CleanStop
  <2>1. \A s \in Stoppers : pc[s] \notin Stops
    BY Members DEF Quiet, Stops, Ended
  <2> QED
    BY <2>1, RestFacts
<1>2. RunningIsServed
  <2> SUFFICES ASSUME running
               PROVE  /\ wlist # <<>>
                      /\ \A n \in 1..Len(wlist) :
                           /\ wstate[wlist[n]] \in {"spawned", "getting", "busy"}
                           /\ wstate[wlist[n]] = "getting" => wat[wlist[n]] = cur
                      /\ unfinished[cur] = Len(items[cur]) + Cardinality(BusyOnes)
    BY DEF RunningIsServed, BusyOnes
  <2>1. wlist # <<>> /\ Exits = {}
    BY DEF CInv, PoolInv, InService
  <2>2. \A n \in 1..Len(wlist) : wlist[n] \in Pool /\ wlist[n] \in Worker
    <3>1. wlist \in Seq(Worker)
      BY CarefulTypes DEF CInv
    <3> QED
      BY <3>1 DEF Pool
  <2>3. \A n \in 1..Len(wlist) : wstate[wlist[n]] # "exited"
    BY <2>1 DEF Exits
  <2> QED
    BY <2>1, <2>2, <2>3 DEF CInv, PoolInv, Crew, Books
<1> QED
  BY <1>1, <1>2

LEMMA CarefulInvariant == CarefulSpec => []CInv
  BY InitCareful, StepCareful, PTL DEF CarefulSpec

(* In a careful program a stop leaves no worker alive and nothing in the   *)
(* queue, however full that was and whatever was cancelled                 *)
(* (service.py:47-54).                                                     *)
THEOREM StopsAreClean == CarefulSpec => []CleanStop
  BY CarefulInvariant, CarefulGives, PTL

(* In a careful program a running service has workers, they all read the   *)
(* queue submit puts into, and the count of that queue is right, so that   *)
(* task_done never raises (service.py:43-45, 61, 91-103).                  *)
THEOREM RunningStaysServed == CarefulSpec => []RunningIsServed
  BY CarefulInvariant, CarefulGives, PTL
=============================================================================
