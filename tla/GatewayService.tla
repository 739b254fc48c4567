--------------------------- MODULE GatewayService ---------------------------
(***************************************************************************)
(* qr_automation/gateway/service.py: a bounded asyncio queue, a pool of    *)
(* worker coroutines, and the four public coroutines start, stop, submit   *)
(* and apply_config, every call of which is a task of its own.             *)
(*                                                                         *)
(* asyncio is cooperative, so one action is what a task does between two   *)
(* awaits that can suspend it.  Awaits of an uncontended lock, and the     *)
(* turns of a loop over `await queue.put` that find room, do not suspend.  *)
(* The manager's reload_from_config and dispatch are awaits that end at    *)
(* any later time, well or with an exception (GatewayManager models them). *)
(***************************************************************************)
EXTENDS Integers, Sequences, FiniteSets

CONSTANTS
  Requests,        \* the calls of submit
  Starters,        \* the calls of start other than the ones submit makes
  Stoppers,        \* the calls of stop
  Reloaders,       \* the calls of apply_config
  ConfigOf,        \* the configuration each call of apply_config carries
  InitConfig,      \* the configuration given to the constructor
  MaxConcurrency,  \* bound on the worker count a configuration may ask for
  FirstQueue,      \* the queue object the constructor creates
  Sentinel         \* the None that tells a worker to end; also "no request"

Config == [queue_size : Nat \ {0}, concurrency : 1..MaxConcurrency]

(* apply_config never reuses a queue object: its queue is named after it.  *)
Queue   == {FirstQueue} \cup Reloaders
Callers == Requests \cup Starters
Tasks   == Callers \cup Stoppers \cup Reloaders
Worker  == Callers \X (1..MaxConcurrency)   \* <<the start that created it, n>>

ASSUME ServiceAssumption ==
  /\ MaxConcurrency \in Nat \ {0}
  /\ InitConfig \in Config
  /\ ConfigOf \in [Reloaders -> Config]
  /\ Sentinel \notin Requests
  /\ FirstQueue \notin Reloaders
  /\ Requests \cap (Starters \cup Stoppers \cup Reloaders) = {}
  /\ Starters \cap (Stoppers \cup Reloaders) = {}
  /\ Stoppers \cap Reloaders = {}

VARIABLES
  running, cur, config, wlist, gauge,  \* _running, _queue, config, _workers, _queue_gauge
  items, maxsize, unfinished,          \* of every queue object
  pc, at, sent, gathered,              \* of every task: where it is, the queue its put
                                       \* waits on; of stop: turns done, tasks gathered
  wstate, wat, hand,                   \* of every worker: its state, the queue it reads,
                                       \* the request it dispatches
  fut, calls                           \* of every request: its future; history: how often
                                       \* the manager was asked to dispatch it

svc     == <<running, config, wlist>>
queues  == <<gauge, items, maxsize, unfinished>>
stops   == <<sent, gathered>>
workers == <<wstate, wat, hand>>
vars    == <<svc, cur, queues, pc, at, stops, workers, fut, calls>>

Ended   == {"done", "raised", "cancelled"}
Steps   == {"idle", "locking", "reloading", "putting", "waiting",
            "sentinel", "joining", "applying"} \cup Ended
WStates == {"unborn", "spawned", "getting", "busy", "exited", "crashed"}
Futures == {"none", "pending", "result", "error", "cancelled"}

TypeOK ==
  /\ running \in BOOLEAN
  /\ cur \in Queue
  /\ config \in Config
  /\ wlist \in Seq(Worker)
  /\ gauge \in Nat
  /\ items \in [Queue -> Seq(Requests \cup {Sentinel})]
  /\ maxsize \in [Queue -> Nat]
  /\ unfinished \in [Queue -> Nat]
  /\ pc \in [Tasks -> Steps]
  /\ at \in [Tasks -> Queue]
  /\ sent \in [Stoppers -> Nat]
  /\ gathered \in [Stoppers -> SUBSET Worker]
  /\ wstate \in [Worker -> WStates]
  /\ wat \in [Worker -> Queue]
  /\ hand \in [Worker -> Requests \cup {Sentinel}]
  /\ fut \in [Requests -> Futures]
  /\ calls \in [Requests -> Nat]

Init ==
  /\ running = FALSE
  /\ cur = FirstQueue
  /\ config = InitConfig
  /\ wlist = <<>>
  /\ gauge = 0
  /\ items = [q \in Queue |-> <<>>]
  /\ maxsize = [q \in Queue |-> IF q = FirstQueue THEN InitConfig.queue_size
                                ELSE ConfigOf[q].queue_size]
  /\ unfinished = [q \in Queue |-> 0]
  /\ pc = [t \in Tasks |-> "idle"]
  /\ at = [t \in Tasks |-> FirstQueue]
  /\ sent = [s \in Stoppers |-> 0]
  /\ gathered = [s \in Stoppers |-> {}]
  /\ wstate = [w \in Worker |-> "unborn"]
  /\ wat = [w \in Worker |-> FirstQueue]
  /\ hand = [w \in Worker |-> Sentinel]
  /\ fut = [r \in Requests |-> "none"]
  /\ calls = [r \in Requests |-> 0]

-----------------------------------------------------------------------------
(* submit: the put into the queue, which waits while that queue is full.   *)

Full(q) == Len(items[q]) >= maxsize[q]

Enqueue(r, q) ==
  /\ items' = [items EXCEPT ![q] = Append(@, r)]
  /\ unfinished' = [unfinished EXCEPT ![q] = @ + 1]
  /\ gauge' = Len(items'[cur])
  /\ fut' = [fut EXCEPT ![r] = "pending"]
  /\ pc' = [pc EXCEPT ![r] = "waiting"]
  /\ UNCHANGED <<cur, maxsize, at, stops, wat, hand, calls>>

(* A task moves to step p and nothing but pc changes (and wstate, svc).    *)
Goto(t, p) ==
  /\ pc' = [pc EXCEPT ![t] = p]
  /\ UNCHANGED <<cur, queues, at, stops, wat, hand, fut, calls>>

Put(r) ==
  \/ ~Full(cur) /\ Enqueue(r, cur)
  \/ /\ Full(cur)
     /\ pc' = [pc EXCEPT ![r] = "putting"]
     /\ at' = [at EXCEPT ![r] = cur]
     /\ UNCHANGED <<cur, queues, stops, wat, hand, fut, calls>>

PutResumes(r) ==
  /\ pc[r] = "putting"
  /\ ~Full(at[r])
  /\ Enqueue(r, at[r])
  /\ UNCHANGED <<svc, wstate>>

Return(r) ==
  /\ pc[r] = "waiting"
  /\ \/ fut[r] = "result" /\ Goto(r, "done")
     \/ fut[r] = "error" /\ Goto(r, "raised")
  /\ UNCHANGED <<svc, wstate>>

(* The awaiting caller is cancelled; the future it awaits goes with it.    *)
Cancel(r) ==
  /\ pc[r] \in {"locking", "reloading", "putting", "waiting"}
  /\ pc' = [pc EXCEPT ![r] = "cancelled"]
  /\ fut' = [fut EXCEPT ![r] = IF @ = "pending" THEN "cancelled" ELSE @]
  /\ UNCHANGED <<svc, cur, queues, at, stops, workers, calls>>

-----------------------------------------------------------------------------
(* start, called on its own or by a submit that finds the service stopped. *)

(* After start: a submit goes on to its put, a plain start returns.        *)
Proceed(t) ==
  \/ t \in Requests /\ Put(t)
  \/ t \in Starters /\ Goto(t, "done")

Acquired(t) ==
  \/ running /\ Proceed(t)
  \/ ~running /\ Goto(t, "reloading")

(* _start_lock is held by the start that reloads; with others in line for  *)
(* it a newcomer queues up behind them even if it is free.                 *)
Contended == \E t \in Callers : pc[t] \in {"locking", "reloading"}

Call(t) ==
  /\ pc[t] = "idle"
  /\ \/ t \in Requests /\ running /\ Put(t)
     \/ /\ t \in Starters \/ ~running
        /\ \/ ~Contended /\ Acquired(t)
           \/ Contended /\ Goto(t, "locking")
  /\ UNCHANGED <<svc, wstate>>

LockAcquired(t) ==
  /\ pc[t] = "locking"
  /\ \A u \in Callers : pc[u] # "reloading"
  /\ Acquired(t)
  /\ UNCHANGED <<svc, wstate>>

(* Mutant: one worker too many.                                            *)
OneWorkerTooMany(t) ==
  /\ pc[t] = "reloading"
  /\ running' = TRUE
  /\ wlist' = wlist \o [n \in 1..(config.concurrency + 1) |-> <<t, n>>]
  /\ wstate' = [w \in Worker |-> IF w[1] = t THEN "spawned" ELSE wstate[w]]
  /\ Proceed(t)
  /\ UNCHANGED config

(* The reload is over: the workers are created, the lock is released.      *)
ReloadDone(t) ==
  /\ pc[t] = "reloading"
  /\ running' = TRUE
  /\ wlist' = wlist \o [n \in 1..config.concurrency |-> <<t, n>>]
  /\ wstate' = [w \in Worker |-> IF w[1] = t /\ w[2] <= config.concurrency
                                 THEN "spawned" ELSE wstate[w]]
  /\ Proceed(t)
  /\ UNCHANGED config

ReloadFails(t) ==
  /\ pc[t] = "reloading"
  /\ Goto(t, "raised")
  /\ UNCHANGED <<svc, wstate>>

-----------------------------------------------------------------------------
(* _worker_loop.  uf is `unfinished` as the step has left it so far.       *)

(* `await queue.get()` on queue q and, if it yields something, what the    *)
(* loop does with it before the next await that suspends.  task_done is    *)
(* called on the service's queue of the moment, which need not be q, and   *)
(* raises (ending the worker) when that queue expects no more of them.     *)
Get(w, q, uf) ==
  /\ wat' = [wat EXCEPT ![w] = q]
  /\ \/ /\ items[q] = <<>>
        /\ wstate' = [wstate EXCEPT ![w] = "getting"]
        /\ hand' = [hand EXCEPT ![w] = Sentinel]
        /\ unfinished' = uf
        /\ UNCHANGED <<items, calls>>
     \/ /\ items[q] # <<>>
        /\ items' = [items EXCEPT ![q] = Tail(@)]
        /\ hand' = [hand EXCEPT ![w] = Head(items[q])]
        /\ \/ /\ Head(items[q]) \in Requests
              /\ wstate' = [wstate EXCEPT ![w] = "busy"]
              /\ calls' = [calls EXCEPT ![Head(items[q])] = @ + 1]
              /\ unfinished' = uf
           \/ /\ Head(items[q]) = Sentinel
              /\ wstate' = [wstate EXCEPT ![w] = IF uf[cur] = 0 THEN "crashed"
                                                 ELSE "exited"]
              /\ unfinished' = [uf EXCEPT ![cur] = IF @ = 0 THEN 0 ELSE @ - 1]
              /\ UNCHANGED calls
  /\ UNCHANGED <<svc, cur, maxsize, pc, at, stops>>

WorkerStarts(w) == wstate[w] = "spawned" /\ Get(w, cur, unfinished) /\ UNCHANGED <<gauge, fut>>

WorkerWakes(w) ==
  /\ wstate[w] = "getting"
  /\ items[wat[w]] # <<>>
  /\ Get(w, wat[w], unfinished)
  /\ UNCHANGED <<gauge, fut>>

(* Mutants: the reply overwrites a cancellation; a failure is not told.    *)
SettleAlways(r, outcome) == fut' = [fut EXCEPT ![r] = outcome]
SettleResultsOnly(r, outcome) ==
  fut' = [fut EXCEPT ![r] = IF @ = "pending" /\ outcome = "result" THEN outcome ELSE @]

(* dispatch returned or raised.  A future that is done is left alone.      *)
Settle(r, outcome) == fut' = [fut EXCEPT ![r] = IF @ = "pending" THEN outcome ELSE @]

WorkerFinishes(w, outcome) ==
  /\ wstate[w] = "busy"
  /\ Settle(hand[w], outcome)
  /\ \/ /\ unfinished[cur] > 0
        /\ gauge' = Len(items[cur])
        /\ Get(w, cur, [unfinished EXCEPT ![cur] = @ - 1])
     \/ /\ unfinished[cur] = 0
        /\ wstate' = [wstate EXCEPT ![w] = "crashed"]
        /\ hand' = [hand EXCEPT ![w] = Sentinel]
        /\ UNCHANGED <<svc, cur, queues, pc, at, stops, wat, calls>>

-----------------------------------------------------------------------------
(* stop.  It iterates over the live list _workers: the n-th turn happens   *)
(* if the list then has an n-th member.                                    *)

(* Turns of the loop from the k-th on, until a put finds the queue full or *)
(* the list is exhausted; its and uf are `items` and `unfinished` so far.  *)
PutSentinels(s, k, its, uf) ==
  LET room  == maxsize[cur] - Len(its[cur])
      turns == Len(wlist) - k
      n     == IF turns < room THEN turns ELSE room
      m     == IF n < 0 THEN 0 ELSE n
  IN  /\ items' = [its EXCEPT ![cur] = @ \o [i \in 1..m |-> Sentinel]]
      /\ unfinished' = [uf EXCEPT ![cur] = @ + m]
      /\ sent' = [sent EXCEPT ![s] = k + m]
      /\ at' = [at EXCEPT ![s] = cur]
      /\ \/ /\ m < turns
            /\ pc' = [pc EXCEPT ![s] = "sentinel"]
            /\ UNCHANGED gathered
         \/ /\ m >= turns
            /\ pc' = [pc EXCEPT ![s] = "joining"]
            /\ gathered' = [gathered EXCEPT ![s] = {wlist[i] : i \in 1..Len(wlist)}]

StopCalled(s) ==
  /\ pc[s] = "idle"
  /\ \/ ~running /\ Goto(s, "done") /\ UNCHANGED <<running, wstate>>
     \/ /\ running
        /\ running' = FALSE
        /\ PutSentinels(s, 0, items, unfinished)
        /\ UNCHANGED <<cur, gauge, maxsize, workers, fut, calls>>
  /\ UNCHANGED <<config, wlist>>

(* Mutant: the turn whose put had to wait is not counted.                  *)
ResumeUncounted(s) ==
  /\ pc[s] = "sentinel"
  /\ ~Full(at[s])
  /\ PutSentinels(s, sent[s], [items EXCEPT ![at[s]] = Append(@, Sentinel)],
                  [unfinished EXCEPT ![at[s]] = @ + 1])
  /\ UNCHANGED <<svc, cur, gauge, maxsize, workers, fut, calls>>

SentinelResumes(s) ==
  /\ pc[s] = "sentinel"
  /\ ~Full(at[s])
  /\ PutSentinels(s, sent[s] + 1, [items EXCEPT ![at[s]] = Append(@, Sentinel)],
                  [unfinished EXCEPT ![at[s]] = @ + 1])
  /\ UNCHANGED <<svc, cur, gauge, maxsize, workers, fut, calls>>

(* Mutants: stop does not wait for the workers; it keeps them in its list. *)
StopWithoutGather(s) ==
  /\ pc[s] = "joining"
  /\ wlist' = <<>>
  /\ Goto(s, "done")
  /\ UNCHANGED <<running, config, wstate>>
StopWithoutClear(s) ==
  /\ pc[s] = "joining"
  /\ \A w \in gathered[s] : wstate[w] \in {"exited", "crashed"}
  /\ Goto(s, "done")
  /\ UNCHANGED <<svc, wstate>>

StopJoined(s) ==
  /\ pc[s] = "joining"
  /\ \A w \in gathered[s] : wstate[w] \in {"exited", "crashed"}
  /\ wlist' = <<>>
  /\ Goto(s, "done")
  /\ UNCHANGED <<running, config, wstate>>

-----------------------------------------------------------------------------
(* apply_config.                                                           *)

ApplyCalled(a) ==
  /\ pc[a] = "idle"
  /\ config' = ConfigOf[a]
  /\ Goto(a, "applying")
  /\ UNCHANGED <<running, wlist, wstate>>

ApplyFails(a) == pc[a] = "applying" /\ Goto(a, "raised") /\ UNCHANGED <<svc, wstate>>

ApplyIdle(a) ==
  /\ pc[a] = "applying" /\ ~running
  /\ cur' = a
  /\ pc' = [pc EXCEPT ![a] = "done"]
  /\ UNCHANGED <<svc, queues, at, stops, workers, fut, calls>>

(* Running: the items move from the old queue to the new one while the new *)
(* one has room and the old one expects a task_done for each.              *)
Movable(a) == IF maxsize[a] < unfinished[cur] THEN maxsize[a] ELSE unfinished[cur]

(* Mutant: the items are copied to the new queue but stay in the old one.  *)
SwapCopies(a) ==
  /\ pc[a] = "applying" /\ running
  /\ Len(items[cur]) <= Movable(a)
  /\ cur' = a
  /\ items' = [items EXCEPT ![a] = items[cur]]
  /\ unfinished' = [unfinished EXCEPT ![a] = Len(items[cur])]
  /\ pc' = [pc EXCEPT ![a] = "done"]
  /\ UNCHANGED <<svc, gauge, maxsize, at, stops, workers, fut, calls>>

ApplySwaps(a) ==
  /\ pc[a] = "applying" /\ running
  /\ Len(items[cur]) <= Movable(a)
  /\ cur' = a
  /\ items' = [items EXCEPT ![a] = items[cur], ![cur] = <<>>]
  /\ unfinished' = [unfinished EXCEPT ![a] = Len(items[cur]), ![cur] = @ - Len(items[cur])]
  /\ pc' = [pc EXCEPT ![a] = "done"]
  /\ UNCHANGED <<svc, gauge, maxsize, at, stops, workers, fut, calls>>

(* Otherwise the item after those moves raises out of the loop: it and all *)
(* the moved ones are gone with the new queue, the old queue stays.        *)
ApplyDrops(a) ==
  LET n == Movable(a) + 1
  IN  /\ pc[a] = "applying" /\ running
      /\ Len(items[cur]) >= n
      /\ items' = [items EXCEPT ![cur] = SubSeq(@, n + 1, Len(@))]
      /\ unfinished' = [unfinished EXCEPT ![cur] = IF @ < n THEN 0 ELSE @ - n]
      /\ pc' = [pc EXCEPT ![a] = "raised"]
      /\ UNCHANGED <<svc, cur, gauge, maxsize, at, stops, workers, fut, calls>>

-----------------------------------------------------------------------------
CallerNext(t)   == Call(t) \/ LockAcquired(t) \/ ReloadDone(t) \/ ReloadFails(t)
RequestNext(r)  == PutResumes(r) \/ Return(r) \/ Cancel(r)
WorkerNext(w)   == \/ WorkerStarts(w) \/ WorkerWakes(w)
                   \/ \E o \in {"result", "error"} : WorkerFinishes(w, o)
StopperNext(s)  == StopCalled(s) \/ SentinelResumes(s) \/ StopJoined(s)
ApplyEnds(a)    == ApplyFails(a) \/ ApplyIdle(a) \/ ApplySwaps(a) \/ ApplyDrops(a)

Next ==
  \/ \E t \in Callers : CallerNext(t)
  \/ \E r \in Requests : RequestNext(r)
  \/ \E w \in Worker : WorkerNext(w)
  \/ \E s \in Stoppers : StopperNext(s)
  \/ \E a \in Reloaders : ApplyCalled(a) \/ ApplyEnds(a)

SafeSpec == Init /\ [][Next]_vars

(* The event loop runs every ready callback, and the awaits that leave the *)
(* module (reload, dispatch) end: the adapters' HTTP calls have timeouts.  *)
(* Nobody has to make a call, nor to cancel one.                           *)
Fairness ==
  /\ \A t \in Callers : WF_vars(LockAcquired(t)) /\ WF_vars(ReloadDone(t) \/ ReloadFails(t))
  /\ \A r \in Requests : WF_vars(PutResumes(r)) /\ WF_vars(Return(r))
  /\ \A w \in Worker : WF_vars(WorkerNext(w))
  /\ \A s \in Stoppers : WF_vars(SentinelResumes(s)) /\ WF_vars(StopJoined(s))
  /\ \A a \in Reloaders : WF_vars(ApplyEnds(a))

Spec == SafeSpec /\ Fairness

-----------------------------------------------------------------------------
(* Properties.                                                             *)

Queued(r) == \E q \in Queue : \E i \in 1..Len(items[q]) : items[q][i] = r

(* However calls, reloads and hot swaps interleave, a request is in one    *)
(* slot of one queue or in the hand of one worker, never in two places     *)
(* (service.py:75-83 moves requests, 91 takes them).                       *)
OnePlace ==
  /\ \A p, q \in Queue : \A i \in 1..Len(items[p]), j \in 1..Len(items[q]) :
       items[p][i] = items[q][j] /\ items[p][i] \in Requests => p = q /\ i = j
  /\ \A v, w \in Worker : hand[v] = hand[w] /\ hand[v] \in Requests => v = w
  /\ \A w \in Worker : hand[w] \in Requests => ~Queued(hand[w])

(* The manager is asked to dispatch a request at most once, and never one  *)
(* that is still in a queue (service.py:91-96).                            *)
DispatchedOnce ==
  \A r \in Requests : calls[r] <= 1 /\ (Queued(r) => calls[r] = 0)

(* Every submit ends: it returns, raises or is cancelled (service.py:63).  *)
EverySubmitEnds ==
  \A r \in Requests : pc[r] # "idle" ~> pc[r] \in Ended
=============================================================================
