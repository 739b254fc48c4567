--------------------------- MODULE GatewayManager ---------------------------
(***************************************************************************)
(* qr_automation/gateway/manager.py: the registry of adapters, the reload  *)
(* that makes it agree with a configuration while the gateway works, and   *)
(* the dispatch of a message to an adapter through rate limit and cache.   *)
(*                                                                         *)
(* One action is what a task does between two awaits that can suspend it:  *)
(* an adapter's start, stop and dispatch.  _lock is never held across such *)
(* an await, so it never makes anybody wait.                               *)
(* TokenBucket and TTLCache are abstracted: a limiter may refuse any call, *)
(* a cache may have forgotten any answer.                                  *)
(***************************************************************************)
EXTENDS Integers, Sequences, FiniteSets

CONSTANTS
  Names, AConfigs,  \* names and configurations of adapters
  Keys,             \* cache keys
  Reloads,          \* calls of reload_from_config
  Registers,        \* calls of register_adapter by a program, without a configuration
  Shutdowns,        \* calls of shutdown
  Dispatches,       \* calls of dispatch
  ConfigOf,         \* the adapters a reload's configuration lists
  None

Tasks    == Reloads \cup Registers \cup Shutdowns \cup Dispatches
Instance == (Reloads \cup Registers) \X Names   \* the call that made the adapter, its name
Contexts == Instance \cup {None}

ASSUME ManagerAssumption ==
  /\ ConfigOf \in [Reloads -> Seq([name : Names, conf : AConfigs])]
  /\ \A t \in Reloads : \A i, j \in 1..Len(ConfigOf[t]) :
       ConfigOf[t][i].name = ConfigOf[t][j].name => i = j   \* config.py:68-74
  /\ None \notin Names \cup AConfigs \cup Keys \cup Instance
  /\ Reloads \cap (Registers \cup Shutdowns \cup Dispatches) = {}
  /\ Registers \cap (Shutdowns \cup Dispatches) = {}
  /\ Shutdowns \cap Dispatches = {}

VARIABLES
  registry,   \* _adapters: the adapter of each name, or None
  state,      \* of every adapter
  pc,         \* of every task
  at,         \* of a reload or register: the adapter whose start or stop it awaits;
              \* of a dispatch: the adapter it has captured
  todo, idx,  \* of a reload: the names still to remove, the entry it is at
  closing,    \* of a shutdown: the adapters still to stop
  key, from,  \* of a dispatch: its cache key, the adapter its answer came from
  cache,      \* of every adapter: for each key, the adapter that gave the answer kept
  requests_total, errors_total

registers == <<registry, state, pc, at, todo, idx, closing>>
calls     == <<key, from, cache, requests_total, errors_total>>
vars      == <<registers, calls>>

Live  == {"starting", "started", "stopping"}
Ended == {"done", "raised", "unknown"}

TypeOK ==
  /\ registry \in [Names -> Contexts]
  /\ state \in [Instance -> Live \cup {"none", "stopped", "failed"}]
  /\ pc \in [Tasks -> {"idle", "removing", "replacing", "starting", "closing", "calling"} \cup Ended]
  /\ at \in [Tasks -> Contexts]
  /\ todo \in [Reloads -> SUBSET Names]
  /\ idx \in [Reloads -> Nat]
  /\ closing \in [Shutdowns -> SUBSET Instance]
  /\ key \in [Dispatches -> Keys \cup {None}]
  /\ from \in [Dispatches -> Contexts]
  /\ cache \in [Instance -> [Keys -> Contexts]]
  /\ requests_total \in Nat /\ errors_total \in Nat

Init ==
  /\ registry = [n \in Names |-> None]
  /\ state = [i \in Instance |-> "none"]
  /\ pc = [t \in Tasks |-> "idle"]
  /\ at = [t \in Tasks |-> None]
  /\ todo = [t \in Reloads |-> {}]
  /\ idx = [t \in Reloads |-> 1]
  /\ closing = [t \in Shutdowns |-> {}]
  /\ key = [d \in Dispatches |-> None]
  /\ from = [d \in Dispatches |-> None]
  /\ cache = [i \in Instance |-> [k \in Keys |-> None]]
  /\ requests_total = 0 /\ errors_total = 0

-----------------------------------------------------------------------------
(* reload_from_config, with register_adapter and unregister_adapter.       *)

(* The configuration an adapter was registered with.                       *)
ConfOf(i) ==
  IF i[1] \in Registers THEN None
  ELSE LET e == CHOOSE e \in {ConfigOf[i[1]][j] : j \in 1..Len(ConfigOf[i[1]])} : e.name = i[2]
       IN  e.conf

(* Mutant: an adapter of the right name will do.                           *)
SameName(e, reg) == reg[e.name] # None

UpToDate(e, reg) == reg[e.name] # None /\ ConfOf(reg[e.name]) = e.conf

(* unregister_adapter: out of the registry first, then the await of stop.  *)
Remove(t, n, step, reg, st) ==
  /\ registry' = [reg EXCEPT ![n] = None]
  /\ state' = [st EXCEPT ![reg[n]] = "stopping"]
  /\ at' = [at EXCEPT ![t] = reg[n]]
  /\ pc' = [pc EXCEPT ![t] = step]

(* instantiate_adapter, which may raise, and the await of the new adapter's *)
(* start in register_adapter.                                              *)
Create(t, n, reg, st) ==
  /\ registry' = reg
  /\ \/ pc' = [pc EXCEPT ![t] = "raised"] /\ state' = st /\ UNCHANGED at
     \/ /\ pc' = [pc EXCEPT ![t] = "starting"]
        /\ state' = [st EXCEPT ![<<t, n>>] = "starting"]
        /\ at' = [at EXCEPT ![t] = <<t, n>>]

(* Reload t goes on to its next suspension, with the names R still to      *)
(* remove and its loop over the entries at the i-th; reg and st are        *)
(* `registry` and `state` as the step has left them so far.                *)
Continue(t, R, i, reg, st) ==
  LET present == {n \in R : reg[n] # None}
      work    == {j \in i..Len(ConfigOf[t]) : ~UpToDate(ConfigOf[t][j], reg)}
  IN  \/ \E n \in present, absent \in SUBSET (R \ present) :   \* a set has any order
           /\ Remove(t, n, "removing", reg, st)
           /\ todo' = [todo EXCEPT ![t] = R \ (absent \cup {n})]
           /\ UNCHANGED idx
      \/ /\ present = {}
         /\ \E j \in work :
              /\ \A m \in work : j <= m
              /\ idx' = [idx EXCEPT ![t] = j]
              /\ LET n == ConfigOf[t][j].name
                 IN  \/ reg[n] # None /\ Remove(t, n, "replacing", reg, st)
                     \/ reg[n] = None /\ Create(t, n, reg, st)
         /\ todo' = [todo EXCEPT ![t] = {}]
      \/ /\ present = {} /\ work = {}
         /\ registry' = reg /\ state' = st
         /\ pc' = [pc EXCEPT ![t] = "done"]
         /\ UNCHANGED <<at, todo, idx>>

ReloadCalled(t) ==
  /\ pc[t] = "idle"
  /\ LET new == {ConfigOf[t][j].name : j \in 1..Len(ConfigOf[t])}
     IN  Continue(t, {n \in Names : registry[n] # None} \ new, 1, registry, state)
  /\ UNCHANGED <<closing, calls>>

(* Mutant: the successor is made while the old adapter is still stopping.  *)
RemovedUnawaited(t) ==
  /\ \/ pc[t] = "removing" /\ Continue(t, todo[t], 1, registry, [state EXCEPT ![at[t]] = "stopped"])
     \/ /\ pc[t] = "replacing"
        /\ Create(t, ConfigOf[t][idx[t]].name, registry, state)
        /\ UNCHANGED <<todo, idx>>
  /\ UNCHANGED <<closing, calls>>

(* An adapter's stop has ended; what it may raise is only logged.          *)
Removed(t) ==
  LET st == [state EXCEPT ![at[t]] = "stopped"]
  IN  /\ \/ pc[t] = "removing" /\ Continue(t, todo[t], 1, registry, st)
         \/ /\ pc[t] = "replacing"
            /\ Create(t, ConfigOf[t][idx[t]].name, registry, st)
            /\ UNCHANGED <<todo, idx>>
      /\ UNCHANGED <<closing, calls>>

(* The adapter's start has ended: register_adapter enters it, over whatever *)
(* the registry then holds under the name.                                 *)
Started(t) ==
  LET st  == [state EXCEPT ![at[t]] = "started"]
      reg == [registry EXCEPT ![at[t][2]] = at[t]]
  IN  /\ pc[t] = "starting"
      /\ \/ t \in Reloads /\ Continue(t, {}, idx[t] + 1, reg, st)
         \/ /\ t \in Registers
            /\ registry' = reg /\ state' = st
            /\ pc' = [pc EXCEPT ![t] = "done"]
            /\ UNCHANGED <<at, todo, idx>>
      /\ UNCHANGED <<closing, calls>>

StartFails(t) ==
  /\ pc[t] = "starting"
  /\ state' = [state EXCEPT ![at[t]] = "failed"]
  /\ pc' = [pc EXCEPT ![t] = "raised"]
  /\ UNCHANGED <<registry, at, todo, idx, closing, calls>>

RegisterCalled(t, n) ==
  /\ pc[t] = "idle"
  /\ pc' = [pc EXCEPT ![t] = "starting"]
  /\ state' = [state EXCEPT ![<<t, n>>] = "starting"]
  /\ at' = [at EXCEPT ![t] = <<t, n>>]
  /\ UNCHANGED <<registry, todo, idx, closing, calls>>

-----------------------------------------------------------------------------
(* shutdown: the registry is emptied at once, the stops are awaited in turn. *)

(* Mutant: the stops are begun together and nobody awaits them.            *)
CloseUnawaited(t, S, st) ==
  /\ closing' = [closing EXCEPT ![t] = {}]
  /\ pc' = [pc EXCEPT ![t] = "done"]
  /\ state' = [i \in Instance |-> IF i \in S THEN "stopping" ELSE st[i]]
  /\ UNCHANGED <<at, todo, idx, calls>>

Close(t, S, st) ==
  /\ closing' = [closing EXCEPT ![t] = S]
  /\ \/ /\ S = {} /\ pc' = [pc EXCEPT ![t] = "done"] /\ state' = st /\ UNCHANGED at
     \/ \E i \in S : /\ pc' = [pc EXCEPT ![t] = "closing"]
                     /\ state' = [st EXCEPT ![i] = "stopping"]
                     /\ at' = [at EXCEPT ![t] = i]
  /\ UNCHANGED <<todo, idx, calls>>

(* Mutants: the registry keeps what is being stopped; an empty place of    *)
(* the registry is not skipped.                                            *)
ShutdownKeepsRegistry(t) ==
  /\ pc[t] = "idle"
  /\ UNCHANGED registry
  /\ Close(t, {registry[n] : n \in Names} \ {None}, state)
ShutdownUnchecked(t) ==
  /\ pc[t] = "idle"
  /\ registry' = [n \in Names |-> None]
  /\ Close(t, {registry[n] : n \in Names}, state)

ShutdownCalled(t) ==
  /\ pc[t] = "idle"
  /\ registry' = [n \in Names |-> None]
  /\ Close(t, {registry[n] : n \in Names} \ {None}, state)

(* Mutant: what a stop raises is not caught.                               *)
ClosingRaises(t) ==
  /\ pc[t] = "closing"
  /\ \/ Close(t, closing[t] \ {at[t]}, [state EXCEPT ![at[t]] = "stopped"])
     \/ /\ pc' = [pc EXCEPT ![t] = "raised"]
        /\ state' = [state EXCEPT ![at[t]] = "stopped"]
        /\ closing' = [closing EXCEPT ![t] = {}]
        /\ UNCHANGED <<at, todo, idx, calls>>
  /\ UNCHANGED registry

ClosingStopped(t) ==
  /\ pc[t] = "closing"
  /\ Close(t, closing[t] \ {at[t]}, [state EXCEPT ![at[t]] = "stopped"])
  /\ UNCHANGED registry

-----------------------------------------------------------------------------
(* dispatch.                                                               *)
End(d, step, origin) ==
  /\ pc' = [pc EXCEPT ![d] = step]
  /\ from' = [from EXCEPT ![d] = origin]

DispatchCalled(d, n, k) ==
  LET i == registry[n]
  IN  /\ pc[d] = "idle"
      /\ \/ i = None /\ End(d, "unknown", None) /\ UNCHANGED <<at, key, requests_total, errors_total>>
         \/ /\ i # None
            /\ at' = [at EXCEPT ![d] = i]
            /\ key' = [key EXCEPT ![d] = k]
            /\ \/ \* the rate limiter refuses
                  ConfOf(i) # None /\ End(d, "raised", None) /\ errors_total' = errors_total + 1
                  /\ UNCHANGED requests_total
               \/ \* the cache has the answer
                  ConfOf(i) # None /\ k # None /\ cache[i][k] # None /\ End(d, "done", cache[i][k])
                  /\ requests_total' = requests_total + 1 /\ UNCHANGED errors_total
               \/ \* the adapter is asked
                  pc' = [pc EXCEPT ![d] = "calling"]
                  /\ UNCHANGED <<from, requests_total, errors_total>>
      /\ UNCHANGED <<registry, state, todo, idx, closing, cache>>

(* Where an answer is kept: in the cache of the captured adapter, not of   *)
(* the one (the mutant's) the registry names by then.                      *)
FillCurrent(d) == registry[at[d][2]]
FillTarget(d)  == at[d]

AdapterAnswers(d) ==
  /\ pc[d] = "calling"
  /\ \/ /\ End(d, "done", at[d])
        /\ cache' = IF ConfOf(at[d]) # None /\ key[d] # None /\ FillTarget(d) # None
                    THEN [cache EXCEPT ![FillTarget(d)][key[d]] = at[d]] ELSE cache
        /\ requests_total' = requests_total + 1 /\ UNCHANGED errors_total
     \/ \* it has no answer
        End(d, "done", None) /\ requests_total' = requests_total + 1 /\ UNCHANGED <<errors_total, cache>>
     \/ \* it raises
        End(d, "raised", None) /\ errors_total' = errors_total + 1 /\ UNCHANGED <<requests_total, cache>>
  /\ UNCHANGED <<registry, state, at, todo, idx, closing, key>>

-----------------------------------------------------------------------------
Next ==
  \/ \E t \in Reloads : ReloadCalled(t) \/ Removed(t)
  \/ \E t \in Registers, n \in Names : RegisterCalled(t, n)
  \/ \E t \in Reloads \cup Registers : Started(t) \/ StartFails(t)
  \/ \E t \in Shutdowns : ShutdownCalled(t) \/ ClosingStopped(t)
  \/ \E d \in Dispatches, n \in Names, k \in Keys \cup {None} : DispatchCalled(d, n, k)
  \/ \E d \in Dispatches : AdapterAnswers(d)

Spec == Init /\ [][Next]_vars

(* The callers in this repository: the chat server's startup awaits one    *)
(* reload after the other, the CLI awaits reload, dispatch and shutdown.   *)
(* Programs that register adapters themselves do so under a free name.     *)
Lifecycle == Reloads \cup Registers \cup Shutdowns
SerialNext ==
  /\ Next
  /\ \A t \in Lifecycle : pc[t] = "idle" /\ pc'[t] # "idle" =>
       \A u \in Lifecycle \ {t} : pc[u] \in Ended \cup {"idle"}
  /\ \A t \in Registers : pc[t] = "idle" /\ pc'[t] # "idle" => registry[at'[t][2]] = None
SerialSpec == Init /\ [][SerialNext]_vars

-----------------------------------------------------------------------------
(* Whatever overlaps, an adapter the registry offers has been started and  *)
(* its stop has not been called (manager.py:65-71, 79-83).                 *)
RegisteredIsStarted ==
  \A n \in Names : registry[n] # None => registry[n][2] = n /\ state[registry[n]] = "started"

(* A dispatch that returns an answer returns one of the adapter that was   *)
(* registered when it was called: an adapter that a hot swap has replaced  *)
(* never answers, through the cache, for its successor (manager.py:88-110).*)
AnswersFromOwnAdapter ==
  \A d \in Dispatches : pc[d] = "done" => from[d] \in {at[d], None}

(* An adapter that runs is registered, or a shutdown is about to stop it:  *)
(* no connection is left open that nobody can close (manager.py:134-139,   *)
(* 150-162).                                                               *)
NoOrphan ==
  \A i \in Instance : state[i] = "started" =>
    registry[i[2]] = i \/ \E t \in Shutdowns : i \in closing[t]

(* Two adapters of one name never run side by side (manager.py:159-162).   *)
OneLivePerName ==
  \A i, j \in Instance : i[2] = j[2] /\ state[i] \in Live /\ state[j] \in Live => i = j

(* A reload that returns leaves the registry with exactly the configured   *)
(* adapters, under their configurations (manager.py:143-162).              *)
ReloadEstablishes ==
  [][\A t \in Reloads : pc[t] # "done" /\ pc'[t] = "done" =>
       \A n \in Names : IF \E j \in 1..Len(ConfigOf[t]) : ConfigOf[t][j].name = n
                        THEN \E j \in 1..Len(ConfigOf[t]) :
                               /\ ConfigOf[t][j].name = n
                               /\ registry'[n] # None
                               /\ ConfOf(registry'[n]) = ConfigOf[t][j].conf
                        ELSE registry'[n] = None]_vars

(* After shutdown no adapter runs (manager.py:131-141).                    *)
ShutdownStopsAll ==
  [][\A t \in Shutdowns : pc[t] # "done" /\ pc'[t] = "done" =>
       \A i \in Instance : state'[i] \notin Live]_vars
=============================================================================
