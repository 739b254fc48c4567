# Verification of the QR automation platform

TLA+ models of the concurrent parts of `qr_automation` (Python, asyncio), their
TLC configurations, and theorems about them checked by TLAPS.  Line numbers
refer to the sources under `src/`.

## 1. The system

```
 HTTP / WebSocket client                       pipe / TCP client
          |                                           |
   chat/server.py ---- storage, audit log     Windows agent (C#)
          | submit                                    | inbox.jsonl
 gateway/service.py   queue + workers         mcp/service.py   queue + loop
          | dispatch, reload_from_config              | authorize, execute
 gateway/manager.py   registry of adapters    mcp/dispatcher.py handlers
     |         |                                      | result, audit (thread pool)
 limits.py  cache.py                           two JSONL files
```

| component | state | operations | what is hard about it | what makes it correct |
|---|---|---|---|---|
| gateway service (`gateway/service.py`) | `_queue`, `_workers`, `_running`, `config`, `_queue_gauge`; a future per request | `start`, `stop`, `submit`, `apply_config`, `_worker_loop` | all of them are coroutines that overlap; the queue object is replaced in use; callers are cancelled; a full queue makes `submit` and `stop` wait; `submit` restarts a stopped service | a request is in one place, dispatched at most once, answered once; every `submit` and `stop` ends; a stop leaves nothing behind |
| gateway manager (`gateway/manager.py`) | `_adapters` with limiter and cache of each, two counters | `register_adapter`, `unregister_adapter`, `reload_from_config`, `dispatch`, `shutdown` | adapters' `start`, `stop` and `dispatch` suspend while the registry changes; starts and implementations fail | the registry offers started adapters only, forgets none that runs, ends in the configuration asked for; a replaced adapter never answers for its successor |
| rate limiter (`gateway/limits.py`) | `_tokens`, `_last_check` | `consume` | refill and cap at odd times | no window of time sees too many grants; no token is lost |
| answer cache (`gateway/cache.py`) | ordered entries with expiry | `get`, `set`, `clear` | expiry at the boundary, LRU order | hits are the latest value and fresh, misses have a reason |
| MCP service (`mcp/service.py`, `dispatcher.py`, `security.py`) | instruction queue, `_stop`, two files; the default thread pool | `submit`, `run`, `shutdown` | a time limit gives up the wait but not the thread; appends share the pool with the commands; cancellation, failing and cut writes, death between result and audit and a new process over the same files | in each life of the process the audit log follows the results, its last line apart, and in order; effects are covered by signature, roles and dry run; every instruction is audited |
| chat server (`chat/server.py`, `storage.py`, `audit.py`) | rooms of sockets, SQLite tables, audit file | `/agents`, `/messages`, `/ws/{room}`, startup, shutdown | sockets go away during a broadcast, broadcasts interleave, store and audit are two steps | an answered post reached every socket that stayed, in an order that respects answers; what is seen is stored and audited; a stored message is submitted unless a named failure stops it |
| MCP pipeline (`AgentWorker.cs`, `Ipc/*.cs`, `iter_json_instructions`) | `inbox.jsonl`, the only state that outlives a process; connections; the memory queue | receive, verify, append; read, submit | pipe and TCP append to one file; either process ends at any time, also in the middle of an append; the file is read from its beginning after a restart | a sender that was read on from has its command in the file; records never mix; a life of the service does the file's beginning, in order, once |
| adapters (`gateway/adapters`) | an HTTP client | `start`, `stop`, `dispatch`, `cache_key` | posts overlap and outlive the adapter's registration; limiter and cache are consulted before the post, the cache is filled after it | nobody is given the answer to another question; limiter and cache may do as they do without the manager noticing |
| metrics, command line, configuration files | named values; none; none | - | - | - |

The remainder of the repository (papers, figures, installers) holds no state
of the platform.

## 2. The modules

| module | models | with |
|---|---|---|
| `GatewayService` | `gateway/service.py` | - |
| `DeliveryContract` | what `submit` promises (abstract) | - |
| `GatewayHub` | the service in a careful program, of which the chat server is one | extends `GatewayService`, instantiates `DeliveryContract` |
| `GatewayManager` | `gateway/manager.py` | - |
| `TokenBucket` | `gateway/limits.py` | - |
| `TTLCache` | `gateway/cache.py` | - |
| `AdapterGuard` | `gateway/adapters`, with limiter and cache around one adapter | extends `TokenBucket`, instantiates `TTLCache`, and `GatewayManager` as what it implements |
| `McpService` | `mcp/service.py` with `dispatcher.py` and `security.py` | - |
| `ChatHub` | `chat/server.py` with `storage.py` and `audit.py` | - |
| `AgentPipeline` | `windows_service/src`, `iter_json_instructions`, the queue of `mcp/service.py` | - |
| `GatewayServiceProofs`, `GatewayManagerProofs`, `TTLCacheProofs`, `McpServiceProofs`, `ChatHubProofs`, `AgentPipelineProofs` | theorems | extend their module |
| `GatewayHubProofs` | theorems | extends `GatewayHub` and `GatewayServiceProofs` |
| `AdapterGuardProofs` | theorems about `TokenBucket` and `AdapterGuard` | extends `AdapterGuard`, instantiates `TTLCacheProofs` |
| `MCGatewayFree`, `MCGatewayCareful`, `MCGatewaySwap`, `MCManager`, `MCGuard`, `MCMcp`, `MCChat` | instances for TLC | extend their module |

**How code becomes actions.**  asyncio is cooperative: between two awaits that
can suspend, a coroutine runs alone.  An action is therefore one such stretch,
with everything it changes.  Awaits that cannot suspend in this code (an
uncontended lock, a `put` that finds room, the metrics registry) do not split
an action.  An await of something outside the module - an adapter, a reload, a
thread - ends at any later time, with any outcome it can have.

*GatewayService.*  Each call of a public coroutine is a task with a program
counter `pc`; a task is named by the constant it belongs to (`Requests`,
`Starters`, `Stoppers`, `Reloaders`), a worker by the start that made it and a
number.  A queue object has a name, because `apply_config` replaces the object
while others hold it: `cur` is the service's attribute, `at` the object a
waiting put awaits, `wat` the one a worker awaits.  `unfinished` is the count of
`asyncio.Queue.task_done`, which raises when it would go below zero
(`service.py:82, 93, 103`).  `Call`/`LockAcquired`/`ReloadDone`/`ReloadFails`
are `start` (and the start inside `submit`); `Put`, `PutResumes`, `Return`,
`Cancel` are `submit`; `Get` is the part of the worker loop from one `get` to
the next suspension and is shared by `WorkerStarts`, `WorkerWakes` and
`WorkerFinishes`; `PutSentinels` is the loop of `stop` over the live worker
list; `ApplyIdle`, `ApplySwaps` and `ApplyDrops` are the three ends of
`apply_config`.  A put that resumes may be overtaken by one that finds room, as
in asyncio.

*GatewayHub* adds who calls what when.  `CarefulSpec` is a program that calls
`stop` and `apply_config` only when nothing else is in progress and
`apply_config` only on a stopped service.  `chat/server.py:125-132` under an
ASGI server is such a program: `apply_config` and `start` are awaited before the
first request, `stop` is called after the last.  Its `Contract` is the
refinement mapping to `DeliveryContract`: a request's `Phase` is read off its
future, its dispatch count and the workers' hands, its `Reply` off its future or
its task.

*GatewayManager.*  An adapter instance is named by the call that made it and its
adapter name.  The registry's lock is held over no await, so it is not a
variable.  `Continue` is `reload_from_config` from any point to its next
suspension: removing the names no longer configured (in any order, since the
code iterates over a set), then working through the entries.  `Create` is
`instantiate_adapter`, which may raise, and the start.  `TokenBucket` and
`TTLCache` are abstracted there: a limiter may refuse any call, a cache may have
forgotten any answer.  That this is right is checked in `AdapterGuard`.

*AdapterGuard* is the lane of one adapter: `GatewayManager.dispatch` with the
real `TokenBucket` and `TTLCache` on one clock, and the adapters' own `dispatch`
up to the post (`OpenAIAsks`, `LlamaCppAsks`, `ZapierAsks`) and after it
(`OpenAIEnds`, ...).  A message is a call of its own (`Dispatches`); `Contents`
is what a model's key is made of.  `Posted` is what of a message reaches the
other side: the webhook gets everything, so it has no key.  The refinement
`RefinesManager` maps the HTTP client to the adapter's state (`State`,
`Registry`), the calls to the manager's program counters (`Control`) and the
last value set under a key to the manager's `cache` (`Filed`); the mapped
expressions have names so that the steps can be proved about one by one.

*TokenBucket* and *TTLCache* count time in ticks.  A token has `Unit` parts of
which `Rate` flow in per tick, so every rational refill rate is covered; the
rounding of floats is left out.  The `OrderedDict` of the cache is a function
`entries` and a strict order `order` of its keys: moving a key to the end puts
all others before it.  (A sequence of keys would say the same, but the provers
cannot reason about filtering one.)  The histories `grants` and `refusals` of the
bucket, `last` and `since` of the cache exist for the properties; `since` of a
key is the set of keys used after it was.

*McpService.*  An instruction is one call of `submit`, whatever its id; `manifest`
is what was submitted: action, role, dry-run flag and whether the signature is
absent, good, bad (HMAC and the canonical bytes are abstracted to that) or `odd`:
of a type `verify` fails on, as a role that cannot be looked up (not `hashable`)
fails in `authorize`.  Nobody catches such an exception (`Trips`), and it ends
`run` with the instruction neither reported nor audited; an action that cannot be
looked up does the same and is not told apart.  An exception inside `execute` is
caught (`Unfit`, and the ends of the handlers).  `jobs` and `active` are the
default executor, used both by `_write_json` (`service.py:76`) and by
`asyncio.to_thread` (`dispatcher.py:113`).  `Begin` is the loop from `get` to its
next suspension; `Execute` is `ActionHandler.execute` with one operator per
handler class.  `Timeout` takes a job that has no thread yet out of the line
(`Withdrawn`), while one that has a thread goes on.  `Cancel` is the cancellation
of the task of `run`, `WriteFails` an exception of an append, which may leave
nothing, part of a line or a whole line behind.  `Die` is the end of the process,
perhaps with part of a line written, and `Restart` the start of the next, with a
service object, a queue and a pool of its own over the files it finds: a file is
opened to append (`service.py:80`).  What is appended after a part of a line ends
up on that line; the model keeps the two apart as records and says so with `cut`.
A service runs once in a process (`cli.py:82-84`, and each test makes its own), so
a second `run` of one object is not modelled.  `takenAt`, `resultsAt` and
`auditsAt` remember how long the histories were when each life began; a file that
is not empty when the first one begins is the second life's case.

*ChatHub.*  A post is a call of `post_message`, with `left` the sockets its
broadcast has still to serve.  Storing, auditing and copying the room's list are
one action, since none of them suspends; failures of the storage and of the log
and an end of the process between the two are actions of their own
(`PostUnstored`, `PostUnlogged`, `CrashUnlogged`).  A send suspends once, before
it hands the message over.  Sent to a connection that is no more, the message
is lost or the send raises (which of the two depends on the ASGI server).  A socket is
`gone` from when its client left until its endpoint learns of it, and `broken`
when its endpoint ended any other way: then nothing takes it out of its room.
`copied` and `earlier` are histories.  A submit ends at any time with any
outcome; what the gateway makes of it is `GatewayHub`.  Of an agent only its
being registered is kept.  A listing of messages is the set of those of the
rooms asked for, which the table has in its order.  Messages are appended in the order of `created_at`,
because the stamp and the insert are in one stretch; clocks that step back are
left out.

*AgentPipeline.*  A channel is the pipe listener or one TCP connection, a message
the n-th of its channel, of one of four kinds: no envelope, no valid signature,
a verified command Python reads, a verified one it does not (`Readable`).
`HandleEnvelopeAsync` is `Receive` up to the append and `AppendPart`/`AppendEnds`
during it; `File.AppendAllTextAsync` opens the file for itself among writers, so
a second append raises (`Held`).  An append that has begun may raise as well
(`AppendFails`: a full disk, a file some other program holds), with nothing or part of
the record in the file.  An exception ends a TCP connection, but for the pipe
the listener (`NamedPipeListener.cs:23-37` has no handler).  `AgentEnds` leaves
an append as far as it got.  A cut record has no end of line, so the next one stands
on its line; a pass ends there either way.  `ServiceStarts` begins one pass over the file into
an empty queue; the code that joins `iter_json_instructions` to `submit` is not
in the repository, `windows_service/README.md:106` only says that it fits.

## 3. What the runs check

| run | question | bounds |
|---|---|---|
| `gateway_free` | what holds however calls overlap | 2 requests, 1 stop, 2 hot swaps to queues of 1 and 2, 1 worker per start |
| `gateway_careful` | do starts, stops, restarts and reconfiguration of a quiet service leave it sound, and does it keep the contract | 2 requests, 1 start, 2 stops, 1 reconfiguration, queue size x workers 1x2 then 2x1 |
| `hot_swap_stall` | does a submit end after a hot swap | 2 requests, start, 1 hot swap - **violated** |
| `hot_swap_loss` | does a hot swap keep what is queued | 2 requests, start, 1 hot swap to a queue of 1 - **violated** |
| `manager_free` | what holds of the registry however calls overlap | 2 reloads, 1 registration, 1 shutdown, 2 dispatches, 2 names |
| `manager_serial` | what holds when lifecycle calls follow one another | 3 reloads, 1 registration, 1 shutdown, 1 dispatch, 2 names |
| `adapter_guard` | is the rate limited and no more than it should be, are answers never mixed up, is the manager's view of an adapter right | 4 dispatches, 3 of them alike (symmetric), each class of adapter, capacity 2, 2/3 token per tick, cache of 1 entry with TTL 2, 3 ticks |
| `ttl_cache` | are hits right and misses justified | 3 keys, 2 values, 2 entries, TTL 2, 4 ticks |
| `mcp_service` | order, audit, authorisation, shutdown, progress | 2 instructions, each of 11 kinds, 2 threads, 2 lives of the process |
| `chat_hub` | who sees, what is recorded, what is submitted when sockets come and go and things fail | 2 posts to a room of 2 sockets, 1 socket elsewhere, 1 fault |
| `agent_pipeline` | what gets from a sender to the loop, with ends and restarts on both sides | pipe and 1 connection, 2 messages each, 1 end of the agent, 1 failing append, 2 lives of the service |
| `mcp_hang` | do the time limits prevent a hang | 2 commands, 1 thread, 1 life - **violated** |

Why the bounds are enough: the gateway's hazards need one request in a worker's
hand, one in a queue and one waiting for room, two lives of the worker pool or
two queue objects; each occurs in one of the runs.  The manager's need an
adapter present, replaced, removed and newly added by successive
configurations.  MCP's need one command given up and still running while the
next instruction is under way, and a life that ends between a result and its audit
record, or within one of them, with another one after it.  The guard's need a refusal and two grants before
it, and a cached answer that expires or is pushed out between two alike calls.
The pipeline's need two channels that append at once, a record cut off with one
behind it, and a second pass over a file that has grown.  The chat's need two broadcasts to the same two
sockets, of which one leaves or breaks between two sends.  Every property of a passing run fails for at
least one plausible bug of the code (the operators marked *Mutant* in the
modules, each standing before the definition it would replace).

Deadlock is not checked: all programs may come to rest when the bounded calls
have been made.

**Fairness.**  `GatewayService.Fairness` is weak fairness of what the event loop
runs when it is ready: a lock that is free, a put that finds room, a future that
is done, a worker.  Reloads and dispatches end because the adapters' HTTP
clients have timeouts.  No caller has to call or cancel anything.  In
`McpService`, `LoopFair` is the loop, its timers and the writes; `CommandsFair`,
assumed only by `mcp_service`, says that a PowerShell command ends - nothing in
the code makes it (`subprocess.run` has no timeout), which is what `mcp_hang`
shows.  Nobody has to start a process again, and nothing has to fail.  `AgentPipeline.Fairness` is the reading and the loop of a service that
runs (`TakeUp` and `Finish` stand for `McpService`, where each instruction is
shown to end if commands do); nobody has to send, stop or start anything.
`ChatHub.Fairness` lets sends and submits end: the ASGI server drops a
connection that does not answer its pings, and the adapters bound a submit.

## 4. What the violated runs show

* **A hot swap stalls the service** (`service.py:83`, `README.md:15`).
  `apply_config` replaces the queue object; a worker that is idle at that moment
  awaits the old one for ever, and the next submit is put where nobody looks.
* **A hot swap loses requests** (`service.py:78`, comment at line 72).  If more
  is queued than the new `queue_size`, `put_nowait` raises `QueueFull` out of
  the loop; the requests moved so far and the one in hand are gone, while the
  comment promises existing elements priority.
* **Time limits do not prevent a hang** (`dispatcher.py:113`, `service.py:76`,
  `design/action_adapters.md:16`).  A command that is given up keeps its thread.
  Once every thread of the default pool is taken (one in the run; CPUs + 4, at
  most 32, in a process), no result can be written and the loop waits for ever.

Observed while modelling and documented as hazards, but contradicting no stated
promise: overlapping `reload_from_config` calls can leave a started adapter that
nobody can stop; overlapping `stop` and `submit` can leave the service running
without workers; `apply_config` does not change the number of workers of a
running service.  In the chat server a single connection that is no more can
make a post fail after its message was stored: the sockets behind it and the
adapter get nothing, and a caller that posts again stores a second message.  A
frame that is not JSON leaves such a connection in its room until the server is
restarted.  The gauge `gateway_queue_depth` may read 1 on an idle service: the
last dispatch before a stop sets it while the `None` of the stop is queued, and
a later `start` leaves it at that.  A worker that dispatches during a hot swap may
end with the `ValueError` of `task_done` on the new queue (`service.py:103`).  A hit of the cache costs a token of the
limiter, since the limiter is asked first (`manager.py:93-99`).

The two files of the MCP service are not kept in step over an end of the process.
If it ends, or a write fails, after a result was written and before its audit
record was (`service.py:228-229`), that record is missing for good, and the next
process appends behind the gap; so is an end in the middle of a line, on which the
next process continues.  `AuditFollowsResult` says how far this goes: one line in
each life.  A signature or a role of an unexpected type ends the loop
(`service.py:121, 156`) without a report.

Of the pipeline, where a test plan (`design/e2e_test_plan.md`) states what an
installation is to be tested for, the model shows what the code does instead:

* two clients that send at once: the second append raises and its command is
  lost, with the connection (line 16 expects no lost message; nothing in the
  code makes up for it).  `PassedIsPersisted` is what remains true;
* a restart of the Python service does everything in the file again, and only
  once within a life (`InFileOrder`); line 28 expects a file lock against
  double processing, which no code takes;
* a record that cannot be read - cut off by the end of the agent or by a failing
  append, or verified
  by the agent but without a field Python needs - ends every pass at that line;
  what is behind it is never done;
* one client of the pipe that sends garbage or hangs up early ends the pipe
  listener until the agent is started again, while TCP goes on.

## 5. What is proved

Every safety property of a passing run is a theorem: each invariant and each
action property, and the safety half of both refinements.  Fairness is not used.
The theorems hold for every value of the constants that the assumptions of the
modules allow: `ServiceAssumption`, `ManagerAssumption`, `BucketAssumption`,
`CacheAssumption`, `GuardAssumption`, `ViewAssumption`, `McpAssumption`,
`ChatAssumption`, `PipelineAssumption`.  They say what kinds of values the constants
are, that names of different kinds differ, what `config.py` validates, and of the
guard that its bound on grants leaves every dispatch one.  TLC evaluates each of
them.

Few of the properties are inductive.  What is proved is an invariant that
implies them; for each module it is given here with the reason it is needed.

### The gateway service

* `GatewayServiceProofs!TypeCorrect`, `AlwaysOnePlace`, `AlwaysDispatchedOnce`.
  Neither `OnePlace` nor `DispatchedOnce` is inductive: that a request enters a
  queue once needs that a caller puts only before it has a future; that a swap
  duplicates nothing needs that the queue it fills is fresh.  The invariant is
  `IInv == TypeOK /\ Placed /\ Handed /\ Counted /\ Fresh`: what is queued is
  queued once and has not been dispatched; what is in a hand has been dispatched
  and is in that hand only; a caller that has not yet put has no future; a queue
  object that `apply_config` has still to create is empty and unknown.  Lemmas
  about contents (`AppendPlaces`, `PadPlaces`, `DropPlaces`, `MovePlaces`) say
  what adding a request, adding `None`s, taking from the front and moving all
  items do to `Distinct`; the step lemmas apply them action by action.
* `GatewayHubProofs!ServiceKeepsContract`: every step of the service, whatever
  overlaps, is a step of `DeliveryContract` or leaves its variables alone.  The
  mapping needs more than `IInv`: `HInv == IInv /\ Busy /\ Unborn /\ Awaited` says
  that a worker holds a request exactly while it dispatches one, that a start
  makes workers that were not there, and that who has a pending future awaits it.
  `Alike` says when two states look the same to the contract for one request, so
  each step has to be looked at for one request only.
* `GatewayHubProofs!StopsAreClean`, `RunningStaysServed`, of a careful program.  A
  clean stop needs to know, all through the stop, what the queue holds: the `None`
  put so far are behind all requests or have ended a worker, and a worker that
  ended left no request (`Winding`, `Told`).  So when as many `None` were put as
  there are workers and all workers have ended, nothing is left, by counting.
  `CInv == HInv /\ PoolInv /\ TaskInv`: `PoolInv` has this and what the queue's
  count is (`Books`), which workers there are and which queue they read (`Crew`),
  how it is while the service runs and rests (`InService`, `AtRest`); `TaskInv`
  says who may be at work beside whom: a stop or a reconfiguration is alone
  (`Alone`), one start holds the lock (`Locked`), who waits for room waits for the
  queue of the moment (`Served`).

### The manager, an adapter, its limiter and its cache

* `GatewayManagerProofs!AlwaysRegisteredIsStarted`,
  `AlwaysAnswersFromOwnAdapter`, `ManagerTypeCorrect`.  That what is registered
  is started or starting says nothing of the tasks that hold adapters outside
  the registry between two awaits, so `RegistryInv` adds, per task, what it is
  starting (`Starting`), stopping (`Stopping`) and closing (`Closing`), and what
  a reload has made so far: each adapter once, in the order of the entries
  (`Made`, `Placed`).  One step of a task runs many loop iterations of
  `reload_from`; `Moves` says what such a step may do to the registry and to
  the adapters' states, it composes (`MovesCompose`), and each part of the
  reload is a lemma of its own (`RemovePart`, `CreatePart`, `StartPart`, ...).
  That other tasks keep their facts (`OthersKeep`) follows from `Moves` alone:
  an adapter that is `Gone` - it was started, failed or was stopped, and is not registered - stays
  so.  For answers, a dispatcher's adapter is the one it captured
  (`Captured`) and what the cache holds came from the adapter it is filed under
  (`CacheOwn`), whatever reloads do meanwhile.
* `GatewayManagerProofs!NeverAnOrphan`, `AlwaysOneLivePerName`, `ReloadsEstablish`,
  `ShutdownsStopAll`, of `SerialSpec`: overlapping lifecycle calls break all four.
  `SInv` adds to `IInv` that one lifecycle call is under way at a time (`Turns`);
  that an adapter that lives is registered or held by such a call (`Accounted`);
  that the names of the adapters so held are free (`Vacated`); and how far a
  reload has got: the registry agrees with the entries before the one it is at,
  and what it has still to remove is in `todo` (`Progress`).  Between two
  suspensions of the one call at work the registry is `Tidy`: the adapters that
  live are the ones it lists.  When a reload is past its last entry, `Progress` is
  `ReloadEstablishes`; when a shutdown holds nothing any more, `Accounted` is
  `ShutdownStopsAll`.
* `AdapterGuardProofs!RateIsLimited`, `BucketTypeCorrect`, of the bucket alone.
  `WindowBound` relates pairs of grants only; the induction needs `Covered`, which
  relates every grant to what the bucket holds now: the tokens left and the grants
  since are covered by a full bucket and the inflow since.
* `AdapterGuardProofs!NoTokenIsLost`: the converse bound.  It needs a witness, a time
  since which the bucket, full then, kept everything (`Lossless`): the start, or
  the last time the refill was cut off at the capacity.  A refusal then finds its
  window there.
* `AdapterGuardProofs!LaneIsLimited`, `GuardTypeCorrect`, `AlwaysSameQuestion`,
  `GuardRefinesManager`.  `GuardKeepsLimiter` shows that the limiter makes around
  the calls the steps it makes alone, so its theorems carry over; the lemmas of
  `TTLCacheProofs` are cited through an instance with messages' contents as keys.
  `GInv` adds what the calls keep (`CallsInv`) and that an entry is filed under the
  content of the message it answered (`FiledInv`), which is what makes an answer
  from the cache one to the same question.  For the refinement each action has its
  manager's action.  The manager's cache is what was last set under a key, so an
  expiry or an eviction is no step of it; it shows only in a dispatch that asks the
  adapter again, which the manager's model allows at any time.
* `TTLCacheProofs!HitsAreLatestAndFresh`, `MissesAreJustified`, `CacheTypeCorrect`.
  `IInv == TypeOK /\ Dated /\ Tracked /\ Missed`: an entry is what the last `set` of
  its key made it; of two entries one comes first just when the other was used
  since (`Tracked`), so that the first of all has seen every other one used; and
  what is not in the cache has a reason not to be.

### MCP

* `McpServiceProofs!AuditAlwaysFollowsResult`, `AlwaysReportedInOrder`,
  `EffectsAlwaysCovered`, `McpTypeCorrect`.  `Reports` and `Records` are what the
  present life has added to the two files; they are tied to each other through what is
  in the pool: `Recorded` says that while a result is on its way they agree, and while
  an audit line is, the result is there and is the only one more.  That needs that the
  loop writes one line at a time and that what is in the pool is there once
  (`OncePooled`), whoever gave up waiting.  `Reported` and `OnceTaken` follow an
  instruction through queue, loop and file, once.  `Past` keeps both properties of the
  lives before, whose parts of the files no step touches (`PartAppend`); a `Restart`
  makes the part of the life that died one of them and begins an empty one
  (`PartBegins`).  `Accounted` ties an effect,
  also one that happens after the wait for it was given up, to the checks its
  instruction passed before it entered the pool, and says of a status that denies an
  effect that none has happened nor can happen still.

### The chat server

* `ChatHubProofs!RoomsAlwaysExact`, `SeenAlwaysRecorded`, `AnsweredAlwaysReachedAll`,
  `AlwaysSeenInOrder`, `AuditAlwaysTellsOutcome`, `ChatTypeCorrect`.  `IInv` has, for
  each call, what holds of it wherever it is (`Stage`: stored and logged before a
  socket is served, its sockets each once and all accepted before, the calls before
  it answered), what the log says of its submit (`Tells`), and for each call and
  socket that the message was seen or is still to be sent, one of the two if the
  socket stayed, and never both (`Reach`).  That a socket sees two calls in their
  order follows from `Reach` and from the earlier one being answered: it has no one
  left to serve; that it sees a call once is a part of the invariant of its own.  Rooms
  and what was seen are sequences without repetition, and
  the lemmas at the beginning say what removing from and adding to such do.

### The pipeline

* `AgentPipelineProofs!PassedStaysPersisted`, `InboxStaysIntact`,
  `AlwaysInFileOrder`, `PipelineTypeCorrect`.  None of the first three is
  inductive.  `Entered` ties the file to the channels: a record is a verified
  command at or below the count of its channel, and the one being appended is
  the last and not yet whole; `OneWriter` says that one channel at most appends.
  From both, an append completes the last record or adds one (`AppendShape`),
  which is all that the order and the number of cut records (`FewTorn`, by
  cardinality) need.  A failing append turns the record in writing into a cut one
  and counts a fault for it.  `Untaken` and `Unbegun` cover channels that begin to
  listen.  `Followed` states `InFileOrder` entry by entry, so that reading,
  taking up and finishing each move one entry; the equality of the sequences
  follows at the end (`FromFollowed`).

### Model-checked only

Liveness is out of the prover's reach and stays with TLC: that the service keeps
the whole contract, fairness included (`ContractHolds`), and that every call ends
(`EveryCallEnds`); `EveryInstructionAudited` and `ShutdownSettles` of MCP;
`ReadIsDone` of the pipeline; `StoredIsSubmitted` of the chat.  So do the three
violated runs.

## 6. What is not modelled

HTTP itself and the text of prompts and answers; `EchoAdapter`, which answers
without an await.  Reading of configuration files (`gateway/config.py`): it is
sequential, keeps no state, and what it guarantees - unique names, positive
sizes - are assumptions of the modules.  The metrics registry beyond the three
values used, argument parsing and printing of `cli.py`, HMAC and its canonical
forms on both sides (they differ: the agent serialises camel-case members in
declaration order, Python sorts snake-case keys; which signatures pass is a free
choice in both models).  Of the chat storage `export_messages`, which nobody
calls, is left out, and so is a clock that steps back, which would reorder
`ORDER BY created_at`.  Two processes of the MCP service over the same files at
once are not modelled either; they follow one another.

## 7. Plan

1. *(done)* gateway: service, contract, hub, manager, limiter, cache; MCP service.
2. *(done)* `ChatHub`.
3. *(done)* `AgentPipeline`: agent, inbox and reader with ends and restarts;
   `AdapterGuard`: adapters, limiter and cache together as an implementation of
   the manager's lane.
4. *(done)* Proofs of every safety property of the runs, and of the safety half of
   both refinements.
5. Left: what a whole composition promises beyond its parts, if the code grows one -
   the code that hands `iter_json_instructions` to `submit` is the obvious place -
   and the rounding of floats in `limits.py`, which the exact arithmetic of
   `TokenBucket` leaves out.
