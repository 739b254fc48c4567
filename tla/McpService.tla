----------------------------- MODULE McpService -----------------------------
(***************************************************************************)
(* qr_automation/mcp: the loop of MCPService.run, which takes instructions *)
(* from a queue in memory, verifies, authorises and executes each under a  *)
(* time limit, and appends its result and its audit record to two files.   *)
(*                                                                         *)
(* The loop is a coroutine; appending to a file and running a PowerShell   *)
(* command are jobs of the event loop's one default thread pool.  One      *)
(* action is what the loop does between two awaits that suspend it, or the *)
(* start or the end of a job in the pool.                                  *)
(*                                                                         *)
(* The service runs once in the life of a process (cli.py:82-84).  A       *)
(* process that has come to its end may be followed by another one, which  *)
(* appends to the files it finds; the queue is lost.  An instruction of    *)
(* the model is one call of submit.                                        *)
(***************************************************************************)
EXTENDS Integers, FiniteSets, SequencesExt

CONSTANTS
  Instructions,
  Kinds,      \* what an instruction may be: see ManifestType
  Handlers,   \* what _handlers holds for each action: see HandlerType, or None
  Policy,     \* role_policy: for each role the set of its actions, or None
  Validator,  \* signature_validator: "required" or "optional" signatures, or None
  DryRun,     \* the service's own dry_run
  PoolSize,   \* threads of the default executor
  MaxLives,   \* bound: processes that run the service one after the other
  None

Actions      == DOMAIN Handlers
ManifestType == [action : Actions, role : STRING, dry_run : BOOLEAN,
                 signature : {"none", "good", "bad", "odd"},  \* odd: verify fails on its type
                 hashable : BOOLEAN]                          \* its role can be looked up
Classes      == {"Logging", "PowerShell", "BrowserAutomation", "Registry"}
HandlerType  == [roles : SUBSET STRING, dry : BOOLEAN, class : Classes]

ASSUME McpAssumption ==
  /\ \A k \in Kinds : k \in ManifestType
  /\ \A a \in Actions : Handlers[a] # None =>
       Handlers[a].dry \in BOOLEAN /\ Handlers[a].class \in Classes
  /\ Validator \in {"required", "optional", None}
  /\ DryRun \in BOOLEAN
  /\ PoolSize \in Nat \ {0} /\ MaxLives \in Nat \ {0}
  /\ None \notin Instructions /\ None \notin Kinds

VARIABLES
  manifest,  \* of every instruction: what it is, or None before it is submitted
  queue,     \* the MemoryInstructionQueue
  stop,      \* _stop
  pc,        \* where the loop is
  cur,       \* the instruction it works on
  status,    \* the status of its result
  jobs,      \* the pool: jobs in line,
  active,    \*   and jobs that have a thread
  results, audits,  \* the files: sequences of <<instruction, status or "cut">>
  effect,    \* of every instruction: whether its action has begun, has ended
  taken,     \* history: the instructions taken from the queue, in order
  late,      \* history: how many of them after shutdown was called
  takenAt, resultsAt, auditsAt  \* history: how long these were as each life began

loop  == <<pc, cur, status>>
pool  == <<jobs, active>>
files == <<results, audits>>
lives == <<takenAt, resultsAt, auditsAt>>
vars  == <<manifest, queue, stop, loop, pool, files, effect, taken, late, lives>>

Job      == {"command", "result", "audit"} \X Instructions
Statuses == {"invalid-signature", "unhandled", "forbidden", "dry-run", "rejected",
             "skipped", "logged", "ok", "failed", "error", "timeout"}
Lines    == Instructions \X (Statuses \cup {"cut"})
Down     == {"ended", "cancelled", "raised", "dead"}

(* b cuts s into the parts that were added in one life after the other.    *)
Cuts(b, s) ==
  /\ b \in Seq(Nat) /\ b # <<>>
  /\ \A L \in 1..Len(b) : b[L] <= Len(s) /\ (L > 1 => b[L - 1] <= b[L])

Part(s, b, L) == SubSeq(s, b[L] + 1, IF L = Len(b) THEN Len(s) ELSE b[L + 1])

TypeOK ==
  /\ manifest \in [Instructions -> Kinds \cup {None}]
  /\ queue \in Seq(Instructions)
  /\ stop \in BOOLEAN
  /\ pc \in {"getting", "executing", "waiting", "result", "audit"} \cup Down
  /\ cur \in Instructions \cup {None}
  /\ status \in Statuses \cup {None}
  /\ jobs \in Seq(Job) /\ active \subseteq Job
  /\ results \in Seq(Lines) /\ audits \in Seq(Lines)
  /\ effect \in [Instructions -> {"none", "begun", "ended"}]
  /\ taken \in Seq(Instructions) /\ late \in Nat
  /\ Cuts(takenAt, taken) /\ Cuts(resultsAt, results) /\ Cuts(auditsAt, audits)
  /\ Len(takenAt) = Len(resultsAt) /\ Len(takenAt) = Len(auditsAt)

Init ==
  /\ manifest = [i \in Instructions |-> None]
  /\ queue = <<>> /\ stop = FALSE
  /\ pc = "getting" /\ cur = None /\ status = None
  /\ jobs = <<>> /\ active = {}
  /\ results = <<>> /\ audits = <<>>
  /\ effect = [i \in Instructions |-> "none"]
  /\ taken = <<>> /\ late = 0
  /\ takenAt = <<0>> /\ resultsAt = <<0>> /\ auditsAt = <<0>>

-----------------------------------------------------------------------------
Submit(i, k) ==
  /\ manifest[i] = None /\ pc # "dead"
  /\ manifest' = [manifest EXCEPT ![i] = k]
  /\ queue' = Append(queue, i)
  /\ UNCHANGED <<stop, loop, pool, files, effect, taken, late, lives>>

Shutdown ==
  /\ ~stop /\ pc # "dead"
  /\ stop' = TRUE
  /\ UNCHANGED <<manifest, queue, loop, pool, files, effect, taken, late, lives>>

-----------------------------------------------------------------------------
(* What is asked of an instruction before it is executed.                  *)

(* SignatureValidator.verify raises.                                       *)
BadSignature(k) ==
  \/ Validator # None /\ k.signature = "bad"
  \/ Validator = "required" /\ k.signature = "none"

(* verify or authorize raises what run does not catch: a signature or a    *)
(* role of a type that cannot be compared or looked up.                    *)
Trips(k) ==
  \/ Validator # None /\ k.signature = "odd"
  \/ /\ ~BadSignature(k) /\ Handlers[k.action] # None /\ ~k.hashable
     /\ Policy # None \/ "*" \notin Handlers[k.action].roles

Grants(actions, a) == "*" \in actions \/ a \in actions

(* Mutant: either of the two whitelists suffices.                          *)
MayOneOf(k) ==
  \/ Policy = None
  \/ k.role \in DOMAIN Policy /\ Grants(Policy[k.role], k.action)
  \/ Grants(Handlers[k.action].roles, k.role)

(* The role policy, if there is one, and the handler's own whitelist.      *)
May(k) ==
  /\ Policy # None => k.role \in DOMAIN Policy /\ Grants(Policy[k.role], k.action)
  /\ Grants(Handlers[k.action].roles, k.role)

-----------------------------------------------------------------------------
(* The loop takes an instruction.  It comes to its next suspension in the  *)
(* write of the result, or in wait_for on the handler, unless it ends with *)
(* an exception nobody catches.                                            *)

(* Mutant: the branch of a refused role builds no result.                  *)
ReportUnset(i, s, js) ==
  /\ pc' = "result" /\ status' = (IF s = "forbidden" THEN status ELSE s) /\ cur' = i
  /\ jobs' = Append(js, <<"result", i>>)

Report(i, s, js) ==
  /\ pc' = "result" /\ status' = s /\ cur' = i
  /\ jobs' = Append(js, <<"result", i>>)

Begin(i) ==
  LET k == manifest[i]
  IN  /\ queue' = Tail(queue)
      /\ taken' = Append(taken, i)
      /\ late' = IF stop THEN late + 1 ELSE late
      /\ \/ Trips(k) /\ pc' = "raised" /\ cur' = i /\ UNCHANGED <<status, jobs>>
         \/ BadSignature(k) /\ Report(i, "invalid-signature", jobs)
         \/ ~Trips(k) /\ ~BadSignature(k) /\ Handlers[k.action] = None /\ Report(i, "unhandled", jobs)
         \/ /\ ~Trips(k) /\ ~BadSignature(k) /\ Handlers[k.action] # None
            /\ \/ ~May(k) /\ Report(i, "forbidden", jobs)
               \/ /\ May(k)
                  /\ pc' = "executing" /\ cur' = i
                  /\ UNCHANGED <<status, jobs>>

Wake ==
  /\ pc = "getting" /\ queue # <<>>
  /\ Begin(Head(queue))
  /\ UNCHANGED <<manifest, stop, active, files, effect, lives>>

(* The top of the loop after an instruction is finished with.              *)
LoopOn ==
  \/ stop /\ pc' = "ended" /\ UNCHANGED <<queue, cur, status, jobs, taken, late>>
  \/ ~stop /\ queue # <<>> /\ Begin(Head(queue))
  \/ /\ ~stop /\ queue = <<>>
     /\ pc' = "getting"
     /\ UNCHANGED <<queue, cur, status, jobs, taken, late>>

-----------------------------------------------------------------------------
(* handler.execute.  A time limit or a payload of an unexpected type is an *)
(* error, before anything is begun.                                        *)
Rest == <<manifest, queue, stop, active, files, taken, late, lives>>

Unfit == Report(cur, "error", jobs) /\ UNCHANGED effect

DryRunAnswer(h) == Report(cur, IF h.dry THEN "dry-run" ELSE "rejected", jobs) /\ UNCHANGED effect

LoggingRuns == Report(cur, "logged", jobs) /\ effect' = [effect EXCEPT ![cur] = "ended"]

(* Not on Windows; no path; root or operation not allowed; read or written *)
(* without an await.                                                       *)
RegistryRuns ==
  \/ \E s \in {"skipped", "failed", "rejected"} : Report(cur, s, jobs) /\ UNCHANGED effect
  \/ Report(cur, "ok", jobs) /\ effect' = [effect EXCEPT ![cur] = "ended"]

(* No URL; no playwright; otherwise a coroutine that awaits the browser.   *)
BrowserRuns ==
  \/ \E s \in {"failed", "skipped"} : Report(cur, s, jobs) /\ UNCHANGED effect
  \/ /\ pc' = "waiting"
     /\ effect' = [effect EXCEPT ![cur] = "begun"]
     /\ UNCHANGED <<cur, status, jobs>>

(* Not on Windows; no script; a blocked word; otherwise a job of the pool. *)
PowerShellRuns ==
  \/ \E s \in {"skipped", "failed", "rejected"} : Report(cur, s, jobs) /\ UNCHANGED effect
  \/ /\ pc' = "waiting"
     /\ jobs' = Append(jobs, <<"command", cur>>)
     /\ UNCHANGED <<cur, status, effect>>

Execute ==
  LET h   == Handlers[manifest[cur].action]
      dry == DryRun \/ manifest[cur].dry_run
  IN  /\ pc = "executing"
      /\ \/ Unfit
         \/ dry /\ DryRunAnswer(h)
         \/ ~dry /\ h.class = "Logging" /\ LoggingRuns
         \/ ~dry /\ h.class = "Registry" /\ RegistryRuns
         \/ ~dry /\ h.class = "BrowserAutomation" /\ BrowserRuns
         \/ ~dry /\ h.class = "PowerShell" /\ PowerShellRuns
      /\ UNCHANGED Rest

(* The coroutine of the browser handler ends or raises.                    *)
BrowserEnds ==
  /\ pc = "waiting" /\ Handlers[manifest[cur].action].class = "BrowserAutomation"
  /\ \/ Report(cur, "ok", jobs) /\ effect' = [effect EXCEPT ![cur] = "ended"]
     \/ Report(cur, "error", jobs) /\ UNCHANGED effect
  /\ UNCHANGED Rest

(* A cancelled wait takes a job that has no thread yet out of the line; a  *)
(* job that has one goes on.                                               *)
Withdrawn(j) == RemoveFirst(jobs, j)

(* Mutant: a wait that has begun has no limit.                             *)
TimeoutOnlyAtOnce ==
  /\ pc = "executing"
  /\ Report(cur, "timeout", jobs)
  /\ UNCHANGED <<Rest, effect>>

(* wait_for gives up: at once, with a timeout that is not positive.        *)
Timeout ==
  /\ pc \in {"executing", "waiting"}
  /\ Report(cur, "timeout", Withdrawn(<<"command", cur>>))
  /\ UNCHANGED <<Rest, effect>>

-----------------------------------------------------------------------------
(* The thread pool.                                                        *)
JobStarts ==
  /\ jobs # <<>> /\ Cardinality(active) < PoolSize
  /\ active' = active \cup {Head(jobs)}
  /\ jobs' = Tail(jobs)
  /\ effect' = IF Head(jobs)[1] = "command" THEN [effect EXCEPT ![Head(jobs)[2]] = "begun"] ELSE effect
  /\ UNCHANGED <<manifest, queue, stop, loop, files, taken, late, lives>>

(* Mutant: whoever waits gets the answer, though it be of a command that   *)
(* was given up before.                                                    *)
CommandEndsForAnyone(i) ==
  /\ <<"command", i>> \in active
  /\ active' = active \ {<<"command", i>>}
  /\ effect' = [effect EXCEPT ![i] = "ended"]
  /\ \/ pc = "waiting" /\ Report(i, "ok", jobs)
     \/ pc # "waiting" /\ UNCHANGED <<loop, jobs>>
  /\ UNCHANGED <<manifest, queue, stop, files, taken, late, lives>>

(* PowerShell has ended, well or badly, or could not be found.  The loop   *)
(* may have given it up by then.                                           *)
CommandEnds(i) ==
  LET awaited == pc = "waiting" /\ cur = i
  IN  /\ <<"command", i>> \in active
      /\ active' = active \ {<<"command", i>>}
      /\ \E found \in BOOLEAN :
           /\ effect' = IF found THEN [effect EXCEPT ![i] = "ended"] ELSE effect
           /\ \/ /\ awaited
                 /\ \E s \in IF found THEN {"ok", "failed"} ELSE {"error"} : Report(i, s, jobs)
              \/ ~awaited /\ UNCHANGED <<loop, jobs>>
      /\ UNCHANGED <<manifest, queue, stop, files, taken, late, lives>>

(* Mutant: the audit record is written beside the result, not after it.    *)
ResultUnawaited(i) ==
  /\ <<"result", i>> \in active
  /\ active' = active \ {<<"result", i>>}
  /\ audits' = Append(audits, <<i, status>>)
  /\ pc' = "audit" /\ jobs' = Append(jobs, <<"audit", i>>)
  /\ UNCHANGED <<manifest, queue, stop, cur, status, results, effect, taken, late, lives>>

(* Mutant: what fails the signature check is reported but not audited.     *)
RejectedUnaudited(i) ==
  /\ <<"result", i>> \in active
  /\ active' = active \ {<<"result", i>>}
  /\ results' = Append(results, <<i, status>>)
  /\ \/ /\ pc = "result" /\ status # "invalid-signature"
        /\ pc' = "audit" /\ jobs' = Append(jobs, <<"audit", i>>)
        /\ UNCHANGED <<cur, status, queue, taken, late>>
     \/ pc = "result" /\ status = "invalid-signature" /\ LoopOn
     \/ pc # "result" /\ UNCHANGED <<loop, jobs, queue, taken, late>>
  /\ UNCHANGED <<manifest, stop, audits, effect, lives>>

(* A line has been appended.  The loop goes on unless it was cancelled.    *)
ResultWritten(i) ==
  /\ <<"result", i>> \in active
  /\ active' = active \ {<<"result", i>>}
  /\ results' = Append(results, <<i, status>>)
  /\ \/ pc = "result" /\ pc' = "audit" /\ jobs' = Append(jobs, <<"audit", i>>)
     \/ pc # "result" /\ UNCHANGED <<pc, jobs>>
  /\ UNCHANGED <<manifest, queue, stop, cur, status, audits, effect, taken, late, lives>>

AuditWritten(i) ==
  /\ <<"audit", i>> \in active
  /\ active' = active \ {<<"audit", i>>}
  /\ audits' = Append(audits, <<i, status>>)
  /\ \/ pc = "audit" /\ LoopOn
     \/ pc # "audit" /\ UNCHANGED <<loop, jobs, queue, taken, late>>
  /\ UNCHANGED <<manifest, stop, results, effect, lives>>

(* The file of job j gets a line, or the beginning of one.  What is        *)
(* appended after a cut line stands on the same line of the file.          *)
Gets(j, s) ==
  /\ results' = IF j[1] = "result" THEN Append(results, <<j[2], s>>) ELSE results
  /\ audits' = IF j[1] = "audit" THEN Append(audits, <<j[2], s>>) ELSE audits

(* The file cannot be opened, written or closed: the exception ends run.   *)
WriteFails(j) ==
  /\ j \in active /\ j[1] # "command"
  /\ active' = active \ {j}
  /\ pc' = IF pc = j[1] THEN "raised" ELSE pc
  /\ UNCHANGED files \/ \E s \in {"cut", status} : Gets(j, s)
  /\ UNCHANGED <<manifest, queue, stop, cur, status, jobs, effect, taken, late, lives>>

-----------------------------------------------------------------------------
(* The task of run is cancelled (an interrupt, asyncio.run); the process   *)
(* dies, with its queue, its jobs and the commands' handles, perhaps in    *)
(* the middle of a line; another process is started.                       *)
Cancel ==
  /\ pc \notin Down
  /\ pc' = "cancelled"
  /\ jobs' = IF pc \in {"result", "audit"} THEN Withdrawn(<<pc, cur>>)
             ELSE Withdrawn(<<"command", cur>>)
  /\ UNCHANGED <<manifest, queue, stop, cur, status, active, files, effect, taken, late, lives>>

Die ==
  /\ pc # "dead"
  /\ pc' = "dead" /\ queue' = <<>> /\ jobs' = <<>> /\ active' = {}
  /\ UNCHANGED files \/ \E j \in active : j[1] # "command" /\ Gets(j, "cut")
  /\ UNCHANGED <<manifest, stop, cur, status, effect, taken, late, lives>>

Restart ==
  /\ pc = "dead" /\ Len(takenAt) < MaxLives
  /\ pc' = "getting" /\ cur' = None /\ status' = None
  /\ queue' = <<>> /\ stop' = FALSE /\ jobs' = <<>> /\ active' = {}
  /\ late' = 0
  /\ takenAt' = Append(takenAt, Len(taken))
  /\ resultsAt' = Append(resultsAt, Len(results)) /\ auditsAt' = Append(auditsAt, Len(audits))
  /\ UNCHANGED <<manifest, files, effect, taken>>

-----------------------------------------------------------------------------
Next ==
  \/ \E i \in Instructions, k \in Kinds : Submit(i, k)
  \/ Shutdown \/ Wake \/ Execute \/ BrowserEnds \/ Timeout \/ JobStarts
  \/ \E i \in Instructions : CommandEnds(i) \/ ResultWritten(i) \/ AuditWritten(i)
  \/ \E j \in Job : WriteFails(j)
  \/ Cancel \/ Die \/ Restart

SafeSpec == Init /\ [][Next]_vars

(* The event loop runs what is ready, its timers fire, a free thread takes *)
(* the next job, and a write ends.  A command need not end.                *)
LoopFair ==
  /\ WF_vars(Wake) /\ WF_vars(Execute) /\ WF_vars(Timeout) /\ WF_vars(JobStarts)
  /\ \A i \in Instructions :
       WF_vars(ResultWritten(i) \/ AuditWritten(i)
               \/ WriteFails(<<"result", i>>) \/ WriteFails(<<"audit", i>>))

CommandsFair == \A i \in Instructions : WF_vars(CommandEnds(i))

HangSpec == SafeSpec /\ LoopFair
Spec     == HangSpec /\ CommandsFair

-----------------------------------------------------------------------------
Ids(s) == [n \in 1..Len(s) |-> s[n][1]]

(* In one life: a repeats r line by line and is at most one line behind.   *)
(* Only the very last line may be cut: r's, and a does not have it; or a's *)
(* copy of it.                                                             *)
Copied(a, r) ==
  /\ Len(a) <= Len(r) /\ Len(r) <= Len(a) + 1
  /\ \A n \in 1..Len(a) : a[n] = r[n] \/ (n = Len(r) /\ a[n] = <<r[n][1], "cut">>)
  /\ \A n \in 1..Len(r) : r[n][2] = "cut" => n = Len(r) /\ Len(a) < n

(* However many processes follow one another, and however each comes to    *)
(* its end, between the lines or in the middle of one: the lines that one  *)
(* life adds to the audit log are those it adds to the result log, and     *)
(* only the last of a life may be missing or cut.  So far and no further   *)
(* do the two files drift apart (service.py:78-81, 149-150, 228-229).      *)
AuditFollowsResult ==
  \A L \in 1..Len(resultsAt) : Copied(Part(audits, auditsAt, L), Part(results, resultsAt, L))

(* In one life: r reports t in order, but for the last one at most.        *)
InTurn(r, t) == IsPrefix(Ids(r), t) /\ Len(t) <= Len(r) + 1

(* No instruction is taken twice, and each life reports those it takes     *)
(* once each and in that order, never more than one behind; one that ends  *)
(* run with an exception is the last of its life (service.py:115-122, 149, *)
(* 156, 228).                                                              *)
ReportedInOrder ==
  /\ \A m, n \in 1..Len(taken) : taken[m] = taken[n] => m = n
  /\ \A L \in 1..Len(takenAt) : InTurn(Part(results, resultsAt, L), Part(taken, takenAt, L))

(* An action takes effect only if the instruction's signature passed, its  *)
(* role was granted by policy and handler, and no dry run was asked for;   *)
(* and a result that denies an effect stays true for ever: no thread       *)
(* carries the action out later (dispatcher.py:49-60, 295-303).            *)
EffectsAreCovered ==
  /\ \A i \in Instructions : effect[i] # "none" =>
       /\ \/ Validator = None \/ manifest[i].signature = "good"
          \/ Validator = "optional" /\ manifest[i].signature = "none"
       /\ Handlers[manifest[i].action] # None
       /\ "*" \in Handlers[manifest[i].action].roles
            \/ manifest[i].role \in Handlers[manifest[i].action].roles
       /\ Policy # None => Policy[manifest[i].role] \cap {manifest[i].action, "*"} # {}
       /\ ~DryRun /\ ~manifest[i].dry_run
  /\ \A n \in 1..Len(results) :
       results[n][2] \notin {"logged", "ok", "failed", "error", "timeout", "cut"} => effect[results[n][1]] = "none"

Audited(i) == \E n \in 1..Len(audits) : audits[n][1] = i /\ audits[n][2] # "cut"

(* Every instruction handed in gets its audit record from the life it was  *)
(* handed to, unless the loop is told to stop or comes to an end           *)
(* (service.py:114-229).                                                   *)
EveryInstructionAudited ==
  \A i \in Instructions :
    cur = i \/ Contains(queue, i) ~> Audited(i) \/ stop \/ pc \in Down

(* The time limits keep the service from hanging: even if commands never   *)
(* end, every instruction taken up is audited (design/action_adapters.md, *)
(* service.py:175-190).                                                    *)
TimeboxingPreventsHang ==
  \A i \in Instructions : cur = i ~> Audited(i) \/ pc \in Down

(* A shutdown comes to rest, after at most one more instruction: the loop  *)
(* ends, or waits for that one on an empty queue (service.py:70-71,        *)
(* 115-116).                                                               *)
ShutdownSettles ==
  /\ [](late <= 1)
  /\ stop ~> pc \in Down \/ (pc = "getting" /\ queue = <<>>)
=============================================================================
