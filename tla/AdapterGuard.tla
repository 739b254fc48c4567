---------------------------- MODULE AdapterGuard ----------------------------
(***************************************************************************)
(* One registered adapter with what the manager puts around it: dispatch   *)
(* of gateway/manager.py:87-119 with the TokenBucket and the TTLCache of   *)
(* the adapter's context, and the adapters of gateway/adapters that post   *)
(* to an HTTP server.  Calls overlap while their posts are on the way, and *)
(* the adapter may be unregistered meanwhile.                              *)
(*                                                                         *)
(* Limiter and cache are the modules TokenBucket and TTLCache themselves,  *)
(* on one clock.  GatewayManager abstracts from both; that it may is the   *)
(* property RefinesManager.                                                *)
(***************************************************************************)
EXTENDS TokenBucket

CONSTANTS
  Dispatches,       \* calls of dispatch, each with a message of its own
  Contents,         \* what messages say: content and metadata
  ContentOf,
  MaxEntries, TTL,  \* of the cache
  None

ASSUME GuardAssumption ==
  /\ ContentOf \in [Dispatches -> Contents]
  /\ MaxEntries \in Nat \ {0} /\ TTL \in Nat
  /\ None \notin Dispatches \cup Contents
  /\ Cardinality(Dispatches) <= MaxGrants

(* The names GatewayManager is given below for this adapter are its own.   *)
ASSUME ViewAssumption ==
  /\ "reload" \notin Dispatches /\ "shutdown" \notin Dispatches
  /\ None # "config" /\ None # <<"reload", "adapter">>

VARIABLES
  kind,     \* the class of the adapter
  client,   \* its HTTP client; it is registered while this is "open"
  pc,       \* of every call
  answer,   \* of every call: the call whose post was given the answer, or None
  requests_total, errors_total,
  entries, order, got, last, since    \* of the cache

bucketVars == <<tokens, last_check, grants, refusals>>
cacheVars  == <<entries, order, got, last, since>>
callVars   == <<pc, answer, requests_total, errors_total>>
guardVars  == <<now, bucketVars, cacheVars, callVars, kind, client>>

Cache == INSTANCE TTLCache WITH Keys <- Contents, Values <- Dispatches, NoValue <- None

(* OpenAIAdapter, of which ChatGPTAdapter is a case, LlamaCppAdapter and   *)
(* ZapierAdapter.                                                          *)
Classes == {"openai", "llamacpp", "zapier"}

GuardTypeOK ==
  /\ TypeOK /\ Cache!TypeOK
  /\ kind \in Classes
  /\ client \in {"open", "closing", "closed"}
  /\ pc \in [Dispatches -> {"idle", "calling", "done", "raised", "unknown"}]
  /\ answer \in [Dispatches -> Dispatches \cup {None}]
  /\ requests_total + errors_total = Cardinality({d \in Dispatches : pc[d] \in {"done", "raised"}})

GuardInit ==
  /\ Init /\ Cache!Init
  /\ kind \in Classes
  /\ client = "open"
  /\ pc = [d \in Dispatches |-> "idle"]
  /\ answer = [d \in Dispatches |-> None]
  /\ requests_total = 0 /\ errors_total = 0

-----------------------------------------------------------------------------
(* The key of a message in the cache; in the mutant every adapter has one. *)
KeyOfAny(d) == ContentOf[d]
KeyOf(d)    == IF kind = "zapier" THEN None ELSE ContentOf[d]

(* What of the message is in the request the adapter posts: the webhook    *)
(* gets all of it, the models its content.                                 *)
Posted(d) == IF kind = "zapier" THEN d ELSE ContentOf[d]

Answered(d, a) ==
  /\ pc' = [pc EXCEPT ![d] = "done"]
  /\ answer' = [answer EXCEPT ![d] = a]
  /\ requests_total' = requests_total + 1 /\ UNCHANGED errors_total

(* Mutant: an error is passed on uncounted.                                *)
FailsUncounted(d) ==
  /\ pc' = [pc EXCEPT ![d] = "raised"]
  /\ UNCHANGED <<answer, requests_total, errors_total>>

Fails(d) ==
  /\ pc' = [pc EXCEPT ![d] = "raised"]
  /\ errors_total' = errors_total + 1 /\ UNCHANGED <<answer, requests_total>>

(* The adapters' dispatch up to the await of the post; the two that need a *)
(* key or a URL from the configuration or the environment raise without.   *)
Posts(d) == pc' = [pc EXCEPT ![d] = "calling"] /\ UNCHANGED <<answer, requests_total, errors_total>>
OpenAIAsks(d)   == kind = "openai" /\ (Posts(d) \/ Fails(d))
LlamaCppAsks(d) == kind = "llamacpp" /\ Posts(d)
ZapierAsks(d)   == kind = "zapier" /\ (Posts(d) \/ Fails(d))
Asked(d) == OpenAIAsks(d) \/ LlamaCppAsks(d) \/ ZapierAsks(d)

Dispatch(d) ==
  /\ pc[d] = "idle"
  /\ \/ /\ client # "open"
        /\ pc' = [pc EXCEPT ![d] = "unknown"]
        /\ UNCHANGED <<now, bucketVars, cacheVars, answer, requests_total, errors_total>>
     \/ /\ client = "open" /\ Consume
        /\ \/ Refilled < Unit /\ Fails(d) /\ UNCHANGED cacheVars
           \/ Refilled >= Unit /\ KeyOf(d) = None /\ Asked(d) /\ UNCHANGED cacheVars
           \/ /\ Refilled >= Unit /\ KeyOf(d) # None /\ Cache!Get(KeyOf(d))
              /\ \/ got'[2] # None /\ Answered(d, got'[2])
                 \/ got'[2] = None /\ Asked(d)
  /\ UNCHANGED <<kind, client>>

(* A response is stored under its key and returned; the lack of one is     *)
(* returned.                                                               *)
Responds(d) ==
  /\ Answered(d, d)
  /\ \/ KeyOf(d) # None /\ Cache!Set(KeyOf(d), d)
     \/ KeyOf(d) = None /\ UNCHANGED cacheVars
RespondsNothing(d) == Answered(d, None) /\ UNCHANGED cacheVars
Raises(d) == Fails(d) /\ UNCHANGED cacheVars

(* The post has ended; status, body and connection may make the adapter    *)
(* raise.  The models may say nothing, the webhook's answer is passed on   *)
(* whatever it is.                                                         *)
OpenAIEnds(d)   == kind = "openai" /\ (Responds(d) \/ RespondsNothing(d) \/ Raises(d))
LlamaCppEnds(d) == kind = "llamacpp" /\ (Responds(d) \/ RespondsNothing(d) \/ Raises(d))
ZapierEnds(d)   == kind = "zapier" /\ (Responds(d) \/ Raises(d))
PostEnds(d) ==
  /\ pc[d] = "calling"
  /\ OpenAIEnds(d) \/ LlamaCppEnds(d) \/ ZapierEnds(d)
  /\ UNCHANGED <<now, bucketVars, kind, client>>

(* The adapter is unregistered and stopped.                                *)
StopCalled ==
  /\ client = "open"
  /\ client' = "closing"
  /\ UNCHANGED <<now, bucketVars, cacheVars, callVars, kind>>
Stopped ==
  /\ client = "closing"
  /\ client' = "closed"
  /\ UNCHANGED <<now, bucketVars, cacheVars, callVars, kind>>

TimePasses == Tick /\ UNCHANGED <<cacheVars, callVars, kind, client>>

GuardNext ==
  \/ TimePasses \/ StopCalled \/ Stopped
  \/ \E d \in Dispatches : Dispatch(d) \/ PostEnds(d)
GuardSpec == GuardInit /\ [][GuardNext]_guardVars

-----------------------------------------------------------------------------
(* An answer, be it from the cache, was given to a request that says the   *)
(* same as this message's own would: a model is asked once for what is     *)
(* asked alike, a webhook hears of every message (manager.py:97-107,       *)
(* openai.py:49-56, zapier.py:49-64).                                      *)
SameQuestion ==
  \A d \in Dispatches : answer[d] # None => Posted(answer[d]) = Posted(d)

(* The adapter as GatewayManager sees it: entered by a reload, removed by  *)
(* a shutdown, its limiter and cache behaving in any way.                  *)
It       == <<"reload", "adapter">>
Tasks    == {"reload", "shutdown"} \cup Dispatches
Entries  == [t \in {"reload"} |-> <<[name |-> "adapter", conf |-> "config"]>>]
Unheard  == {"idle", "unknown"}

Registry == [n \in {"adapter"} |-> IF client = "open" THEN It ELSE None]
State    == [i \in {It} |-> CASE client = "open" -> "started"
                             [] client = "closing" -> "stopping"
                             [] OTHER -> "stopped"]
StepOf(t) == IF t = "reload" \/ client = "closed" THEN "done"
             ELSE IF client = "closing" THEN "closing" ELSE "idle"
HeldBy(t) == IF t = "reload" \/ client # "open" THEN It ELSE None
Control  == [t \in Tasks |-> IF t \in Dispatches THEN pc[t] ELSE StepOf(t)]
Captured == [t \in Tasks |-> IF t \notin Dispatches THEN HeldBy(t)
                             ELSE IF pc[t] \in Unheard THEN None ELSE It]
Closing  == [t \in {"shutdown"} |-> IF client = "closing" THEN {It} ELSE {}]
KeyUsed  == [d \in Dispatches |-> IF pc[d] \in Unheard THEN None ELSE KeyOf(d)]
Origin   == [d \in Dispatches |-> IF answer[d] = None THEN None ELSE It]
Filed    == [i \in {It} |-> [k \in Contents |-> IF last[k][1] = None THEN None ELSE It]]

Manager == INSTANCE GatewayManager WITH
  Names <- {"adapter"}, AConfigs <- {"config"}, Keys <- Contents,
  Reloads <- {"reload"}, Registers <- {}, Shutdowns <- {"shutdown"}, ConfigOf <- Entries,
  registry <- Registry, state <- State, pc <- Control, at <- Captured,
  todo <- [t \in {"reload"} |-> {}], idx <- [t \in {"reload"} |-> 1], closing <- Closing,
  key <- KeyUsed, from <- Origin, cache <- Filed

(* Every step is one of the manager's model or none: whatever limiter,     *)
(* cache and adapters do, it was right to let the one refuse any call and  *)
(* the other forget any answer (manager.py:87-119, 131-141).               *)
RefinesManager == [][Manager!Next]_(Manager!vars)
=============================================================================
