------------------------------ MODULE TTLCache ------------------------------
(***************************************************************************)
(* qr_automation/gateway/cache.py: the answers of one adapter, kept for    *)
(* ttl_seconds, the least recently used of them given up for lack of room. *)
(* An OrderedDict is a function on its keys and a strict order of them.    *)
(***************************************************************************)
EXTENDS Integers, FiniteSets

CONSTANTS
  Keys, Values,
  NoValue,      \* the None a get returns when it finds nothing
  MaxEntries,   \* _max_entries
  TTL,          \* _ttl, in ticks
  MaxTime       \* bound: the clock stops here

ASSUME CacheAssumption ==
  /\ MaxEntries \in Nat \ {0} /\ TTL \in Nat /\ MaxTime \in Nat /\ NoValue \notin Values

VARIABLES
  entries,  \* _entries: of every key in it, its value and when it expires
  order,    \* the order of _entries: <<j, k>> if key j comes before key k
  now,      \* time.monotonic()
  got,      \* history: the key and the result of the call that just returned
  last,     \* history: value and time of the last set of each key
  since     \* history: of each key, the keys used (set or hit) since its last use

vars == <<entries, order, now, got, last, since>>

Entry == [value : Values, expires_at : Nat]

TypeOK ==
  /\ entries \in [DOMAIN entries -> Entry] /\ DOMAIN entries \subseteq Keys
  /\ IsFiniteSet(DOMAIN entries) /\ Cardinality(DOMAIN entries) <= MaxEntries
  /\ order \subseteq (DOMAIN entries) \X (DOMAIN entries)
  /\ now \in Nat
  /\ got \in Keys \X (Values \cup {NoValue})
  /\ last \in [Keys -> (Values \cup {NoValue}) \X Nat]
  /\ since \in [Keys -> SUBSET Keys] /\ \A k \in Keys : IsFiniteSet(since[k])

Unset  == [k \in Keys |-> <<NoValue, 0>>]
Unused == [k \in Keys |-> {}]

Init ==
  /\ entries = <<>> /\ order = {} /\ now = 0 /\ last = Unset /\ since = Unused
  /\ \E k \in Keys : got = <<k, NoValue>>

Use(k) == [j \in Keys |-> IF j = k THEN {} ELSE since[j] \cup {k}]

(* Mutant: an entry is still good at the very moment it expires.           *)
PurgedLate == {k \in DOMAIN entries : entries[k].expires_at >= now}

(* The keys a purge leaves.                                                *)
Purged == {k \in DOMAIN entries : entries[k].expires_at > now}

Among(S)         == order \cap (S \X S)
MovedToEnd(k, S) == Among(S \ {k}) \cup ((S \ {k}) \X {k})

(* Mutant: a hit does not count as a use.                                  *)
GetWithoutMove(k) ==
  /\ entries' = [j \in Purged |-> entries[j]]
  /\ order' = Among(Purged)
  /\ \/ k \in Purged /\ got' = <<k, entries[k].value>> /\ since' = Use(k)
     \/ k \notin Purged /\ got' = <<k, NoValue>> /\ UNCHANGED since
  /\ UNCHANGED <<now, last>>

Get(k) ==
  /\ entries' = [j \in Purged |-> entries[j]]
  /\ \/ /\ k \in Purged
        /\ order' = MovedToEnd(k, Purged)
        /\ got' = <<k, entries[k].value>>
        /\ since' = Use(k)
     \/ /\ k \notin Purged
        /\ order' = Among(Purged)
        /\ got' = <<k, NoValue>>
        /\ UNCHANGED since
  /\ UNCHANGED <<now, last>>

(* Mutant: one entry too many is tolerated.                                *)
ShrunkLate(S, o) ==
  IF Cardinality(S) <= MaxEntries + 1 THEN {S}
  ELSE {S \ {k} : k \in {j \in S : \A i \in S \ {j} : <<j, i>> \in o}}

(* The keys left, of those in S: all, or all but the first in the order o. *)
Shrunk(S, o) ==
  IF Cardinality(S) <= MaxEntries THEN {S}
  ELSE {S \ {k} : k \in {j \in S : \A i \in S \ {j} : <<j, i>> \in o}}

Set(k, v) ==
  LET new == [value |-> v, expires_at |-> now + TTL]
      o   == MovedToEnd(k, Purged)
  IN  /\ \E S \in Shrunk(Purged \cup {k}, o) :
           /\ entries' = [j \in S |-> IF j = k THEN new ELSE entries[j]]
           /\ order' = o \cap (S \X S)
      /\ last' = [last EXCEPT ![k] = <<v, now>>]
      /\ since' = Use(k)
      /\ UNCHANGED <<now, got>>

Clear == entries' = <<>> /\ order' = {} /\ last' = Unset /\ since' = Unused /\ UNCHANGED <<now, got>>

Tick == now < MaxTime /\ now' = now + 1 /\ UNCHANGED <<entries, order, got, last, since>>

Next == Tick \/ Clear \/ \E k \in Keys : Get(k) \/ \E v \in Values : Set(k, v)
Spec == Init /\ [][Next]_vars

-----------------------------------------------------------------------------
(* A get answers with the value of the last set of the key, or not at all, *)
(* and never TTL or more after that set (cache.py:24-27, 30-36).           *)
HitIsLatestAndFresh ==
  [][\A k \in Keys : Get(k) /\ got'[2] # NoValue =>
       got'[2] = last[k][1] /\ now < last[k][2] + TTL]_vars

(* A get that finds nothing has a reason: the key was never set, its value *)
(* has expired, or the cache has served MaxEntries other keys since the    *)
(* key was last used (cache.py:34-35, 41-43).                              *)
MissIsJustified ==
  [][\A k \in Keys : Get(k) /\ got'[2] = NoValue =>
       \/ last[k][1] = NoValue
       \/ now >= last[k][2] + TTL
       \/ Cardinality(since[k]) >= MaxEntries]_vars
=============================================================================
