--------------------------- MODULE TTLCacheProofs ---------------------------
(***************************************************************************)
(* Theorems about TTLCache for any keys and values, however many, and for  *)
(* every room and time to live.  The bound on the clock is not used.       *)
(***************************************************************************)
EXTENDS TTLCache, FiniteSetTheorems, TLAPS

(* An entry is what the last set of its key made it.                       *)
Dated ==
  \A k \in DOMAIN entries :
    last[k][1] = entries[k].value /\ entries[k].expires_at = last[k][2] + TTL

(* One entry comes before another just when the other's key was used since.*)
Tracked == \A j, k \in DOMAIN entries : <<j, k>> \in order <=> k # j /\ k \in since[j]

(* Whatever is not in the cache has a reason not to be.                    *)
Missed ==
  \A k \in Keys : \/ k \in DOMAIN entries
                  \/ last[k][1] = NoValue
                  \/ now >= last[k][2] + TTL
                  \/ Cardinality(since[k]) >= MaxEntries

IInv == TypeOK /\ Dated /\ Tracked /\ Missed

LEMMA InitHolds == Init => IInv
<1> SUFFICES ASSUME Init PROVE IInv
  OBVIOUS
<1>1. DOMAIN entries = {} /\ entries \in [DOMAIN entries -> Entry]
  BY DEF Init
<1>2. IsFiniteSet({}) /\ Cardinality({}) = 0 /\ 0 <= MaxEntries
  BY FS_EmptySet, CacheAssumption DEF CacheAssumption
<1>3. TypeOK
  BY <1>1, <1>2 DEF Init, TypeOK, Unset, Unused
<1>4. Missed
  BY DEF Init, Missed, Unset
<1> QED
  BY <1>1, <1>3, <1>4 DEF IInv, Dated, Tracked

LEMMA Types ==
  ASSUME TypeOK
  PROVE  /\ DOMAIN entries \subseteq Keys /\ IsFiniteSet(DOMAIN entries)
         /\ entries \in [DOMAIN entries -> Entry]
         /\ Cardinality(DOMAIN entries) <= MaxEntries
         /\ order \subseteq (DOMAIN entries) \X (DOMAIN entries)
         /\ \A k \in DOMAIN entries : entries[k].value \in Values /\ entries[k].expires_at \in Nat
         /\ now \in Nat /\ TTL \in Nat /\ MaxEntries \in Nat \ {0} /\ NoValue \notin Values
         /\ got \in Keys \X (Values \cup {NoValue})
         /\ last \in [Keys -> (Values \cup {NoValue}) \X Nat]
         /\ \A k \in Keys : last[k][1] \in Values \cup {NoValue} /\ last[k][2] \in Nat
         /\ since \in [Keys -> SUBSET Keys] /\ \A k \in Keys : IsFiniteSet(since[k])
<1>1. \A k \in DOMAIN entries : entries[k] \in Entry
  BY DEF TypeOK
<1>2. \A k \in Keys : last[k] \in (Values \cup {NoValue}) \X Nat
  BY DEF TypeOK
<1>3. \A k \in Keys : last[k][1] \in Values \cup {NoValue} /\ last[k][2] \in Nat
  BY <1>2
<1> QED
  BY <1>1, <1>3, CacheAssumption DEF TypeOK, CacheAssumption, Entry

(* A use adds to what was used since the last use of every other key.      *)
LEMMA Used ==
  ASSUME TypeOK, NEW k \in Keys
  PROVE  /\ Use(k) \in [Keys -> SUBSET Keys] /\ Use(k)[k] = {}
         /\ \A j \in Keys : j # k => Use(k)[j] = since[j] \cup {k}
         /\ \A j \in Keys : IsFiniteSet(Use(k)[j])
         /\ \A j \in Keys : j # k /\ Cardinality(since[j]) >= MaxEntries =>
              Cardinality(Use(k)[j]) >= MaxEntries
<1>1. /\ Use(k) \in [Keys -> SUBSET Keys] /\ Use(k)[k] = {}
      /\ \A j \in Keys : j # k => Use(k)[j] = since[j] \cup {k}
  BY Types DEF Use
<1>2. ASSUME NEW j \in Keys PROVE IsFiniteSet(Use(k)[j])
  <2>1. CASE j = k
    BY <1>1, <2>1, FS_EmptySet
  <2>2. CASE j # k
    <3>1. IsFiniteSet(since[j])
      BY Types
    <3>2. IsFiniteSet(since[j] \cup {k})
      BY <3>1, FS_AddElement
    <3> QED
      BY <1>1, <2>2, <3>2
  <2> QED
    BY <2>1, <2>2
<1>3. ASSUME NEW j \in Keys, j # k, Cardinality(since[j]) >= MaxEntries
      PROVE  Cardinality(Use(k)[j]) >= MaxEntries
  <2>1. IsFiniteSet(since[j]) /\ Use(k)[j] = since[j] \cup {k}
    BY <1>1, <1>3, Types
  <2>2. Cardinality(since[j]) \in Nat
    BY <2>1, FS_CardinalityType
  <2>3. Cardinality(since[j] \cup {k}) \in {Cardinality(since[j]), Cardinality(since[j]) + 1}
    BY <2>1, FS_AddElement
  <2> QED
    BY <1>3, <2>1, <2>2, <2>3, Types
<1> QED
  BY <1>1, <1>2, <1>3

LEMMA PurgedTypes ==
  ASSUME TypeOK
  PROVE  /\ Purged \subseteq DOMAIN entries /\ IsFiniteSet(Purged)
         /\ Cardinality(Purged) <= MaxEntries
<1>1. Purged \subseteq DOMAIN entries
  BY DEF Purged
<1>2. /\ IsFiniteSet(Purged) /\ Cardinality(Purged) <= Cardinality(DOMAIN entries)
      /\ Cardinality(Purged) \in Nat /\ Cardinality(DOMAIN entries) \in Nat
  BY <1>1, Types, FS_Subset, FS_CardinalityType
<1> QED
  BY <1>1, <1>2, Types

(* What a purge takes out has expired.                                     *)
LEMMA PurgedMissed ==
  ASSUME IInv, NEW k \in Keys, k \notin Purged
  PROVE  \/ last[k][1] = NoValue
         \/ now >= last[k][2] + TTL
         \/ Cardinality(since[k]) >= MaxEntries
<1>1. CASE k \in DOMAIN entries
  BY <1>1, Types DEF IInv, Dated, Purged
<1>2. CASE k \notin DOMAIN entries
  BY <1>2 DEF IInv, Missed
<1> QED
  BY <1>1, <1>2

LEMMA TickKeeps == IInv /\ Tick => IInv'
<1> SUFFICES ASSUME IInv, Tick PROVE IInv'
  OBVIOUS
<1>1. now' = now + 1 /\ UNCHANGED <<entries, order, got, last, since>>
  BY DEF Tick
<1>2. now \in Nat /\ TTL \in Nat /\ \A k \in Keys : last[k][2] \in Nat
  BY Types DEF IInv
<1>3. TypeOK'
  BY <1>1, <1>2 DEF IInv, TypeOK
<1>4. Missed'
  BY <1>1, <1>2 DEF IInv, Missed
<1> QED
  BY <1>1, <1>3, <1>4 DEF IInv, Dated, Tracked

LEMMA ClearKeeps == IInv /\ Clear => IInv'
<1> SUFFICES ASSUME IInv, Clear PROVE IInv'
  OBVIOUS
<1>1. /\ entries' = <<>> /\ order' = {} /\ last' = Unset /\ since' = Unused
      /\ now' = now /\ got' = got
  BY DEF Clear
<1>2. DOMAIN entries' = {} /\ entries' \in [DOMAIN entries' -> Entry]
  BY <1>1
<1>3. IsFiniteSet({}) /\ Cardinality({}) = 0 /\ 0 <= MaxEntries
  BY FS_EmptySet, CacheAssumption DEF CacheAssumption
<1>4. TypeOK'
  BY <1>1, <1>2, <1>3 DEF IInv, TypeOK, Unset, Unused
<1>5. Missed'
  BY <1>1 DEF Missed, Unset
<1> QED
  BY <1>2, <1>4, <1>5 DEF IInv, Dated, Tracked

LEMMA GetKeeps == \A k \in Keys : IInv /\ Get(k) => IInv'
<1> SUFFICES ASSUME NEW k \in Keys, IInv, Get(k) PROVE IInv'
  OBVIOUS
<1>1. /\ entries' = [j \in Purged |-> entries[j]] /\ now' = now /\ last' = last
      /\ DOMAIN entries' = Purged /\ \A j \in Purged : entries'[j] = entries[j]
  BY DEF Get
<1>2. TypeOK
  BY DEF IInv
<1>3. Purged \subseteq DOMAIN entries /\ IsFiniteSet(Purged) /\ Cardinality(Purged) <= MaxEntries
  BY <1>2, PurgedTypes
<1>4. entries' \in [DOMAIN entries' -> Entry]
  BY <1>1, <1>2, <1>3, Types
<1>5. Dated'
  BY <1>1, <1>3 DEF IInv, Dated
<1>6. CASE /\ k \in Purged /\ order' = MovedToEnd(k, Purged)
           /\ got' = <<k, entries[k].value>> /\ since' = Use(k)
  <2>1. order' \subseteq Purged \X Purged /\ got' \in Keys \X (Values \cup {NoValue})
    BY <1>2, <1>3, <1>6, Types DEF MovedToEnd, Among
  <2>2. TypeOK'
    BY <1>1, <1>2, <1>3, <1>4, <1>6, <2>1, Types, Used DEF TypeOK
  <2>3. Tracked'
    <3>1. ASSUME NEW i \in Purged, NEW j \in Purged
          PROVE  <<i, j>> \in MovedToEnd(k, Purged) <=> j # i /\ j \in Use(k)[i]
      <4>1. i \in Keys /\ j \in Keys /\ (<<i, j>> \in order <=> j # i /\ j \in since[i])
        BY <1>2, <1>3, Types DEF IInv, Tracked
      <4>2. Use(k)[k] = {} /\ (i # k => Use(k)[i] = since[i] \cup {k})
        BY <1>2, <4>1, Used
      <4> QED
        BY <4>1, <4>2 DEF MovedToEnd, Among
    <3> QED
      BY <1>1, <1>6, <3>1 DEF Tracked
  <2>4. Missed'
    <3>1. ASSUME NEW j \in Keys, j \notin Purged
          PROVE  \/ last[j][1] = NoValue \/ now >= last[j][2] + TTL
                 \/ Cardinality(Use(k)[j]) >= MaxEntries
      BY <1>2, <1>6, <3>1, PurgedMissed, Used
    <3> QED
      BY <1>1, <1>6, <3>1 DEF Missed
  <2> QED
    BY <1>5, <2>2, <2>3, <2>4 DEF IInv
<1>7. CASE order' = Among(Purged) /\ got' = <<k, NoValue>> /\ since' = since
  <2>1. order' \subseteq Purged \X Purged /\ got' \in Keys \X (Values \cup {NoValue})
    BY <1>7 DEF Among
  <2>2. TypeOK'
    BY <1>1, <1>2, <1>3, <1>4, <1>7, <2>1, Types DEF TypeOK
  <2>3. Tracked'
    BY <1>1, <1>3, <1>7 DEF IInv, Tracked, Among
  <2>4. Missed'
    BY <1>1, <1>7, PurgedMissed DEF Missed
  <2> QED
    BY <1>5, <2>2, <2>3, <2>4 DEF IInv
<1> QED
  BY <1>6, <1>7 DEF Get

LEMMA SetKeeps == \A k \in Keys, v \in Values : IInv /\ Set(k, v) => IInv'
<1> SUFFICES ASSUME NEW k \in Keys, NEW v \in Values, IInv, Set(k, v) PROVE IInv'
  OBVIOUS
<1> DEFINE new == [value |-> v, expires_at |-> now + TTL]
           o   == MovedToEnd(k, Purged)
           A   == Purged \cup {k}
<1>1. PICK S \in Shrunk(A, o) :
        /\ entries' = [j \in S |-> IF j = k THEN new ELSE entries[j]]
        /\ order' = o \cap (S \X S)
  BY DEF Set
<1>2. /\ last' = [last EXCEPT ![k] = <<v, now>>] /\ since' = Use(k)
      /\ now' = now /\ got' = got
  BY DEF Set
<1>3. TypeOK
  BY DEF IInv
<1>4. Purged \subseteq DOMAIN entries /\ IsFiniteSet(Purged) /\ Cardinality(Purged) <= MaxEntries
  BY <1>3, PurgedTypes
<1>5. /\ IsFiniteSet(A) /\ A \subseteq Keys /\ Cardinality(A) \in Nat
      /\ Cardinality(A) <= MaxEntries + 1 /\ MaxEntries \in Nat \ {0}
  <2>1. Cardinality(Purged) \in Nat /\ MaxEntries \in Nat \ {0}
    BY <1>3, <1>4, Types, FS_CardinalityType
  <2>2. IsFiniteSet(A) /\ Cardinality(A) \in {Cardinality(Purged), Cardinality(Purged) + 1}
    BY <1>4, FS_AddElement
  <2>3. Cardinality(A) \in Nat /\ Cardinality(A) <= MaxEntries + 1
    BY <1>4, <2>1, <2>2
  <2> QED
    BY <1>3, <1>4, <2>1, <2>2, <2>3, Types
(* How the keys left relate to all: the first of them may be gone.         *)
<1>6. /\ S \subseteq A /\ IsFiniteSet(S) /\ Cardinality(S) <= MaxEntries
      /\ \A f \in A \ S : f # k /\ \E T \in SUBSET Use(k)[f] : Cardinality(T) >= MaxEntries
  <2>1. CASE Cardinality(A) <= MaxEntries
    BY <1>1, <1>5, <2>1 DEF Shrunk
  <2>2. CASE ~(Cardinality(A) <= MaxEntries)
    <3>1. PICK f \in A : S = A \ {f} /\ \A i \in A \ {f} : <<f, i>> \in o
      BY <1>1, <2>2 DEF Shrunk
    <3>2. IsFiniteSet(S) /\ Cardinality(S) = Cardinality(A) - 1
      BY <1>5, <3>1, FS_RemoveElement
    <3>3. Cardinality(S) = MaxEntries
      BY <1>5, <2>2, <3>2
    <3>4. f # k
      <4>1. S # {}
        BY <1>5, <3>3, FS_EmptySet
      <4>2. \A i : <<k, i>> \notin o
        BY DEF MovedToEnd, Among
      <4> QED
        BY <3>1, <4>1, <4>2
    <3>5. S \subseteq Use(k)[f]
      <4>1. f \in Purged /\ f \in Keys /\ f \in DOMAIN entries
        BY <1>4, <1>5, <3>1, <3>4
      <4>2. Use(k)[f] = since[f] \cup {k}
        BY <1>3, <3>4, <4>1, Used
      <4>3. ASSUME NEW i \in A, i # f, i # k PROVE i \in since[f]
        <5>1. <<f, i>> \in order /\ i \in DOMAIN entries
          BY <1>4, <3>1, <4>3 DEF MovedToEnd, Among
        <5> QED
          BY <4>1, <5>1 DEF IInv, Tracked
      <4> QED
        BY <3>1, <4>2, <4>3
    <3> QED
      BY <1>5, <3>1, <3>2, <3>3, <3>4, <3>5
  <2> QED
    BY <2>1, <2>2
<1>7. /\ DOMAIN entries' = S
      /\ \A j \in S : entries'[j] = IF j = k THEN new ELSE entries[j]
  BY <1>1
<1>8. /\ last' \in [Keys -> (Values \cup {NoValue}) \X Nat] /\ last'[k] = <<v, now>>
      /\ \A j \in Keys : j # k => last'[j] = last[j]
  BY <1>2, <1>3, Types
<1>9. new \in Entry /\ new.value = v /\ new.expires_at = now + TTL
  BY <1>3, Types DEF Entry
<1>10. TypeOK'
  <2>1. entries' \in [DOMAIN entries' -> Entry]
    BY <1>1, <1>3, <1>4, <1>6, <1>9, Types
  <2>2. order' \subseteq S \X S
    BY <1>1
  <2> QED
    BY <1>2, <1>3, <1>5, <1>6, <1>7, <1>8, <2>1, <2>2, Types, Used DEF TypeOK
<1> HIDE DEF new
<1>11. Dated'
  <2>1. ASSUME NEW j \in S
        PROVE  last'[j][1] = entries'[j].value /\ entries'[j].expires_at = last'[j][2] + TTL
    <3>1. CASE j = k
      BY <1>7, <1>8, <1>9, <3>1
    <3>2. CASE j # k
      <4>1. j \in DOMAIN entries /\ j \in Keys
        BY <1>4, <1>5, <1>6, <3>2
      <4> QED
        BY <1>7, <1>8, <3>2, <4>1 DEF IInv, Dated
    <3> QED
      BY <3>1, <3>2
  <2> QED
    BY <1>7, <2>1 DEF Dated
<1>12. Tracked'
  <2>1. ASSUME NEW i \in S, NEW j \in S
        PROVE  <<i, j>> \in o <=> j # i /\ j \in Use(k)[i]
    <3>1. /\ i \in Keys /\ j \in Keys /\ i \in A /\ j \in A
          /\ (i # k /\ j # k => (<<i, j>> \in order <=> j # i /\ j \in since[i]))
      BY <1>4, <1>5, <1>6 DEF IInv, Tracked
    <3>2. Use(k)[k] = {} /\ (i # k => Use(k)[i] = since[i] \cup {k})
      BY <1>3, <3>1, Used
    <3> QED
      BY <3>1, <3>2 DEF MovedToEnd, Among
  <2> QED
    BY <1>1, <1>2, <1>7, <2>1 DEF Tracked
<1>13. Missed'
  <2>1. ASSUME NEW j \in Keys, j \notin S
        PROVE  \/ last'[j][1] = NoValue \/ now >= last'[j][2] + TTL
               \/ Cardinality(Use(k)[j]) >= MaxEntries
    <3>1. CASE j \in A
      <4>1. PICK T \in SUBSET Use(k)[j] : Cardinality(T) >= MaxEntries
        BY <1>6, <2>1, <3>1
      <4>2. IsFiniteSet(Use(k)[j])
        BY <1>3, Used
      <4>3. /\ Cardinality(T) <= Cardinality(Use(k)[j])
            /\ Cardinality(T) \in Nat /\ Cardinality(Use(k)[j]) \in Nat
        BY <4>2, FS_Subset, FS_CardinalityType
      <4> QED
        BY <1>5, <4>1, <4>3
    <3>2. CASE j \notin A
      <4>1. j # k /\ j \notin Purged
        BY <3>2
      <4> QED
        BY <1>3, <1>8, <4>1, PurgedMissed, Used
    <3> QED
      BY <3>1, <3>2
  <2> QED
    BY <1>2, <1>7, <2>1 DEF Missed
<1> QED
  BY <1>10, <1>11, <1>12, <1>13 DEF IInv

THEOREM CacheInvariant == Spec => []IInv
<1>1. IInv /\ [Next]_vars => IInv'
  <2>1. IInv /\ UNCHANGED vars => IInv'
    BY DEF vars, IInv, TypeOK, Dated, Tracked, Missed
  <2> QED
    BY <2>1, TickKeeps, ClearKeeps, GetKeeps, SetKeeps DEF Next
<1> QED
  BY <1>1, InitHolds, PTL DEF Spec

-----------------------------------------------------------------------------
(* The cache never holds more than it has room for, nor two entries of one *)
(* key (cache.py:37-43).                                                   *)
THEOREM CacheTypeCorrect == Spec => []TypeOK
<1>1. IInv => TypeOK
  BY DEF IInv
<1> QED
  BY <1>1, CacheInvariant, PTL

(* Every hit, after any sequence of calls and pauses, is the value of the  *)
(* key's last set and younger than the time to live (cache.py:24-36).      *)
THEOREM HitsAreLatestAndFresh == Spec => HitIsLatestAndFresh
<1>1. IInv => \A k \in Keys : Get(k) /\ got'[2] # NoValue =>
                got'[2] = last[k][1] /\ now < last[k][2] + TTL
  <2> SUFFICES ASSUME IInv, NEW k \in Keys, Get(k), got'[2] # NoValue
               PROVE  got'[2] = last[k][1] /\ now < last[k][2] + TTL
    OBVIOUS
  <2>1. k \in Purged /\ got' = <<k, entries[k].value>>
    BY DEF Get
  <2>2. k \in DOMAIN entries /\ entries[k].expires_at > now
    BY <2>1 DEF Purged
  <2>3. last[k][1] = entries[k].value /\ entries[k].expires_at = last[k][2] + TTL
    BY <2>2 DEF IInv, Dated
  <2>4. now \in Nat /\ entries[k].expires_at \in Nat
    BY <2>2, Types DEF IInv
  <2> QED
    BY <2>1, <2>2, <2>3, <2>4
<1> QED
  BY <1>1, CacheInvariant, PTL DEF HitIsLatestAndFresh

(* An entry is given up before its time only for MaxEntries others used    *)
(* since: the one evicted is the least recently used (cache.py:34-35,      *)
(* 41-43).                                                                 *)
THEOREM MissesAreJustified == Spec => MissIsJustified
<1>1. IInv => \A k \in Keys : Get(k) /\ got'[2] = NoValue =>
                \/ last[k][1] = NoValue
                \/ now >= last[k][2] + TTL
                \/ Cardinality(since[k]) >= MaxEntries
  <2> SUFFICES ASSUME IInv, NEW k \in Keys, Get(k), got'[2] = NoValue
               PROVE  \/ last[k][1] = NoValue
                      \/ now >= last[k][2] + TTL
                      \/ Cardinality(since[k]) >= MaxEntries
    OBVIOUS
  <2>1. k \notin Purged
    <3>1. ASSUME k \in Purged PROVE FALSE
      <4>1. got' = <<k, entries[k].value>> /\ k \in DOMAIN entries
        BY <3>1 DEF Get, Purged
      <4>2. entries[k].value \in Values /\ NoValue \notin Values
        BY <4>1, Types DEF IInv
      <4> QED
        BY <4>1, <4>2
    <3> QED
      BY <3>1
  <2> QED
    BY <2>1, PurgedMissed
<1> QED
  BY <1>1, CacheInvariant, PTL DEF MissIsJustified
=============================================================================
