-------------------------- MODULE AdapterGuardProofs -------------------------
(* The limiter, for every capacity, rate and sequence of calls; then, on   *)
(* top of it and of TTLCacheProofs, limiter, cache and calls of an adapter *)
(* together.                                                               *)
EXTENDS AdapterGuard, FiniteSetTheorems, TLAPS

(* k grants since time g leave at most `held` in the bucket at time asof.  *)
CoveredAt(held, k, asof, g) == held + Unit * k <= Capacity * Unit + Rate * (asof - g)

(* Each earlier grant has left its mark: what the bucket holds now and the *)
(* grants since then are covered by a full bucket and the inflow since.    *)
Covered ==
  \A i \in 1..Len(grants) :
    /\ grants[i] <= last_check
    /\ CoveredAt(tokens, Len(grants) - i + 1, last_check, grants[i])

IInv == TypeOK /\ Covered /\ WindowBound

LEMMA Constants ==
  /\ Capacity \in Nat /\ Unit \in Nat /\ Rate \in Nat /\ MaxTime \in Nat
  /\ Unit >= 1 /\ Capacity * Unit \in Nat /\ Unit <= Capacity * Unit
<1>1. Capacity \in Nat /\ Unit \in Nat /\ Rate \in Nat /\ MaxTime \in Nat /\ Capacity >= 1 /\ Unit >= 1
  BY BucketAssumption
<1>2. Capacity * Unit \in Nat /\ (Capacity - 1) * Unit >= 0
  BY <1>1
<1>3. Capacity * Unit = (Capacity - 1) * Unit + Unit
  BY <1>1
<1> QED
  BY <1>1, <1>2, <1>3

LEMMA InflowAdds ==
  ASSUME NEW a \in Int, NEW b \in Int, NEW c \in Int
  PROVE  Rate * (a - c) = Rate * (a - b) + Rate * (b - c)
  BY Constants

LEMMA RefillCovers ==
  ASSUME NEW held \in Int, NEW refilled \in Int, NEW k \in Int, NEW asof \in Int,
         NEW t \in Int, NEW g \in Int,
         refilled <= held + Rate * (t - asof), CoveredAt(held, k, asof, g)
  PROVE  CoveredAt(refilled, k, t, g)
<1>1. Rate * (t - g) = Rate * (t - asof) + Rate * (asof - g)
  BY InflowAdds
<1>2. /\ Unit * k \in Int /\ Capacity * Unit \in Int /\ Rate * (t - asof) \in Int
      /\ Rate * (asof - g) \in Int
  BY Constants
<1> QED
  BY <1>1, <1>2 DEF CoveredAt

LEMMA SpendCovers ==
  ASSUME NEW held \in Int, NEW k \in Int, NEW asof \in Int, NEW g \in Int,
         CoveredAt(held, k, asof, g)
  PROVE  CoveredAt(held - Unit, k + 1, asof, g)
<1>1. Unit * (k + 1) = Unit * k + Unit
  BY Constants
<1>2. Unit * k \in Int /\ Unit \in Int /\ Capacity * Unit \in Int /\ Rate * (asof - g) \in Int
  BY Constants
<1> QED
  BY <1>1, <1>2 DEF CoveredAt

LEMMA CoveredBounds ==
  ASSUME NEW held \in Nat, NEW k \in Int, NEW asof \in Int, NEW g \in Int,
         CoveredAt(held, k, asof, g)
  PROVE  Unit * k <= Capacity * Unit + Rate * (asof - g)
<1>1. Unit * k \in Int /\ Capacity * Unit \in Int /\ Rate * (asof - g) \in Int
  BY Constants
<1> QED
  BY <1>1 DEF CoveredAt

LEMMA RefilledFacts ==
  ASSUME TypeOK
  PROVE  /\ Refilled \in 0..(Capacity * Unit)
         /\ Refilled <= tokens + Rate * (now - last_check)
<1>1. now - last_check \in Nat /\ tokens \in Nat /\ tokens <= Capacity * Unit
  BY Constants DEF TypeOK
<1>2. (now - last_check) * Rate \in Nat /\ (now - last_check) * Rate = Rate * (now - last_check)
  BY <1>1, Constants
<1> QED
  BY <1>1, <1>2, Constants DEF Refilled

LEMMA InitHolds == Init => IInv
  BY Constants DEF Init, IInv, TypeOK, Covered, WindowBound

LEMMA StepHolds == IInv /\ [Next]_vars => IInv'
<1> SUFFICES ASSUME IInv, [Next]_vars PROVE IInv'
  OBVIOUS
<1>0. /\ grants \in Seq(Nat) /\ Len(grants) \in Nat /\ now \in Int /\ last_check \in Int
      /\ tokens \in Int /\ last_check <= now /\ Refilled \in Int /\ Capacity * Unit \in Int
      /\ 0 <= Refilled /\ Refilled <= Capacity * Unit /\ Unit \in Int
      /\ Refilled <= tokens + Rate * (now - last_check)
  BY Constants, RefilledFacts DEF IInv, TypeOK
(* What the refill of a call at `now` does to the grants before it.        *)
<1>1. ASSUME NEW i \in 1..Len(grants)
      PROVE  /\ grants[i] \in Int /\ grants[i] <= now
             /\ CoveredAt(Refilled, Len(grants) - i + 1, now, grants[i])
  <2>1. /\ grants[i] \in Int /\ grants[i] <= last_check
        /\ CoveredAt(tokens, Len(grants) - i + 1, last_check, grants[i])
    BY <1>0 DEF IInv, Covered
  <2>2. Len(grants) - i + 1 \in Int
    BY <1>0
  <2>3. CoveredAt(Refilled, Len(grants) - i + 1, now, grants[i])
    BY <1>0, <2>1, <2>2, RefillCovers
  <2> QED
    BY <1>0, <2>1, <2>3
<1>2. CASE UNCHANGED vars
  BY <1>2 DEF vars, IInv, TypeOK, Covered, WindowBound
<1>3. CASE Tick
  <2>1. TypeOK'
    BY <1>3 DEF Tick, IInv, TypeOK
  <2>2. Covered' /\ WindowBound'
    BY <1>3 DEF Tick, IInv, Covered, WindowBound
  <2> QED
    BY <2>1, <2>2 DEF IInv
<1>4. CASE Consume /\ Refilled < Unit
  <2>1. /\ tokens' = Refilled /\ last_check' = now /\ UNCHANGED <<now, grants>>
        /\ refusals' = refusals \cup {<<now, Len(grants)>>}
    BY <1>4, <1>0 DEF Consume
  <2>2. TypeOK'
    BY <1>0, <2>1 DEF IInv, TypeOK
  <2>3. WindowBound'
    BY <2>1 DEF IInv, WindowBound
  <2>4. Covered'
    BY <1>1, <2>1 DEF Covered
  <2> QED
    BY <2>2, <2>3, <2>4 DEF IInv
<1>5. CASE Consume /\ Refilled >= Unit
  <2> DEFINE n == Len(grants) + 1
  <2>1. /\ tokens' = Refilled - Unit /\ last_check' = now /\ UNCHANGED <<now, refusals>>
        /\ grants' = Append(grants, now)
    BY <1>5, <1>0 DEF Consume
  <2>2. /\ Len(grants') = n /\ grants'[n] = now
        /\ \A i \in 1..Len(grants) : grants'[i] = grants[i]
    BY <1>0, <2>1
  <2>3. TypeOK'
    <3>1. grants' \in Seq(Nat)
      BY <1>0, <2>1 DEF IInv, TypeOK
    <3> QED
      BY <1>0, <1>5, <2>1, <3>1, Constants DEF IInv, TypeOK
  <2>4. ASSUME NEW i \in 1..n
        PROVE  /\ grants'[i] \in Int /\ grants'[i] <= now
               /\ CoveredAt(tokens', n - i + 1, now, grants'[i])
    <3>1. CASE i = n
      <4>1. Unit * 1 = Unit /\ Rate * (now - now) = 0
        BY <1>0, Constants
      <4>2. CoveredAt(Refilled - Unit, 1, now, now)
        BY <1>0, <4>1 DEF CoveredAt
      <4>3. n - i + 1 = 1
        BY <1>0, <3>1
      <4> QED
        BY <1>0, <2>1, <2>2, <3>1, <4>2, <4>3
    <3>2. CASE i \in 1..Len(grants)
      <4>1. /\ grants[i] \in Int /\ grants[i] <= now /\ grants'[i] = grants[i]
            /\ CoveredAt(Refilled, Len(grants) - i + 1, now, grants[i])
        BY <1>1, <2>2, <3>2
      <4>2. Len(grants) - i + 1 \in Int
        BY <1>0
      <4>3. CoveredAt(Refilled - Unit, (Len(grants) - i + 1) + 1, now, grants[i])
        BY <1>0, <4>1, <4>2, SpendCovers
      <4>4. (Len(grants) - i + 1) + 1 = n - i + 1
        BY <1>0
      <4> QED
        BY <2>1, <4>1, <4>3, <4>4
    <3> QED
      BY <1>0, <3>1, <3>2
  <2>5. Covered'
    BY <2>1, <2>2, <2>4 DEF Covered
  <2>6. WindowBound'
    <3> SUFFICES ASSUME NEW i \in 1..n, NEW j \in 1..n, i <= j
                 PROVE  Unit * (j - i + 1) <= Capacity * Unit + Rate * (grants'[j] - grants'[i])
      BY <2>2 DEF WindowBound
    <3>1. CASE j = n
      <4>1. tokens' \in Nat
        BY <2>3, Constants DEF TypeOK
      <4>2. n - i + 1 \in Int
        BY <1>0
      <4>3. Unit * (n - i + 1) <= Capacity * Unit + Rate * (now - grants'[i])
        BY <1>0, <2>4, <4>1, <4>2, CoveredBounds
      <4> QED
        BY <2>2, <3>1, <4>3
    <3>2. CASE j # n
      <4>1. i \in 1..Len(grants) /\ j \in 1..Len(grants)
        BY <1>0, <3>2
      <4>2. Unit * (j - i + 1) <= Capacity * Unit + Rate * (grants[j] - grants[i])
        BY <4>1 DEF IInv, WindowBound
      <4> QED
        BY <2>2, <4>1, <4>2
    <3> QED
      BY <3>1, <3>2
  <2> QED
    BY <2>3, <2>5, <2>6 DEF IInv
<1>6. Refilled < Unit \/ Refilled >= Unit
  BY <1>0
<1> QED
  BY <1>2, <1>3, <1>4, <1>5, <1>6 DEF Next

(* No window of time sees more grants than a full bucket and the inflow of *)
(* the window pay for (limits.py:16-24).                                   *)
THEOREM RateIsLimited == Spec => []WindowBound
  BY InitHolds, StepHolds, PTL DEF Spec, IInv

(* The bucket never holds less than nothing nor more than its capacity.    *)
THEOREM BucketTypeCorrect == Spec => []TypeOK
  BY InitHolds, StepHolds, PTL DEF Spec, IInv

-----------------------------------------------------------------------------
(* That no token is lost.  The grants of a window that reaches to now:     *)
Within(n, s) == {i \in 1..n : grants[i] >= s}

(* `held` parts at time t are at least what a bucket that was full at s has*)
(* left after the inflow and the grants since.                             *)
KeptSince(s, held, n, t) ==
  held + Unit * Cardinality(Within(n, s)) >= Capacity * Unit + Rate * (t - s)

(* There is such a time: the creation of the bucket, or when it was last   *)
(* filled to the brim.                                                     *)
Lossless == \E s \in 0..last_check : KeptSince(s, tokens, Len(grants), last_check)

(* A refusal remembers no more grants than there are.                      *)
Numbered == \A x \in refusals : x[2] <= Len(grants)

KInv == IInv /\ Lossless /\ Numbered /\ RefusedOnlyIfTooMany

LEMMA WithinFinite ==
  ASSUME NEW n \in Nat, NEW s
  PROVE  IsFiniteSet(Within(n, s)) /\ Cardinality(Within(n, s)) \in Nat
<1>1. IsFiniteSet(1..n)
  BY FS_Interval
<1>2. Within(n, s) \subseteq 1..n
  BY DEF Within
<1> QED
  BY <1>1, <1>2, FS_Subset, FS_CardinalityType

LEMMA InitKept == Init => KInv
<1> SUFFICES ASSUME Init PROVE KInv
  OBVIOUS
<1>1. Within(0, 0) = {}
  BY DEF Within
<1>2. KeptSince(0, Capacity * Unit, 0, 0)
  BY <1>1, Constants, FS_EmptySet DEF KeptSince
<1>3. Lossless
  BY <1>2 DEF Init, Lossless
<1> QED
  BY <1>3, InitHolds DEF Init, KInv, Numbered, RefusedOnlyIfTooMany

(* The refill of a call at `now` keeps the bound: it is the whole inflow,  *)
(* or it fills the bucket, and then nothing has been granted since.        *)
LEMMA RefillKeeps ==
  ASSUME IInv, Lossless
  PROVE  \E s \in 0..now : KeptSince(s, Refilled, Len(grants), now)
<1>0. /\ now \in Nat /\ last_check \in 0..now /\ tokens \in Nat /\ Len(grants) \in Nat
      /\ \A i \in 1..Len(grants) : grants[i] \in Nat /\ grants[i] <= last_check
      /\ Capacity * Unit \in Nat /\ Unit \in Nat
  BY Constants DEF IInv, TypeOK, Covered
<1>1. PICK s \in 0..last_check : KeptSince(s, tokens, Len(grants), last_check)
  BY DEF Lossless
<1>2. /\ Unit * Cardinality(Within(Len(grants), s)) \in Int
      /\ Rate * (now - s) = Rate * (now - last_check) + Rate * (last_check - s)
      /\ Rate * (now - last_check) \in Nat /\ Rate * (last_check - s) \in Nat
      /\ (now - last_check) * Rate = Rate * (now - last_check)
  BY <1>0, WithinFinite, InflowAdds, Constants
<1>3. CASE Refilled = tokens + Rate * (now - last_check)
  <2>1. KeptSince(s, Refilled, Len(grants), now)
    BY <1>0, <1>1, <1>2, <1>3 DEF KeptSince
  <2> QED
    BY <1>0, <2>1
<1>4. CASE Refilled # tokens + Rate * (now - last_check)
  <2>1. Refilled = Capacity * Unit
    BY <1>2, <1>4 DEF Refilled
  <2>2. last_check # now
    <3> SUFFICES ASSUME last_check = now PROVE FALSE
      OBVIOUS
    <3>1. Rate * (now - last_check) = 0
      BY <1>0, Constants
    <3>2. tokens <= Capacity * Unit
      BY DEF IInv, TypeOK
    <3> QED
      BY <1>0, <1>2, <1>4, <3>1, <3>2 DEF Refilled
  <2>3. Within(Len(grants), now) = {}
    BY <1>0, <2>2 DEF Within
  <2>4. Rate * (now - now) = 0 /\ Unit * 0 = 0 /\ Cardinality({}) = 0
    BY <1>0, Constants, FS_EmptySet
  <2>5. KeptSince(now, Refilled, Len(grants), now)
    BY <1>0, <2>1, <2>3, <2>4 DEF KeptSince
  <2> QED
    BY <1>0, <2>5
<1> QED
  BY <1>3, <1>4

(* A grant counts in every window that reaches to it.                      *)
LEMMA GrantCounts ==
  ASSUME IInv, grants' = Append(grants, now), NEW s \in 0..now
  PROVE  Cardinality(Within(Len(grants), s)') = Cardinality(Within(Len(grants), s)) + 1
<1>1. /\ Len(grants) \in Nat /\ Len(grants') = Len(grants) + 1 /\ grants'[Len(grants) + 1] = now
      /\ \A i \in 1..Len(grants) : grants'[i] = grants[i]
      /\ now \in Nat
  BY DEF IInv, TypeOK
<1>2. Within(Len(grants), s)' = Within(Len(grants), s) \cup {Len(grants) + 1}
  BY <1>1 DEF Within
<1>3. IsFiniteSet(Within(Len(grants), s))
  BY <1>1, WithinFinite
<1>4. Len(grants) + 1 \notin Within(Len(grants), s)
  BY <1>1 DEF Within
<1> QED
  BY <1>2, <1>3, <1>4, FS_AddElement

(* What was too many stays so: the grants it speaks of are past.           *)
LEMMA RefusalsStand ==
  ASSUME IInv, Numbered, RefusedOnlyIfTooMany, grants' \in {grants, Append(grants, now)},
         NEW x \in refusals
  PROVE  TooMany(x[1], x[2])' /\ x[2] <= Len(grants')
<1>1. x[2] \in Nat /\ x[2] <= Len(grants) /\ Len(grants) \in Nat /\ TooMany(x[1], x[2])
  BY DEF IInv, TypeOK, Numbered, RefusedOnlyIfTooMany
<1>2. \A i \in 1..Len(grants) : grants'[i] = grants[i]
  BY DEF IInv, TypeOK
<1>3. Len(grants') \in {Len(grants), Len(grants) + 1}
  BY DEF IInv, TypeOK
<1>4. \A s : {i \in 1..x[2] : grants'[i] >= s} = {i \in 1..x[2] : grants[i] >= s}
  BY <1>1, <1>2
<1>5. TooMany(x[1], x[2])'
  BY <1>1, <1>4 DEF TooMany
<1> QED
  BY <1>1, <1>3, <1>5

LEMMA StepKept == KInv /\ [Next]_vars => KInv'
<1> SUFFICES ASSUME KInv, [Next]_vars PROVE KInv'
  OBVIOUS
<1>0. /\ IInv /\ Lossless /\ Numbered /\ RefusedOnlyIfTooMany /\ now \in Nat
      /\ Len(grants) \in Nat /\ Refilled \in Int /\ Capacity * Unit \in Int /\ Unit \in Nat
  BY Constants, RefilledFacts DEF KInv, IInv, TypeOK
<1>1. IInv'
  BY <1>0, StepHolds
<1>2. CASE UNCHANGED vars
  BY <1>1, <1>2 DEF vars, KInv, Lossless, KeptSince, Within, Numbered, RefusedOnlyIfTooMany, TooMany
<1>3. CASE Tick
  BY <1>1, <1>3 DEF Tick, KInv, Lossless, KeptSince, Within, Numbered, RefusedOnlyIfTooMany, TooMany
<1>4. CASE Consume
  <2>1. PICK s \in 0..now : KeptSince(s, Refilled, Len(grants), now)
    BY <1>0, RefillKeeps
  <2>2. /\ Unit * Cardinality(Within(Len(grants), s)) \in Int /\ Rate * (now - s) \in Int
        /\ Unit * (Cardinality(Within(Len(grants), s)) + 1)
             = Unit * Cardinality(Within(Len(grants), s)) + Unit
    BY <1>0, WithinFinite, Constants
  <2>3. last_check' = now /\ grants' \in {grants, Append(grants, now)}
    BY <1>4 DEF Consume
  <2>4. \A x \in refusals : TooMany(x[1], x[2])' /\ x[2] <= Len(grants')
    BY <1>0, <2>3, RefusalsStand
  <2>5. CASE Refilled < Unit
    <3>1. /\ tokens' = Refilled /\ grants' = grants
          /\ refusals' = refusals \cup {<<now, Len(grants)>>}
      BY <1>0, <1>4, <2>5 DEF Consume
    <3>2. Lossless'
      BY <2>1, <2>3, <3>1 DEF Lossless, KeptSince, Within
    <3>3. Unit * (Cardinality(Within(Len(grants), s)) + 1) > Capacity * Unit + Rate * (now - s)
      BY <1>0, <2>1, <2>2, <2>5 DEF KeptSince
    <3>4. TooMany(now, Len(grants))'
      BY <1>4, <2>1, <3>1, <3>3 DEF Consume, TooMany, Within
    <3>5. RefusedOnlyIfTooMany' /\ Numbered'
      BY <1>0, <1>4, <2>4, <3>1, <3>4 DEF Consume, RefusedOnlyIfTooMany, Numbered
    <3> QED
      BY <1>1, <3>2, <3>5 DEF KInv
  <2>6. CASE Refilled >= Unit
    <3>1. tokens' = Refilled - Unit /\ grants' = Append(grants, now) /\ refusals' = refusals
      BY <1>0, <1>4, <2>6 DEF Consume
    <3>2. Len(grants') = Len(grants) + 1
      BY <3>1 DEF KInv, IInv, TypeOK
    <3>3. Cardinality(Within(Len(grants), s)') = Cardinality(Within(Len(grants), s)) + 1
      BY <1>0, <3>1, GrantCounts
    <3>4. KeptSince(s, tokens, Len(grants), last_check)'
      BY <1>0, <2>1, <2>2, <2>3, <3>1, <3>2, <3>3 DEF KeptSince
    <3>5. Lossless'
      BY <2>1, <2>3, <3>4 DEF Lossless
    <3>6. RefusedOnlyIfTooMany' /\ Numbered'
      BY <2>4, <3>1 DEF RefusedOnlyIfTooMany, Numbered
    <3> QED
      BY <1>1, <3>5, <3>6 DEF KInv
  <2> QED
    BY <1>0, <2>5, <2>6
<1> QED
  BY <1>2, <1>3, <1>4 DEF Next

(* A call is refused only if some window that reaches up to it would hold  *)
(* more calls than a full bucket and the inflow of that window pay for     *)
(* (limits.py:17-24).                                                      *)
THEOREM NoTokenIsLost == Spec => []RefusedOnlyIfTooMany
  BY InitKept, StepKept, PTL DEF Spec, KInv
-----------------------------------------------------------------------------
(* The lane: limiter and cache around the calls of one adapter.            *)
Cached == INSTANCE TTLCacheProofs WITH Keys <- Contents, Values <- Dispatches, NoValue <- None

Controls == {"idle", "calling", "done", "raised", "unknown"}
Finished == {d \in Dispatches : pc[d] \in {"done", "raised"}}

CallsInv ==
  /\ kind \in Classes /\ client \in {"open", "closing", "closed"}
  /\ pc \in [Dispatches -> Controls]
  /\ answer \in [Dispatches -> Dispatches \cup {None}]
  /\ requests_total \in Nat /\ errors_total \in Nat
  /\ IsFiniteSet(Finished) /\ requests_total + errors_total = Cardinality(Finished)
  /\ \A d \in Dispatches : pc[d] # "done" => answer[d] = None

(* What is filed under a content was the answer to a message that says it. *)
FiledInv == \A k \in DOMAIN entries : ContentOf[entries[k].value] = k

GInv == Cached!IInv /\ CallsInv /\ FiledInv /\ SameQuestion

LEMMA CacheAssumed == Cached!CacheAssumption
  BY GuardAssumption, BucketAssumption DEF Cached!CacheAssumption

(* The cache's module and the proofs about it count as this one does.      *)
LEMMA SameFinite ==
  \A S : Cached!IsFiniteSet(S) = IsFiniteSet(S) /\ Cache!IsFiniteSet(S) = IsFiniteSet(S)
  BY Zenon DEF IsFiniteSet, Cached!IsFiniteSet, Cache!IsFiniteSet
LEMMA SameCount ==
  \A S : Cached!Cardinality(S) = Cardinality(S) /\ Cache!Cardinality(S) = Cardinality(S)
  BY SameFinite, Zenon DEF Cardinality, Cached!Cardinality, Cache!Cardinality,
     IsFiniteSet, Cached!IsFiniteSet, Cache!IsFiniteSet

LEMMA CacheTypes ==
  ASSUME Cached!IInv
  PROVE  /\ Cache!TypeOK
         /\ entries \in [DOMAIN entries -> [value : Dispatches, expires_at : Nat]]
         /\ DOMAIN entries \subseteq Contents
         /\ got \in Contents \X (Dispatches \cup {None})
         /\ last \in [Contents -> (Dispatches \cup {None}) \X Nat]
         /\ \A k \in DOMAIN entries : last[k][1] = entries[k].value
<1>1. Cached!TypeOK /\ Cached!Dated
  BY DEF Cached!IInv
<1>2. Cached!Entry = Cache!Entry /\ Cache!Entry = [value : Dispatches, expires_at : Nat]
  BY DEF Cached!Entry, Cache!Entry
<1>3. Cache!TypeOK
  <2>1. /\ entries \in [DOMAIN entries -> Cache!Entry] /\ DOMAIN entries \subseteq Contents
        /\ IsFiniteSet(DOMAIN entries) /\ Cardinality(DOMAIN entries) <= MaxEntries
        /\ order \subseteq (DOMAIN entries) \X (DOMAIN entries) /\ now \in Nat
    BY <1>1, <1>2, SameFinite, SameCount DEF Cached!TypeOK
  <2>2. /\ got \in Contents \X (Dispatches \cup {None})
        /\ last \in [Contents -> (Dispatches \cup {None}) \X Nat]
        /\ since \in [Contents -> SUBSET Contents]
        /\ \A k \in Contents : IsFiniteSet(since[k])
    BY <1>1, SameFinite DEF Cached!TypeOK
  <2> QED
    BY <2>1, <2>2, SameFinite, SameCount DEF Cache!TypeOK
<1> QED
  BY <1>1, <1>2, <1>3 DEF Cache!TypeOK, Cached!Dated

LEMMA CacheStays ==
  ASSUME Cached!IInv, UNCHANGED <<cacheVars, now>>
  PROVE  Cached!IInv'
  BY DEF cacheVars, Cached!IInv, Cached!TypeOK, Cached!Dated, Cached!Tracked, Cached!Missed

LEMMA GetFiled ==
  ASSUME Cached!IInv, FiledInv, NEW k \in Contents, Cache!Get(k)
  PROVE  /\ Cached!IInv' /\ FiledInv' /\ last' = last
         /\ got'[2] # None => /\ got'[2] \in Dispatches /\ ContentOf[got'[2]] = k
                              /\ last[k][1] # None
<1>1. Cached!Get(k)
  BY DEF Cache!Get, Cached!Get, Cache!Purged, Cached!Purged, Cache!MovedToEnd, Cached!MovedToEnd,
         Cache!Among, Cached!Among, Cache!Use, Cached!Use
<1>2. Cached!IInv'
  BY <1>1, CacheAssumed, Cached!GetKeeps
<1>3. /\ entries \in [DOMAIN entries -> [value : Dispatches, expires_at : Nat]]
      /\ \A j \in DOMAIN entries : last[j][1] = entries[j].value
      /\ None \notin Dispatches
  BY CacheTypes, GuardAssumption DEF GuardAssumption
<1>4. /\ entries' = [j \in Cache!Purged |-> entries[j]] /\ last' = last
      /\ Cache!Purged \subseteq DOMAIN entries
      /\ (k \in Cache!Purged /\ got' = <<k, entries[k].value>>) \/ got' = <<k, None>>
  BY DEF Cache!Get, Cache!Purged
<1>5. FiledInv'
  BY <1>4 DEF FiledInv
<1>6. got'[2] # None => got'[2] \in Dispatches /\ ContentOf[got'[2]] = k /\ last[k][1] # None
  BY <1>3, <1>4 DEF FiledInv
<1> QED
  BY <1>2, <1>4, <1>5, <1>6

LEMMA SetFiled ==
  ASSUME Cached!IInv, FiledInv, NEW d \in Dispatches, Cache!Set(ContentOf[d], d)
  PROVE  Cached!IInv' /\ FiledInv' /\ last' = [last EXCEPT ![ContentOf[d]] = <<d, now>>]
<1> DEFINE k == ContentOf[d]
<1>0. k \in Contents
  BY GuardAssumption DEF GuardAssumption
<1>1. Cached!Set(k, d)
  <2>1. Cached!Purged = Cache!Purged /\ Cached!Use(k) = Cache!Use(k)
    BY DEF Cache!Purged, Cached!Purged, Cache!Use, Cached!Use
  <2>2. Cached!MovedToEnd(k, Cache!Purged) = Cache!MovedToEnd(k, Cache!Purged)
    BY DEF Cache!MovedToEnd, Cached!MovedToEnd, Cache!Among, Cached!Among
  <2>3. \A A, o : Cached!Shrunk(A, o) = Cache!Shrunk(A, o)
    BY SameCount DEF Cache!Shrunk, Cached!Shrunk
  <2> QED
    BY <2>1, <2>2, <2>3 DEF Cache!Set, Cached!Set
<1>2. Cached!IInv'
  BY <1>0, <1>1, CacheAssumed, Cached!SetKeeps
<1>3. PICK S \in Cache!Shrunk(Cache!Purged \cup {k}, Cache!MovedToEnd(k, Cache!Purged)) :
        entries' = [j \in S |-> IF j = k THEN [value |-> d, expires_at |-> now + TTL] ELSE entries[j]]
  BY DEF Cache!Set
<1>4. S \subseteq Cache!Purged \cup {k} /\ Cache!Purged \subseteq DOMAIN entries
  BY <1>3 DEF Cache!Shrunk, Cache!Purged
<1>5. FiledInv'
  BY <1>3, <1>4 DEF FiledInv
<1>6. last' = [last EXCEPT ![k] = <<d, now>>]
  BY DEF Cache!Set
<1> QED
  BY <1>2, <1>5, <1>6

-----------------------------------------------------------------------------
(* The calls: how one of them goes on or ends.                             *)
LEMMA GoesOn ==
  ASSUME CallsInv, SameQuestion, NEW d \in Dispatches, NEW p \in {"calling", "unknown"},
         pc[d] \notin {"done", "raised"},
         pc' = [pc EXCEPT ![d] = p],
         UNCHANGED <<answer, requests_total, errors_total, kind, client>>
  PROVE  CallsInv' /\ SameQuestion'
<1>1. pc'[d] = p /\ \A e \in Dispatches : e # d => pc'[e] = pc[e]
  BY DEF CallsInv
<1>2. Finished' = Finished
  BY <1>1 DEF Finished
<1>3. pc' \in [Dispatches -> Controls]
  BY DEF CallsInv, Controls
<1> QED
  BY <1>1, <1>2, <1>3 DEF CallsInv, SameQuestion, Posted

LEMMA Counted ==
  ASSUME CallsInv, NEW d \in Dispatches, NEW p \in {"done", "raised"},
         pc[d] \notin {"done", "raised"}, pc' = [pc EXCEPT ![d] = p]
  PROVE  /\ pc' \in [Dispatches -> Controls]
         /\ pc'[d] = p /\ \A e \in Dispatches : e # d => pc'[e] = pc[e]
         /\ IsFiniteSet(Finished') /\ Cardinality(Finished') = Cardinality(Finished) + 1
         /\ Cardinality(Finished) \in Nat
<1>1. /\ pc' \in [Dispatches -> Controls]
      /\ pc'[d] = p /\ \A e \in Dispatches : e # d => pc'[e] = pc[e]
  BY DEF CallsInv, Controls
<1>2. Finished' = Finished \cup {d} /\ d \notin Finished
  BY <1>1 DEF Finished
<1>3. IsFiniteSet(Finished)
  BY DEF CallsInv
<1> QED
  BY <1>1, <1>2, <1>3, FS_AddElement, FS_CardinalityType

LEMMA Ends ==
  ASSUME CallsInv, SameQuestion, NEW d \in Dispatches, NEW a \in Dispatches \cup {None},
         pc[d] \notin {"done", "raised"}, UNCHANGED <<kind, client>>,
         Answered(d, a) \/ Fails(d),
         Answered(d, a) /\ a # None => Posted(a) = Posted(d)
  PROVE  CallsInv' /\ SameQuestion'
<1>1. CASE Answered(d, a)
  <2>1. /\ pc' = [pc EXCEPT ![d] = "done"] /\ answer' = [answer EXCEPT ![d] = a]
        /\ requests_total' = requests_total + 1 /\ errors_total' = errors_total
    BY <1>1 DEF Answered
  <2>2. /\ pc' \in [Dispatches -> Controls]
        /\ pc'[d] = "done" /\ \A e \in Dispatches : e # d => pc'[e] = pc[e]
        /\ IsFiniteSet(Finished') /\ Cardinality(Finished') = Cardinality(Finished) + 1
        /\ Cardinality(Finished) \in Nat
    BY <2>1, Counted
  <2>3. /\ answer' \in [Dispatches -> Dispatches \cup {None}] /\ answer'[d] = a
        /\ \A e \in Dispatches : e # d => answer'[e] = answer[e]
    BY <2>1 DEF CallsInv
  <2>4. CallsInv'
    BY <2>1, <2>2, <2>3 DEF CallsInv
  <2>5. SameQuestion'
    BY <1>1, <2>3 DEF SameQuestion, Posted, KeyOf
  <2> QED
    BY <2>4, <2>5
<1>2. CASE Fails(d)
  <2>1. /\ pc' = [pc EXCEPT ![d] = "raised"] /\ answer' = answer
        /\ requests_total' = requests_total /\ errors_total' = errors_total + 1
    BY <1>2 DEF Fails
  <2>2. /\ pc' \in [Dispatches -> Controls]
        /\ pc'[d] = "raised" /\ \A e \in Dispatches : e # d => pc'[e] = pc[e]
        /\ IsFiniteSet(Finished') /\ Cardinality(Finished') = Cardinality(Finished) + 1
        /\ Cardinality(Finished) \in Nat
    BY <2>1, Counted
  <2>3. CallsInv'
    BY <2>1, <2>2 DEF CallsInv
  <2>4. SameQuestion'
    BY <2>1 DEF SameQuestion, Posted
  <2> QED
    BY <2>3, <2>4
<1> QED
  BY <1>1, <1>2

-----------------------------------------------------------------------------
(* The invariant is kept by every step.                                    *)
LEMMA GuardInitHolds == GuardInit => GInv
<1> SUFFICES ASSUME GuardInit PROVE GInv
  OBVIOUS
<1>1. Cached!IInv
  <2>1. Cached!Init
    BY DEF GuardInit, Cache!Init, Cached!Init, Init, Cache!Unset, Cached!Unset,
           Cache!Unused, Cached!Unused
  <2> QED
    BY <2>1, CacheAssumed, Cached!InitHolds
<1>2. Finished = {} /\ IsFiniteSet(Finished) /\ Cardinality(Finished) = 0
  <2>1. Finished = {}
    BY DEF GuardInit, Finished
  <2> QED
    BY <2>1, FS_EmptySet
<1>3. CallsInv
  BY <1>2 DEF GuardInit, CallsInv, Controls
<1>4. FiledInv
  BY DEF GuardInit, Cache!Init, FiledInv
<1>5. SameQuestion
  BY DEF GuardInit, SameQuestion
<1> QED
  BY <1>1, <1>3, <1>4, <1>5 DEF GInv

LEMMA StaysFiled ==
  ASSUME Cached!IInv, FiledInv, UNCHANGED <<cacheVars, now>>
  PROVE  Cached!IInv' /\ FiledInv'
<1>1. UNCHANGED entries
  BY DEF cacheVars
<1> QED
  BY <1>1, CacheStays DEF FiledInv

LEMMA TimePassesHolds == GInv /\ TimePasses => GInv'
<1> SUFFICES ASSUME GInv, TimePasses PROVE GInv'
  OBVIOUS
<1>1. Cached!IInv'
  <2>1. Cached!Tick
    BY DEF TimePasses, Tick, cacheVars, Cached!Tick
  <2> QED
    BY <2>1, CacheAssumed, Cached!TickKeeps DEF GInv
<1>2. UNCHANGED <<entries, pc, answer, requests_total, errors_total, kind, client>>
  BY DEF TimePasses, cacheVars, callVars
<1>3. CallsInv' /\ FiledInv' /\ SameQuestion'
  BY <1>2 DEF GInv, CallsInv, Finished, FiledInv, SameQuestion, Posted
<1> QED
  BY <1>1, <1>3 DEF GInv

LEMMA StopsHold == GInv /\ (StopCalled \/ Stopped) => GInv'
<1> SUFFICES ASSUME GInv, StopCalled \/ Stopped PROVE GInv'
  OBVIOUS
<1>1. /\ UNCHANGED <<now, cacheVars, pc, answer, requests_total, errors_total, kind>>
      /\ client' \in {"open", "closing", "closed"}
  BY DEF StopCalled, Stopped, callVars
<1>2. CallsInv' /\ SameQuestion'
  BY <1>1 DEF GInv, CallsInv, Finished, SameQuestion, Posted
<1> QED
  BY <1>1, <1>2, StaysFiled DEF GInv

LEMMA DispatchHolds == GInv /\ (\E d \in Dispatches : Dispatch(d)) => GInv'
<1> SUFFICES ASSUME GInv, NEW d \in Dispatches, Dispatch(d) PROVE GInv'
  OBVIOUS
<1>0. /\ Cached!IInv /\ CallsInv /\ FiledInv /\ SameQuestion
      /\ pc[d] = "idle" /\ UNCHANGED <<kind, client>>
      /\ None \notin Dispatches /\ None \notin Contents
  BY GuardAssumption DEF GInv, Dispatch, GuardAssumption
<1>1. CASE client # "open"
  <2>1. /\ pc' = [pc EXCEPT ![d] = "unknown"]
        /\ UNCHANGED <<now, cacheVars, answer, requests_total, errors_total>>
    BY <1>1 DEF Dispatch
  <2>2. CallsInv' /\ SameQuestion'
    BY <1>0, <2>1, GoesOn
  <2> QED
    BY <1>0, <2>1, <2>2, StaysFiled DEF GInv
<1>2. CASE client = "open"
  <2>1. UNCHANGED now
    BY <1>2 DEF Dispatch, Consume
  <2>2. ASSUME Asked(d) PROVE CallsInv' /\ SameQuestion'
    <3>1. CASE Posts(d)
      BY <1>0, <3>1, GoesOn DEF Posts
    <3>2. CASE Fails(d)
      <4>1. ~Answered(d, None)
        BY <1>0, <3>2 DEF Fails, Answered, CallsInv
      <4> QED
        BY <1>0, <3>2, <4>1, Ends
    <3> QED
      BY <2>2, <3>1, <3>2 DEF Asked, OpenAIAsks, LlamaCppAsks, ZapierAsks
  <2>3. CASE Fails(d) /\ UNCHANGED cacheVars
    <3>1. ~Answered(d, None)
      BY <1>0, <2>3 DEF Fails, Answered, CallsInv
    <3> QED
      BY <1>0, <2>1, <2>3, <3>1, Ends, StaysFiled DEF GInv
  <2>4. CASE Asked(d) /\ UNCHANGED cacheVars
    BY <1>0, <2>1, <2>2, <2>4, StaysFiled DEF GInv
  <2>5. CASE KeyOf(d) # None /\ Cache!Get(KeyOf(d)) /\ got'[2] # None /\ Answered(d, got'[2])
    <3>1. KeyOf(d) = ContentOf[d] /\ KeyOf(d) \in Contents /\ kind # "zapier"
      BY <2>5, GuardAssumption DEF KeyOf, GuardAssumption
    <3>2. /\ Cached!IInv' /\ FiledInv'
          /\ got'[2] \in Dispatches /\ ContentOf[got'[2]] = ContentOf[d]
      BY <1>0, <2>5, <3>1, GetFiled
    <3>3. Posted(got'[2]) = Posted(d)
      BY <3>1, <3>2 DEF Posted
    <3>4. CallsInv' /\ SameQuestion'
      BY <1>0, <2>5, <3>2, <3>3, Ends
    <3> QED
      BY <3>2, <3>4 DEF GInv
  <2>6. CASE KeyOf(d) # None /\ Cache!Get(KeyOf(d)) /\ Asked(d)
    <3>1. KeyOf(d) \in Contents
      BY <2>6, GuardAssumption DEF KeyOf, GuardAssumption
    <3>2. Cached!IInv' /\ FiledInv'
      BY <1>0, <2>6, <3>1, GetFiled
    <3> QED
      BY <2>2, <2>6, <3>2 DEF GInv
  <2> QED
    BY <1>2, <2>3, <2>4, <2>5, <2>6 DEF Dispatch
<1> QED
  BY <1>1, <1>2

LEMMA PostEndsHolds == GInv /\ (\E d \in Dispatches : PostEnds(d)) => GInv'
<1> SUFFICES ASSUME GInv, NEW d \in Dispatches, PostEnds(d) PROVE GInv'
  OBVIOUS
<1>0. /\ Cached!IInv /\ CallsInv /\ FiledInv /\ SameQuestion
      /\ pc[d] = "calling" /\ UNCHANGED <<now, kind, client>> /\ None \notin Dispatches
  BY GuardAssumption DEF GInv, PostEnds, GuardAssumption
<1>1. CASE Responds(d)
  <2>1. Answered(d, d)
    BY <1>1 DEF Responds
  <2>2. CallsInv' /\ SameQuestion'
    BY <1>0, <2>1, Ends
  <2>3. CASE KeyOf(d) # None /\ Cache!Set(KeyOf(d), d)
    <3>1. KeyOf(d) = ContentOf[d]
      BY <2>3 DEF KeyOf
    <3> QED
      BY <1>0, <2>2, <2>3, <3>1, SetFiled DEF GInv
  <2>4. CASE UNCHANGED cacheVars
    BY <1>0, <2>2, <2>4, StaysFiled DEF GInv
  <2> QED
    BY <1>1, <2>3, <2>4 DEF Responds
<1>2. CASE RespondsNothing(d)
  BY <1>0, <1>2, Ends, StaysFiled DEF RespondsNothing, GInv
<1>3. CASE Raises(d)
  <2>1. Fails(d) /\ UNCHANGED cacheVars /\ ~Answered(d, None)
    BY <1>0, <1>3 DEF Raises, Fails, Answered, CallsInv
  <2> QED
    BY <1>0, <2>1, Ends, StaysFiled DEF GInv
<1> QED
  BY <1>1, <1>2, <1>3 DEF PostEnds, OpenAIEnds, LlamaCppEnds, ZapierEnds

LEMMA GuardStepHolds == GInv /\ [GuardNext]_guardVars => GInv'
<1>1. ASSUME GInv, UNCHANGED guardVars PROVE GInv'
  <2>1. UNCHANGED <<now, cacheVars, pc, answer, requests_total, errors_total, kind, client>>
    BY <1>1 DEF guardVars, callVars
  <2>2. CallsInv' /\ SameQuestion'
    BY <1>1, <2>1 DEF GInv, CallsInv, Finished, SameQuestion, Posted
  <2> QED
    BY <1>1, <2>1, <2>2, StaysFiled DEF GInv
<1> QED
  BY <1>1, TimePassesHolds, StopsHold, DispatchHolds, PostEndsHolds DEF GuardNext

(* Around the calls of an adapter the limiter makes the steps it makes     *)
(* alone: what holds of it holds here (manager.py:93-96).                  *)
THEOREM GuardKeepsLimiter == GuardSpec => Spec
<1>1. GuardInit => Init
  BY DEF GuardInit
<1>2. [GuardNext]_guardVars => [Next]_vars
  <2> SUFFICES ASSUME [GuardNext]_guardVars PROVE [Next]_vars
    OBVIOUS
  <2>1. CASE UNCHANGED guardVars
    BY <2>1 DEF guardVars, bucketVars, vars
  <2>2. CASE TimePasses
    BY <2>2 DEF TimePasses, Next
  <2>3. CASE StopCalled \/ Stopped
    BY <2>3 DEF StopCalled, Stopped, bucketVars, vars
  <2>4. ASSUME NEW d \in Dispatches, Dispatch(d) PROVE [Next]_vars
    BY <2>4 DEF Dispatch, Next, bucketVars, vars
  <2>5. ASSUME NEW d \in Dispatches, PostEnds(d) PROVE [Next]_vars
    BY <2>5 DEF PostEnds, bucketVars, vars
  <2> QED
    BY <2>1, <2>2, <2>3, <2>4, <2>5 DEF GuardNext
<1> QED
  BY <1>1, <1>2, PTL DEF GuardSpec, Spec

(* Whatever calls overlap and are answered from the cache, no window of    *)
(* time sees too many grants and no call is refused that its windows had   *)
(* room for (limits.py:17-24, manager.py:93-96).                           *)
THEOREM LaneIsLimited == GuardSpec => []WindowBound /\ []RefusedOnlyIfTooMany
  BY GuardKeepsLimiter, RateIsLimited, NoTokenIsLost, PTL

(* The invariant of the lane, from which what follows is read off.         *)
THEOREM GuardInvariant == GuardSpec => []GInv
  BY GuardInitHolds, GuardStepHolds, PTL DEF GuardSpec

(* Every request is given an answer to what it says: none comes, through   *)
(* the cache, from a message that says something else (manager.py:97-107). *)
THEOREM AlwaysSameQuestion == GuardSpec => []SameQuestion
<1>1. GInv => SameQuestion
  BY DEF GInv
<1> QED
  BY <1>1, GuardInvariant, PTL

(* Limiter, cache and calls stay within their types, and the two counters  *)
(* tell of every call that has ended (manager.py:93-117).                  *)
THEOREM GuardTypeCorrect == GuardSpec => []GuardTypeOK
<1>1. TypeOK /\ GInv => GuardTypeOK
  <2> SUFFICES ASSUME TypeOK, GInv PROVE GuardTypeOK
    OBVIOUS
  <2>1. Cache!TypeOK
    BY CacheTypes DEF GInv
  <2>2. Finished = {d \in Dispatches : pc[d] \in {"done", "raised"}}
    BY DEF Finished
  <2> QED
    BY <2>1, <2>2 DEF GuardTypeOK, GInv, CallsInv, Controls
<1> QED
  BY <1>1, GuardInvariant, GuardKeepsLimiter, BucketTypeCorrect, PTL


-----------------------------------------------------------------------------
(* The lane as GatewayManager sees it.                                     *)
LEMMA Given ==
  /\ Registry \in [{"adapter"} -> {It, None}] /\ State \in [{It} -> {"started", "stopping", "stopped"}]
  /\ Entries["reload"] = <<[name |-> "adapter", conf |-> "config"]>>
  /\ "shutdown" \notin Dispatches /\ "reload" \notin Dispatches /\ It # None /\ "config" # None
  /\ It[1] = "reload" /\ It[2] = "adapter"
  BY ViewAssumption DEF Registry, State, Entries, It, ViewAssumption

LEMMA ItsConf == Manager!ConfOf(It) = "config" /\ "config" # None
<1>1. {Entries["reload"][j] : j \in 1..Len(Entries["reload"])} = {[name |-> "adapter", conf |-> "config"]}
  BY Given
<1>2. (CHOOSE e \in {Entries["reload"][j] : j \in 1..Len(Entries["reload"])} : e.name = "adapter")
        = [name |-> "adapter", conf |-> "config"]
  BY <1>1
<1> QED
  BY <1>2, Given DEF Manager!ConfOf

(* What of the view a call leaves alone, and what of it it changes.        *)
LEMMA ViewStays ==
  ASSUME UNCHANGED <<client, kind, pc, answer>>
  PROVE  UNCHANGED <<Registry, State, Control, Captured, Closing, KeyUsed, Origin>>
<1>1. \A t : StepOf(t)' = StepOf(t) /\ HeldBy(t)' = HeldBy(t)
  BY DEF StepOf, HeldBy
<1> QED
  BY <1>1 DEF Registry, State, Control, Captured, Closing, KeyUsed, KeyOf, Origin

LEMMA ViewOfCall ==
  ASSUME CallsInv, NEW d \in Dispatches, NEW p \in Controls, NEW a \in Dispatches \cup {None},
         pc' = [pc EXCEPT ![d] = p], answer' = [answer EXCEPT ![d] = a],
         UNCHANGED <<client, kind>>
  PROVE  /\ UNCHANGED <<Registry, State, Closing>>
         /\ Control' = [Control EXCEPT ![d] = p]
         /\ Captured' = [Captured EXCEPT ![d] = IF p \in Unheard THEN None ELSE It]
         /\ KeyUsed' = [KeyUsed EXCEPT ![d] = IF p \in Unheard THEN None ELSE KeyOf(d)]
         /\ Origin' = [Origin EXCEPT ![d] = IF a = None THEN None ELSE It]
<1>1. /\ \A t \in Dispatches : pc'[t] = IF t = d THEN p ELSE pc[t]
      /\ \A t \in Dispatches : answer'[t] = IF t = d THEN a ELSE answer[t]
      /\ d \in Tasks /\ \A t : StepOf(t)' = StepOf(t) /\ HeldBy(t)' = HeldBy(t)
  BY DEF CallsInv, Tasks, StepOf, HeldBy
<1>2. UNCHANGED <<Registry, State, Closing>>
  BY DEF Registry, State, Closing
<1>3. Control' = [Control EXCEPT ![d] = p]
  BY <1>1 DEF Control
<1>4. Captured' = [Captured EXCEPT ![d] = IF p \in Unheard THEN None ELSE It]
  BY <1>1 DEF Captured
<1>5. KeyUsed' = [KeyUsed EXCEPT ![d] = IF p \in Unheard THEN None ELSE KeyOf(d)]
  BY <1>1 DEF KeyUsed, KeyOf
<1>6. Origin' = [Origin EXCEPT ![d] = IF a = None THEN None ELSE It]
  BY <1>1 DEF Origin
<1> QED
  BY <1>2, <1>3, <1>4, <1>5, <1>6

(* Nothing said to a call changes what is noted of it.                     *)
LEMMA SameNoted ==
  ASSUME CallsInv, NEW d \in Dispatches, pc[d] # "done"
  PROVE  /\ answer[d] = None /\ answer = [answer EXCEPT ![d] = None]
         /\ Origin[d] = None /\ Origin = [Origin EXCEPT ![d] = None]
  BY DEF CallsInv, Origin

LEMMA StopCalledMaps == StopCalled => Manager!ShutdownCalled("shutdown")
<1> SUFFICES ASSUME StopCalled PROVE Manager!ShutdownCalled("shutdown")
  OBVIOUS
<1>1. /\ client = "open" /\ client' = "closing"
      /\ UNCHANGED <<now, bucketVars, cacheVars, pc, answer, requests_total, errors_total, kind>>
  BY DEF StopCalled, callVars
<1>2. /\ UNCHANGED <<KeyUsed, Origin, Filed>>
      /\ {Registry[n] : n \in {"adapter"}} \ {None} = {It}
  BY <1>1, Given DEF KeyUsed, KeyOf, Origin, Filed, cacheVars, Registry
<1>3. /\ StepOf("shutdown") = "idle" /\ StepOf("shutdown")' = "closing"
      /\ StepOf("reload") = "done" /\ StepOf("reload")' = "done"
      /\ HeldBy("shutdown")' = It /\ HeldBy("reload")' = HeldBy("reload")
  BY <1>1 DEF StepOf, HeldBy
<1>4. /\ Control["shutdown"] = "idle" /\ Control' = [Control EXCEPT !["shutdown"] = "closing"]
      /\ Captured' = [Captured EXCEPT !["shutdown"] = It]
  BY <1>1, <1>3, Given DEF Control, Captured, Tasks
<1>5. State' = [State EXCEPT ![It] = "stopping"] /\ Registry' = [n \in {"adapter"} |-> None]
  BY <1>1 DEF State, Registry
<1>6. Closing' = [Closing EXCEPT !["shutdown"] = {It}]
  BY <1>1 DEF Closing
<1>7. Manager!Close("shutdown", {It}, State)
  BY <1>1, <1>2, <1>4, <1>5, <1>6 DEF Manager!Close, Manager!calls
<1> QED
  BY <1>2, <1>4, <1>5, <1>7 DEF Manager!ShutdownCalled

LEMMA StoppedMaps == Stopped => Manager!ClosingStopped("shutdown")
<1> SUFFICES ASSUME Stopped PROVE Manager!ClosingStopped("shutdown")
  OBVIOUS
<1>1. /\ client = "closing" /\ client' = "closed"
      /\ UNCHANGED <<now, bucketVars, cacheVars, pc, answer, requests_total, errors_total, kind>>
  BY DEF Stopped, callVars
<1>2. UNCHANGED <<KeyUsed, Origin, Filed, Registry, Captured>>
  BY <1>1 DEF KeyUsed, KeyOf, Origin, Filed, cacheVars, Registry, Captured, HeldBy
<1>3. Control["shutdown"] = "closing" /\ Control' = [Control EXCEPT !["shutdown"] = "done"]
  <2>1. /\ StepOf("shutdown") = "closing" /\ StepOf("shutdown")' = "done"
        /\ StepOf("reload") = "done" /\ StepOf("reload")' = "done"
    BY <1>1 DEF StepOf
  <2> QED
    BY <1>1, <2>1, Given DEF Control, Tasks
<1>4. Captured["shutdown"] = It /\ Closing["shutdown"] = {It}
  BY <1>1, Given DEF Captured, HeldBy, Closing, Tasks
<1>5. State' = [State EXCEPT ![It] = "stopped"] /\ Closing' = [Closing EXCEPT !["shutdown"] = {}]
  BY <1>1 DEF State, Closing
<1>6. Manager!Close("shutdown", {}, [State EXCEPT ![It] = "stopped"])
  BY <1>1, <1>2, <1>3, <1>5 DEF Manager!Close, Manager!calls
<1> QED
  BY <1>2, <1>3, <1>4, <1>6 DEF Manager!ClosingStopped

LEMMA DispatchMaps ==
  ASSUME GInv, NEW d \in Dispatches, Dispatch(d)
  PROVE  \E k \in Contents \cup {None} : Manager!DispatchCalled(d, "adapter", k)
<1>0. /\ Cached!IInv /\ CallsInv /\ FiledInv /\ pc[d] = "idle" /\ UNCHANGED <<kind, client>>
      /\ None \notin Dispatches /\ KeyOf(d) \in Contents \cup {None}
      /\ Control[d] = "idle" /\ Registry["adapter"] = IF client = "open" THEN It ELSE None
  BY GuardAssumption DEF GInv, Dispatch, GuardAssumption, KeyOf, Control, Tasks, Registry
<1>1. CASE client # "open"
  <2>1. /\ pc' = [pc EXCEPT ![d] = "unknown"] /\ last' = last
        /\ answer' = [answer EXCEPT ![d] = None] /\ UNCHANGED <<requests_total, errors_total>>
    BY <1>0, <1>1, SameNoted DEF Dispatch, cacheVars
  <2>2. /\ UNCHANGED <<Registry, State, Closing>> /\ Control' = [Control EXCEPT ![d] = "unknown"]
        /\ Captured' = [Captured EXCEPT ![d] = None] /\ KeyUsed' = [KeyUsed EXCEPT ![d] = None]
        /\ Origin' = [Origin EXCEPT ![d] = None]
    BY <1>0, <2>1, ViewOfCall DEF Controls, Unheard
  <2>3. UNCHANGED <<Captured, KeyUsed, Filed>>
    <3>1. Captured[d] = None /\ KeyUsed[d] = None
      BY <1>0 DEF Captured, KeyUsed, Unheard, Tasks
    <3>2. Captured' = Captured /\ KeyUsed' = KeyUsed
      BY <2>2, <3>1 DEF Captured, KeyUsed
    <3> QED
      BY <2>1, <3>2 DEF Filed
  <2>4. Manager!DispatchCalled(d, "adapter", None)
    BY <1>0, <1>1, <2>1, <2>2, <2>3 DEF Manager!DispatchCalled, Manager!End
  <2> QED
    BY <2>4
<1>2. CASE client = "open"
  <2>1. ASSUME Asked(d) \/ Fails(d), UNCHANGED last
        PROVE  Manager!DispatchCalled(d, "adapter", KeyOf(d))
    <3>1. PICK p \in {"calling", "raised"} :
            /\ pc' = [pc EXCEPT ![d] = p] /\ answer' = [answer EXCEPT ![d] = None]
            /\ requests_total' = requests_total
            /\ errors_total' = IF p = "raised" THEN errors_total + 1 ELSE errors_total
      BY <1>0, <2>1, SameNoted DEF Asked, OpenAIAsks, LlamaCppAsks, ZapierAsks, Posts, Fails
    <3>2. /\ UNCHANGED <<Registry, State, Closing>> /\ Control' = [Control EXCEPT ![d] = p]
          /\ Captured' = [Captured EXCEPT ![d] = It] /\ KeyUsed' = [KeyUsed EXCEPT ![d] = KeyOf(d)]
          /\ Origin' = [Origin EXCEPT ![d] = None]
      BY <1>0, <3>1, ViewOfCall DEF Controls, Unheard
    <3>3. UNCHANGED <<Filed, Origin>>
      BY <1>0, <2>1, <3>2, SameNoted DEF Filed
    <3> QED
      BY <1>0, <1>2, <3>1, <3>2, <3>3, Given, ItsConf DEF Manager!DispatchCalled, Manager!End
  <2>2. CASE KeyOf(d) # None /\ Cache!Get(KeyOf(d)) /\ got'[2] # None /\ Answered(d, got'[2])
    <3>1. /\ last' = last /\ got'[2] \in Dispatches /\ last[KeyOf(d)][1] # None
          /\ KeyOf(d) \in Contents
      BY <1>0, <2>2, GetFiled DEF KeyOf
    <3>2. /\ pc' = [pc EXCEPT ![d] = "done"] /\ answer' = [answer EXCEPT ![d] = got'[2]]
          /\ requests_total' = requests_total + 1 /\ errors_total' = errors_total
      BY <2>2 DEF Answered
    <3>3. /\ UNCHANGED <<Registry, State, Closing>> /\ Control' = [Control EXCEPT ![d] = "done"]
          /\ Captured' = [Captured EXCEPT ![d] = It] /\ KeyUsed' = [KeyUsed EXCEPT ![d] = KeyOf(d)]
          /\ Origin' = [Origin EXCEPT ![d] = It]
      BY <1>0, <2>2, <3>1, <3>2, ViewOfCall DEF Controls, Unheard
    <3>4. Filed' = Filed /\ Filed[It][KeyOf(d)] = It
      BY <3>1 DEF Filed
    <3>5. Registry["adapter"] = It /\ It # None /\ Manager!ConfOf(It) # None /\ KeyOf(d) # None
      BY <1>0, <1>2, <2>2, Given, ItsConf
    <3>6. Manager!DispatchCalled(d, "adapter", KeyOf(d))
      BY <1>0, <3>2, <3>3, <3>4, <3>5 DEF Manager!DispatchCalled, Manager!End
    <3> QED
      BY <3>1, <3>6
  <2>3. CASE KeyOf(d) # None /\ Cache!Get(KeyOf(d)) /\ Asked(d)
    <3>1. last' = last
      BY <2>3 DEF Cache!Get
    <3> QED
      BY <1>0, <2>1, <2>3, <3>1
  <2>4. CASE (Asked(d) \/ Fails(d)) /\ UNCHANGED cacheVars
    BY <1>0, <2>1, <2>4 DEF cacheVars
  <2> QED
    BY <1>2, <2>2, <2>3, <2>4 DEF Dispatch
<1> QED
  BY <1>1, <1>2

LEMMA PostEndsMaps ==
  ASSUME GInv, NEW d \in Dispatches, PostEnds(d)
  PROVE  Manager!AdapterAnswers(d)
<1>0. /\ Cached!IInv /\ CallsInv /\ FiledInv /\ pc[d] = "calling" /\ UNCHANGED <<kind, client>>
      /\ None \notin Dispatches /\ KeyOf(d) \in Contents \cup {None}
  BY GuardAssumption DEF GInv, PostEnds, GuardAssumption, KeyOf
<1>1. Control[d] = "calling" /\ Captured[d] = It /\ KeyUsed[d] = KeyOf(d)
  BY <1>0 DEF Control, Captured, KeyUsed, Tasks, Unheard
<1>2. ASSUME NEW p \in {"done", "raised"}, NEW a \in Dispatches \cup {None},
             pc' = [pc EXCEPT ![d] = p], answer' = [answer EXCEPT ![d] = a]
      PROVE  /\ UNCHANGED <<Registry, State, Closing, Captured, KeyUsed>>
             /\ Control' = [Control EXCEPT ![d] = p]
             /\ Origin' = [Origin EXCEPT ![d] = IF a = None THEN None ELSE It]
  <2>1. /\ UNCHANGED <<Registry, State, Closing>> /\ Control' = [Control EXCEPT ![d] = p]
        /\ Captured' = [Captured EXCEPT ![d] = It] /\ KeyUsed' = [KeyUsed EXCEPT ![d] = KeyOf(d)]
        /\ Origin' = [Origin EXCEPT ![d] = IF a = None THEN None ELSE It]
    BY <1>0, <1>2, ViewOfCall DEF Controls, Unheard
  <2> QED
    BY <1>1, <2>1 DEF Captured, KeyUsed
<1>3. CASE Responds(d)
  <2>1. /\ pc' = [pc EXCEPT ![d] = "done"] /\ answer' = [answer EXCEPT ![d] = d]
        /\ requests_total' = requests_total + 1 /\ errors_total' = errors_total
    BY <1>3 DEF Responds, Answered
  <2>2. /\ UNCHANGED <<Registry, State, Closing, Captured, KeyUsed>>
        /\ Control' = [Control EXCEPT ![d] = "done"]
        /\ Origin' = [Origin EXCEPT ![d] = It]
    BY <1>0, <1>2, <2>1
  <2>3. Filed' = IF KeyOf(d) # None THEN [Filed EXCEPT ![It][KeyOf(d)] = It] ELSE Filed
    <3>1. CASE KeyOf(d) # None /\ Cache!Set(KeyOf(d), d)
      <4>1. KeyOf(d) = ContentOf[d] /\ KeyOf(d) \in Contents
        BY <1>0, <3>1 DEF KeyOf
      <4>2. last' = [last EXCEPT ![KeyOf(d)] = <<d, now>>]
        BY <1>0, <3>1, <4>1, SetFiled
      <4>3. \A k \in Contents : last'[k] = IF k = KeyOf(d) THEN <<d, now>> ELSE last[k]
        BY <1>0, <4>2, CacheTypes
      <4>4. \A k \in Contents : (last'[k][1] = None) <=> (k # KeyOf(d) /\ last[k][1] = None)
        BY <1>0, <4>3
      <4>5. Filed' = [i \in {It} |-> [k \in Contents |-> IF k = KeyOf(d) THEN It ELSE Filed[i][k]]]
        BY <4>4 DEF Filed
      <4>6. Filed \in [{It} -> [Contents -> {It, None}]]
        BY DEF Filed
      <4> QED
        BY <3>1, <4>1, <4>5, <4>6
    <3>2. CASE KeyOf(d) = None /\ UNCHANGED cacheVars
      BY <3>2 DEF Filed, cacheVars
    <3> QED
      BY <1>3, <3>1, <3>2 DEF Responds
  <2> QED
    BY <1>1, <2>1, <2>2, <2>3, Given, ItsConf DEF Manager!AdapterAnswers, Manager!End, Manager!FillTarget
<1>4. CASE RespondsNothing(d)
  <2>1. /\ pc' = [pc EXCEPT ![d] = "done"] /\ answer' = [answer EXCEPT ![d] = None]
        /\ requests_total' = requests_total + 1 /\ errors_total' = errors_total /\ Filed' = Filed
    BY <1>4 DEF RespondsNothing, Answered, Filed, cacheVars
  <2>2. /\ UNCHANGED <<Registry, State, Closing, Captured, KeyUsed>>
        /\ Control' = [Control EXCEPT ![d] = "done"]
        /\ Origin' = [Origin EXCEPT ![d] = None]
    BY <1>0, <1>2, <2>1
  <2> QED
    BY <1>1, <2>1, <2>2 DEF Manager!AdapterAnswers, Manager!End
<1>5. CASE Raises(d)
  <2>1. /\ pc' = [pc EXCEPT ![d] = "raised"] /\ answer' = [answer EXCEPT ![d] = None]
        /\ requests_total' = requests_total /\ errors_total' = errors_total + 1 /\ Filed' = Filed
    BY <1>0, <1>5, SameNoted DEF Raises, Fails, Filed, cacheVars
  <2>2. /\ UNCHANGED <<Registry, State, Closing, Captured, KeyUsed>>
        /\ Control' = [Control EXCEPT ![d] = "raised"]
        /\ Origin' = [Origin EXCEPT ![d] = None]
    BY <1>0, <1>2, <2>1
  <2> QED
    BY <1>1, <2>1, <2>2 DEF Manager!AdapterAnswers, Manager!End
<1> QED
  BY <1>3, <1>4, <1>5 DEF PostEnds, OpenAIEnds, LlamaCppEnds, ZapierEnds

LEMMA GuardStepMaps == GInv /\ [GuardNext]_guardVars => [Manager!Next]_(Manager!vars)
<1> SUFFICES ASSUME GInv, [GuardNext]_guardVars PROVE [Manager!Next]_(Manager!vars)
  OBVIOUS
<1>1. CASE UNCHANGED guardVars \/ TimePasses
  <2>1. UNCHANGED <<client, kind, pc, answer, last, requests_total, errors_total>>
    BY <1>1 DEF guardVars, TimePasses, callVars, cacheVars
  <2>2. UNCHANGED <<Registry, State, Control, Captured, Closing, KeyUsed, Origin, Filed>>
    BY <2>1, ViewStays DEF Filed
  <2> QED
    BY <2>1, <2>2 DEF Manager!vars, Manager!registers, Manager!calls
<1>2. CASE StopCalled
  BY <1>2, StopCalledMaps DEF Manager!Next
<1>3. CASE Stopped
  BY <1>3, StoppedMaps DEF Manager!Next
<1>4. ASSUME NEW d \in Dispatches, Dispatch(d) PROVE Manager!Next
  BY <1>4, DispatchMaps DEF Manager!Next
<1>5. ASSUME NEW d \in Dispatches, PostEnds(d) PROVE Manager!Next
  BY <1>5, PostEndsMaps DEF Manager!Next
<1> QED
  BY <1>1, <1>2, <1>3, <1>4, <1>5 DEF GuardNext

(* Whatever limiter, cache and adapter do to the calls, each step of the   *)
(* lane is one GatewayManager has, or none: its properties were shown of   *)
(* a limiter and a cache that allow for these (manager.py:87-119).         *)
THEOREM GuardRefinesManager == GuardSpec => RefinesManager
  BY GuardStepMaps, GuardInvariant, PTL DEF GuardSpec, RefinesManager
=============================================================================
