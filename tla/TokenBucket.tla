----------------------------- MODULE TokenBucket -----------------------------
(***************************************************************************)
(* qr_automation/gateway/limits.py: the rate limiter of one adapter.       *)
(*                                                                         *)
(* Time is counted in ticks and a token in Unit parts, Rate of which flow  *)
(* in per tick: refill_rate = Rate/Unit tokens per tick, any rational.     *)
(* The rounding of floating point is left out.                             *)
(***************************************************************************)
EXTENDS Integers, Sequences, FiniteSets

CONSTANTS
  Capacity,  \* tokens a full bucket holds
  Unit,      \* parts of a token
  Rate,      \* parts that flow in per tick
  MaxTime,   \* bound: the clock stops here
  MaxGrants  \* bound: no call is made after so many grants

ASSUME BucketAssumption ==
  /\ Capacity \in Nat \ {0} /\ Unit \in Nat \ {0} /\ Rate \in Nat \ {0}
  /\ MaxTime \in Nat /\ MaxGrants \in Nat

VARIABLES
  tokens,      \* _tokens, in parts
  last_check,  \* _last_check
  now,         \* time.monotonic(), 0 when the bucket is created
  grants,      \* history: the times of the calls that returned True
  refusals     \* history: for each call that returned False, its time and the grants so far

vars == <<tokens, last_check, now, grants, refusals>>

TypeOK ==
  /\ tokens \in 0..(Capacity * Unit)
  /\ now \in Nat
  /\ last_check \in 0..now
  /\ grants \in Seq(Nat)
  /\ refusals \in SUBSET (Nat \X Nat)

Init == tokens = Capacity * Unit /\ last_check = 0 /\ now = 0 /\ grants = <<>> /\ refusals = {}

Tick == now < MaxTime /\ now' = now + 1 /\ UNCHANGED <<tokens, last_check, grants, refusals>>

(* What the bucket holds once the inflow since the last call is added.     *)
Refilled ==
  IF tokens + (now - last_check) * Rate < Capacity * Unit
  THEN tokens + (now - last_check) * Rate ELSE Capacity * Unit

(* Mutants: a refused call keeps its refill but not its time; its time but *)
(* not its refill.                                                         *)
ConsumeCountsTwice ==
  /\ Len(grants) < MaxGrants
  /\ tokens' = IF Refilled >= Unit THEN Refilled - Unit ELSE Refilled
  /\ last_check' = IF Refilled >= Unit THEN now ELSE last_check
  /\ grants' = IF Refilled >= Unit THEN Append(grants, now) ELSE grants
  /\ UNCHANGED <<now, refusals>>
ConsumeLosesRefill ==
  /\ Len(grants) < MaxGrants
  /\ last_check' = now
  /\ tokens' = IF Refilled >= Unit THEN Refilled - Unit ELSE tokens
  /\ grants' = IF Refilled >= Unit THEN Append(grants, now) ELSE grants
  /\ refusals' = IF Refilled >= Unit THEN refusals ELSE refusals \cup {<<now, Len(grants)>>}
  /\ UNCHANGED now

Consume ==
  /\ Len(grants) < MaxGrants
  /\ last_check' = now
  /\ \/ /\ Refilled >= Unit
        /\ tokens' = Refilled - Unit
        /\ grants' = Append(grants, now)
        /\ UNCHANGED refusals
     \/ /\ Refilled < Unit
        /\ tokens' = Refilled
        /\ refusals' = refusals \cup {<<now, Len(grants)>>}
        /\ UNCHANGED grants
  /\ UNCHANGED now

Next == Tick \/ Consume
Spec == Init /\ [][Next]_vars

-----------------------------------------------------------------------------
(* A call at time t is one too many if, with the first n grants, some      *)
(* window that reaches up to it would hold more calls than a full bucket   *)
(* and the inflow of the window together pay for.                          *)
TooMany(t, n) ==
  \E s \in 0..t :
    Unit * (Cardinality({i \in 1..n : grants[i] >= s}) + 1) > Capacity * Unit + Rate * (t - s)

(* No window of time, wherever it starts, sees more grants than the        *)
(* capacity and what flows in during the window (limits.py:20-22).         *)
WindowBound ==
  \A i, j \in 1..Len(grants) : i <= j =>
    Unit * (j - i + 1) <= Capacity * Unit + Rate * (grants[j] - grants[i])

(* No call is refused that the windows behind it had room for: the bucket  *)
(* loses no token, whatever the pattern of refused calls (limits.py:17-24).*)
RefusedOnlyIfTooMany ==
  \A x \in refusals : TooMany(x[1], x[2])
=============================================================================
