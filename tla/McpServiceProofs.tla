-------------------------- MODULE McpServiceProofs --------------------------
(***************************************************************************)
(* Theorems about McpService for every set of instructions, handlers and   *)
(* policy, every size of the thread pool and every number of processes one *)
(* after the other, with cancellations, failing writes and the death of    *)
(* the process at any time.  No fairness is used.                          *)
(***************************************************************************)
EXTENDS McpService, SequenceTheorems, TLAPS

-----------------------------------------------------------------------------
(* Sequences in which nothing occurs twice: the line of the pool, the      *)
(* queue, the history of what was taken.                                   *)

InLine(s, x) == \E n \in 1..Len(s) : s[n] = x
Distinct(s)  == \A m, n \in 1..Len(s) : s[m] = s[n] => m = n

LEMMA AppendLine ==
  ASSUME NEW S, NEW s \in Seq(S), NEW x \in S
  PROVE  /\ Append(s, x) \in Seq(S) /\ Len(Append(s, x)) = Len(s) + 1
         /\ \A n \in 1..Len(s) : Append(s, x)[n] = s[n]
         /\ Append(s, x)[Len(s) + 1] = x
         /\ \A y : InLine(Append(s, x), y) <=> InLine(s, y) \/ y = x
         /\ Distinct(s) /\ ~InLine(s, x) => Distinct(Append(s, x))
<1> DEFINE t == Append(s, x)
<1>1. /\ t \in Seq(S) /\ Len(t) = Len(s) + 1 /\ t[Len(s) + 1] = x
      /\ \A n \in 1..Len(s) : t[n] = s[n]
  OBVIOUS
<1>2. Len(s) \in Nat /\ \A n \in 1..(Len(s) + 1) : n \in 1..Len(s) \/ n = Len(s) + 1
  OBVIOUS
<1> HIDE DEF t
<1>3. \A y : InLine(t, y) <=> InLine(s, y) \/ y = x
  BY <1>1, <1>2 DEF InLine
<1>4. ASSUME Distinct(s), ~InLine(s, x) PROVE Distinct(t)
  BY <1>1, <1>2, <1>4 DEF Distinct, InLine
<1> QED
  BY <1>1, <1>3, <1>4 DEF t

LEMMA TailLine ==
  ASSUME NEW S, NEW s \in Seq(S), s # <<>>
  PROVE  /\ Head(s) \in S /\ Tail(s) \in Seq(S) /\ InLine(s, Head(s))
         /\ \A y : InLine(s, y) <=> InLine(Tail(s), y) \/ y = Head(s)
         /\ Distinct(s) => Distinct(Tail(s)) /\ ~InLine(Tail(s), Head(s))
<1> DEFINE t == Tail(s)
<1>1. /\ Head(s) \in S /\ t \in Seq(S) /\ Len(s) \in Nat \ {0} /\ Len(t) = Len(s) - 1
      /\ Head(s) = s[1] /\ \A n \in 1..Len(t) : t[n] = s[n + 1]
  OBVIOUS
<1> HIDE DEF t
<1>2. /\ \A n \in 1..Len(t) : n + 1 \in 1..Len(s) /\ n + 1 # 1
      /\ \A n \in 1..Len(s) : n = 1 \/ (n - 1 \in 1..Len(t) /\ s[n] = t[n - 1])
  BY <1>1
<1>3. 1 \in 1..Len(s)
  BY <1>1
<1>4. \A y : InLine(s, y) <=> InLine(t, y) \/ y = Head(s)
  BY <1>1, <1>2, <1>3 DEF InLine
<1>5. ASSUME Distinct(s) PROVE Distinct(t) /\ ~InLine(t, Head(s))
  <2>1. \A m, n \in 1..Len(t) : m + 1 = n + 1 => m = n
    OBVIOUS
  <2> QED
    BY <1>1, <1>2, <1>3, <1>5, <2>1 DEF Distinct, InLine
<1> QED
  BY <1>1, <1>3, <1>4, <1>5 DEF t, InLine

LEMMA RemoveLine ==
  ASSUME NEW S, NEW s \in Seq(S), NEW x, Distinct(s)
  PROVE  /\ RemoveFirst(s, x) \in Seq(S) /\ Distinct(RemoveFirst(s, x))
         /\ \A y : InLine(RemoveFirst(s, x), y) <=> InLine(s, y) /\ y # x
<1>1. CASE ~InLine(s, x)
  <2>1. RemoveFirst(s, x) = s
    BY <1>1 DEF RemoveFirst, InLine
  <2> QED
    BY <1>1, <2>1
<1>2. CASE InLine(s, x)
  <2>1. PICK i \in 1..Len(s) : s[i] = x
    BY <1>2 DEF InLine
  <2>2. \A n \in 1..Len(s) : s[n] = x <=> n = i
    BY <2>1 DEF Distinct
  <2>3. {n \in 1..Len(s) : s[n] = x} = {i}
    BY <2>2
  <2>4. SelectInSeq(s, LAMBDA v : v = x) = i
    BY <2>3 DEF SelectInSeq, Min
  <2> DEFINE a == SubSeq(s, 1, i - 1)
             b == SubSeq(s, i + 1, Len(s))
             t == a \o b
  <2>5. RemoveFirst(s, x) = t
    BY <2>1, <2>4 DEF RemoveFirst, RemoveAt
  <2>6. /\ a \in Seq(S) /\ Len(a) = i - 1 /\ \A n \in 1..(i - 1) : a[n] = s[n]
        /\ b \in Seq(S) /\ Len(b) = Len(s) - i /\ \A n \in 1..(Len(s) - i) : b[n] = s[n + i]
    OBVIOUS
  <2>7. /\ t \in Seq(S) /\ Len(t) = Len(s) - 1
        /\ \A n \in 1..Len(t) : t[n] = IF n < i THEN s[n] ELSE s[n + 1]
    <3>1. t \in Seq(S) /\ Len(t) = Len(a) + Len(b)
      <4>1. a \in Seq(S) /\ b \in Seq(S)
        BY <2>6
      <4> HIDE DEF a, b
      <4> QED
        BY <4>1
    <3> HIDE DEF a, b
    <3>2. \A n \in 1..Len(t) : t[n] = IF n <= Len(a) THEN a[n] ELSE b[n - Len(a)]
      BY <2>6
    <3>3. Len(t) = Len(s) - 1
      BY <2>6, <3>1
    <3>4. ASSUME NEW n \in 1..Len(t) PROVE t[n] = IF n < i THEN s[n] ELSE s[n + 1]
      <4>1. CASE n < i
        BY <2>6, <3>2, <4>1
      <4>2. CASE n >= i
        <5>1. n - Len(a) \in 1..(Len(s) - i) /\ (n - Len(a)) + i = n + 1
          BY <2>6, <3>3, <4>2
        <5>2. t[n] = b[n - Len(a)]
          BY <2>6, <3>2, <4>2
        <5> QED
          BY <2>6, <4>2, <5>1, <5>2
      <4> QED
        BY <4>1, <4>2
    <3> QED
      BY <3>1, <3>3, <3>4
  <2> HIDE DEF t
  <2> DEFINE From(n) == IF n < i THEN n ELSE n + 1
  <2>8. \A n \in 1..Len(t) : From(n) \in 1..Len(s) /\ From(n) # i /\ t[n] = s[From(n)]
    BY <2>7
  <2>9. \A m, n \in 1..Len(t) : From(m) = From(n) => m = n
    OBVIOUS
  <2>10. \A n \in 1..Len(s) : n # i => \E m \in 1..Len(t) : From(m) = n
    <3> SUFFICES ASSUME NEW n \in 1..Len(s), n # i PROVE \E m \in 1..Len(t) : From(m) = n
      OBVIOUS
    <3>1. CASE n < i
      BY <2>7, <3>1
    <3>2. CASE n > i
      <4>1. n - 1 \in 1..Len(t) /\ From(n - 1) = n
        BY <2>7, <3>2
      <4> QED
        BY <4>1
    <3> QED
      BY <3>1, <3>2
  <2> HIDE DEF From
  <2>11. Distinct(t)
    BY <2>8, <2>9 DEF Distinct
  <2>12. \A y : InLine(t, y) <=> InLine(s, y) /\ y # x
    BY <2>2, <2>8, <2>10 DEF InLine
  <2> QED
    BY <2>5, <2>7, <2>11, <2>12
<1> QED
  BY <1>1, <1>2

-----------------------------------------------------------------------------
(* The lives: parts of a sequence that only grows.                         *)

LEMMA PartAppend ==
  ASSUME NEW S, NEW s \in Seq(S), NEW b, Cuts(b, s), NEW x \in S
  PROVE  /\ Cuts(b, Append(s, x))
         /\ Part(Append(s, x), b, Len(b)) = Append(Part(s, b, Len(b)), x)
         /\ \A L \in 1..Len(b) : L # Len(b) => Part(Append(s, x), b, L) = Part(s, b, L)
<1> DEFINE t == Append(s, x)
<1>1. /\ t \in Seq(S) /\ Len(t) = Len(s) + 1 /\ t[Len(s) + 1] = x
      /\ \A n \in 1..Len(s) : t[n] = s[n]
  OBVIOUS
<1>2. /\ b \in Seq(Nat) /\ Len(b) \in Nat \ {0} /\ Len(s) \in Nat
      /\ \A L \in 1..Len(b) : b[L] \in Nat /\ b[L] <= Len(s) /\ (L > 1 => b[L - 1] <= b[L])
  BY DEF Cuts
<1> HIDE DEF t
<1>3. Cuts(b, t)
  BY <1>1, <1>2 DEF Cuts
<1>4. ASSUME NEW m \in Nat, NEW n \in Nat, n <= Len(s)
      PROVE  SubSeq(t, m + 1, n) = SubSeq(s, m + 1, n)
  <2> DEFINE u == SubSeq(t, m + 1, n)
             v == SubSeq(s, m + 1, n)
  <2>1. /\ u \in Seq(S) /\ Len(u) = (IF m + 1 <= n THEN n - m ELSE 0)
        /\ \A k \in 1..Len(u) : u[k] = t[m + k]
    BY <1>1, <1>2, <1>4, SubSeqProperties
  <2>2. /\ v \in Seq(S) /\ Len(v) = (IF m + 1 <= n THEN n - m ELSE 0)
        /\ \A k \in 1..Len(v) : v[k] = s[m + k]
    BY <1>2, <1>4, SubSeqProperties
  <2> HIDE DEF u, v
  <2>3. Len(u) = Len(v) /\ \A k \in 1..Len(u) : u[k] = v[k]
    <3>1. \A k \in 1..Len(u) : m + k \in 1..Len(s)
      BY <1>2, <1>4, <2>1
    <3> QED
      BY <1>1, <2>1, <2>2, <3>1
  <2>4. u = v
    BY <2>1, <2>2, <2>3, SeqEqual
  <2> QED
    BY <2>4 DEF u, v
<1>5. ASSUME NEW m \in Nat, m <= Len(s)
      PROVE  SubSeq(t, m + 1, Len(t)) = Append(SubSeq(s, m + 1, Len(s)), x)
  <2> DEFINE u == SubSeq(t, m + 1, Len(t))
             v == SubSeq(s, m + 1, Len(s))
             w == Append(v, x)
  <2>1. /\ u \in Seq(S) /\ Len(u) = Len(s) + 1 - m
        /\ \A k \in 1..Len(u) : u[k] = t[m + k]
    BY <1>1, <1>2, <1>5, SubSeqProperties
  <2>2. /\ v \in Seq(S) /\ Len(v) = Len(s) - m
        /\ \A k \in 1..Len(v) : v[k] = s[m + k]
    BY <1>2, <1>5, SubSeqProperties
  <2> HIDE DEF u, v
  <2>3. /\ w \in Seq(S) /\ Len(w) = Len(v) + 1 /\ w[Len(v) + 1] = x
        /\ \A k \in 1..Len(v) : w[k] = v[k]
    BY <2>2
  <2> HIDE DEF w
  <2>4. ASSUME NEW k \in 1..Len(u) PROVE u[k] = w[k]
    <3>1. CASE k <= Len(s) - m
      <4>1. k \in 1..Len(v) /\ m + k \in 1..Len(s)
        BY <1>2, <1>5, <2>1, <2>2, <3>1
      <4> QED
        BY <1>1, <2>1, <2>2, <2>3, <4>1
    <3>2. CASE k > Len(s) - m
      <4>1. k \in Nat /\ k <= Len(s) + 1 - m /\ Len(v) = Len(s) - m
        BY <1>2, <1>5, <2>1, <2>2
      <4>2. Len(s) \in Nat /\ m \in Nat
        BY <1>2
      <4>3. k = Len(s) + 1 - m
        BY <3>2, <4>1, <4>2
      <4>4. k = Len(v) + 1 /\ m + k = Len(s) + 1
        BY <4>1, <4>2, <4>3
      <4> QED
        BY <1>1, <2>1, <2>3, <4>4
    <3> QED
      BY <1>2, <1>5, <2>1, <3>1, <3>2
  <2>5. Len(u) = Len(w)
    BY <1>2, <1>5, <2>1, <2>2, <2>3
  <2>6. u = w
    BY <2>1, <2>3, <2>4, <2>5, SeqEqual
  <2> QED
    BY <2>6 DEF u, v, w
<1>6. Part(t, b, Len(b)) = Append(Part(s, b, Len(b)), x)
  <2>1. b[Len(b)] \in Nat /\ b[Len(b)] <= Len(s)
    BY <1>2
  <2> QED
    BY <1>5, <2>1 DEF Part
<1>7. ASSUME NEW L \in 1..Len(b), L # Len(b) PROVE Part(t, b, L) = Part(s, b, L)
  <2>1. L + 1 \in 1..Len(b)
    BY <1>2, <1>7
  <2>2. b[L] \in Nat /\ b[L + 1] \in Nat /\ b[L + 1] <= Len(s)
    BY <1>2, <2>1
  <2> QED
    BY <1>4, <1>7, <2>2 DEF Part
<1> QED
  BY <1>3, <1>6, <1>7 DEF t

LEMMA PartBegins ==
  ASSUME NEW S, NEW s \in Seq(S), NEW b, Cuts(b, s), NEW c, c = Append(b, Len(s))
  PROVE  /\ Cuts(c, s) /\ Len(c) = Len(b) + 1 /\ Part(s, c, Len(c)) = <<>>
         /\ \A L \in 1..Len(c) : L # Len(c) => L \in 1..Len(b) /\ Part(s, c, L) = Part(s, b, L)
<1>1. /\ b \in Seq(Nat) /\ Len(b) \in Nat \ {0} /\ Len(s) \in Nat
      /\ \A L \in 1..Len(b) : b[L] \in Nat /\ b[L] <= Len(s) /\ (L > 1 => b[L - 1] <= b[L])
  BY DEF Cuts
<1>2. /\ c \in Seq(Nat) /\ Len(c) = Len(b) + 1 /\ c[Len(b) + 1] = Len(s)
      /\ \A L \in 1..Len(b) : c[L] = b[L]
  BY <1>1
<1>3. Cuts(c, s)
  <2>1. c # <<>>
    BY <1>1, <1>2
  <2>2. ASSUME NEW L \in 1..Len(c) PROVE c[L] <= Len(s) /\ (L > 1 => c[L - 1] <= c[L])
    <3>1. CASE L \in 1..Len(b)
      BY <1>1, <1>2, <3>1
    <3>2. CASE L = Len(b) + 1
      BY <1>1, <1>2, <3>2
    <3> QED
      BY <1>1, <1>2, <3>1, <3>2
  <2> QED
    BY <1>2, <2>1, <2>2 DEF Cuts
<1>4. Part(s, c, Len(c)) = <<>>
  <2>1. SubSeq(s, Len(s) + 1, Len(s)) = <<>>
    BY <1>1, SubSeqEmpty
  <2> QED
    BY <1>2, <2>1 DEF Part
<1>5. ASSUME NEW L \in 1..Len(c), L # Len(c) PROVE L \in 1..Len(b) /\ Part(s, c, L) = Part(s, b, L)
  <2>1. L \in 1..Len(b)
    BY <1>1, <1>2, <1>5
  <2>2. c[L] = b[L] /\ c[L + 1] = IF L = Len(b) THEN Len(s) ELSE b[L + 1]
    <3>1. CASE L = Len(b)
      BY <1>1, <1>2, <2>1, <3>1
    <3>2. CASE L # Len(b)
      <4>1. L + 1 \in 1..Len(b)
        BY <1>1, <2>1, <3>2
      <4> QED
        BY <1>2, <2>1, <3>2, <4>1
    <3> QED
      BY <3>1, <3>2
  <2> QED
    BY <1>5, <2>1, <2>2 DEF Part
<1> QED
  BY <1>2, <1>3, <1>4, <1>5

LEMMA PartType ==
  ASSUME NEW S, NEW s \in Seq(S), NEW b, Cuts(b, s)
  PROVE  Part(s, b, Len(b)) \in Seq(S) /\ Len(b) \in 1..Len(b)
<1>1. b \in Seq(Nat) /\ Len(b) \in Nat \ {0} /\ Len(s) \in Nat /\ Len(b) \in 1..Len(b)
  BY DEF Cuts
<1>2. b[Len(b)] \in Nat
  BY <1>1
<1>3. SubSeq(s, b[Len(b)] + 1, Len(s)) \in Seq(S)
  BY <1>1, <1>2, SubSeqProperties
<1> QED
  BY <1>1, <1>3 DEF Part

-----------------------------------------------------------------------------
(* What a life adds to the two files, and what it takes.                   *)

Clean(s) == \A n \in 1..Len(s) : s[n][2] # "cut"

LEMMA Uncut == \A s \in Statuses : s # "cut"
  BY DEF Statuses

LEMMA CleanAppend ==
  ASSUME NEW s \in Seq(Lines), Clean(s), NEW x \in Lines, x[2] # "cut"
  PROVE  Clean(Append(s, x))
<1> DEFINE t == Append(s, x)
<1>1. /\ Len(t) = Len(s) + 1 /\ Len(s) \in Nat /\ t[Len(s) + 1] = x
      /\ \A n \in 1..Len(s) : t[n] = s[n]
  OBVIOUS
<1> HIDE DEF t
<1>2. Clean(t)
  BY <1>1 DEF Clean
<1> QED
  BY <1>2 DEF t

LEMMA CopiedSame ==
  ASSUME NEW r \in Seq(Lines), Clean(r)
  PROVE  Copied(r, r)
<1>1. Len(r) \in Nat
  OBVIOUS
<1> QED
  BY <1>1 DEF Copied, Clean

LEMMA CopiedAhead ==
  ASSUME NEW a \in Seq(Lines), Clean(a), NEW x \in Lines
  PROVE  Copied(a, Append(a, x))
<1> DEFINE t == Append(a, x)
<1>1. /\ Len(t) = Len(a) + 1 /\ Len(a) \in Nat /\ t[Len(a) + 1] = x
      /\ \A n \in 1..Len(a) : t[n] = a[n]
  OBVIOUS
<1> HIDE DEF t
<1>2. Copied(a, t)
  BY <1>1 DEF Copied, Clean
<1> QED
  BY <1>2 DEF t

LEMMA CopiedLast ==
  ASSUME NEW a \in Seq(Lines), Clean(a), NEW i \in Instructions, NEW s \in Statuses,
         NEW v \in {s, "cut"}
  PROVE  Copied(Append(a, <<i, v>>), Append(a, <<i, s>>))
<1> DEFINE t == Append(a, <<i, v>>)
           u == Append(a, <<i, s>>)
<1>1. /\ Len(t) = Len(a) + 1 /\ Len(a) \in Nat /\ t[Len(a) + 1] = <<i, v>>
      /\ \A n \in 1..Len(a) : t[n] = a[n]
  OBVIOUS
<1>2. /\ Len(u) = Len(a) + 1 /\ u[Len(a) + 1] = <<i, s>>
      /\ \A n \in 1..Len(a) : u[n] = a[n]
  OBVIOUS
<1> HIDE DEF t, u
<1>3. \A n \in 1..Len(u) : u[n][2] # "cut"
  BY <1>1, <1>2, Uncut DEF Clean
<1>4. \A n \in 1..Len(t) : t[n] = u[n] \/ (n = Len(u) /\ t[n] = <<u[n][1], "cut">>)
  BY <1>1, <1>2
<1>5. Copied(t, u)
  BY <1>1, <1>2, <1>3, <1>4 DEF Copied
<1> QED
  BY <1>5 DEF t, u

LEMMA PrefixLine ==
  ASSUME NEW S, NEW s \in Seq(S), NEW x \in S
  PROVE  IsPrefix(s, s) /\ IsPrefix(s, Append(s, x))
<1>1. Len(s) \in Nat /\ Append(s, x) \in Seq(S) /\ Len(Append(s, x)) = Len(s) + 1
  OBVIOUS
<1>2. SubSeq(s, 1, Len(s)) = s /\ SubSeq(Append(s, x), 1, Len(s)) = s
  OBVIOUS
<1> QED
  BY <1>1, <1>2 DEF IsPrefix

LEMMA AppendIds ==
  ASSUME NEW s \in Seq(Lines)
  PROVE  /\ Ids(s) \in Seq(Instructions) /\ Len(Ids(s)) = Len(s)
         /\ \A x \in Lines : Ids(Append(s, x)) = Append(Ids(s), x[1])
<1>1. \A n \in 1..Len(s) : s[n] \in Lines
  OBVIOUS
<1>2. Len(s) \in Nat /\ \A n \in 1..Len(s) : s[n][1] \in Instructions
  BY <1>1 DEF Lines
<1>3. Ids(s) \in Seq(Instructions) /\ Len(Ids(s)) = Len(s)
  BY <1>2 DEF Ids
<1>4. ASSUME NEW x \in Lines PROVE Ids(Append(s, x)) = Append(Ids(s), x[1])
  <2> DEFINE t == Append(s, x)
             u == Append(Ids(s), x[1])
  <2>1. /\ Len(t) = Len(s) + 1 /\ t[Len(s) + 1] = x
        /\ \A n \in 1..Len(s) : t[n] = s[n]
    OBVIOUS
  <2>2. x[1] \in Instructions
    BY DEF Lines
  <2>3. /\ u \in Seq(Instructions) /\ Len(u) = Len(s) + 1 /\ u[Len(s) + 1] = x[1]
        /\ \A n \in 1..Len(s) : u[n] = Ids(s)[n]
    BY <1>3, <2>2
  <2>4. \A n \in 1..Len(s) : Ids(s)[n] = s[n][1]
    BY DEF Ids
  <2> HIDE DEF t, u
  <2>5. Ids(t) \in Seq(Instructions) /\ Len(Ids(t)) = Len(s) + 1
    <3>1. \A n \in 1..(Len(s) + 1) : t[n][1] \in Instructions
      BY <1>2, <2>1, <2>2
    <3> QED
      BY <1>2, <2>1, <3>1 DEF Ids
  <2>6. \A n \in 1..Len(Ids(t)) : Ids(t)[n] = u[n]
    BY <1>2, <2>1, <2>3, <2>4, <2>5 DEF Ids
  <2>7. Ids(t) = u
    BY <2>3, <2>5, <2>6, SeqEqual
  <2> QED
    BY <2>7 DEF t, u
<1> QED
  BY <1>3, <1>4

LEMMA InTurnNow ==
  ASSUME NEW r \in Seq(Lines)
  PROVE  InTurn(r, Ids(r)) /\ \A i \in Instructions : InTurn(r, Append(Ids(r), i))
<1>1. Ids(r) \in Seq(Instructions) /\ Len(Ids(r)) = Len(r) /\ Len(r) \in Nat
  BY AppendIds
<1>2. ASSUME NEW i \in Instructions PROVE InTurn(r, Append(Ids(r), i))
  <2>1. Len(Append(Ids(r), i)) = Len(r) + 1
    BY <1>1
  <2> QED
    BY <1>1, <2>1, PrefixLine DEF InTurn
<1>3. InTurn(r, Ids(r))
  <2>1. SubSeq(Ids(r), 1, Len(Ids(r))) = Ids(r)
    BY <1>1
  <2> QED
    BY <1>1, <2>1 DEF InTurn, IsPrefix
<1> QED
  BY <1>2, <1>3

-----------------------------------------------------------------------------
(* The pool: js are the jobs in line, ac those that have a thread.         *)

In(js, ac, j) == j \in ac \/ InLine(js, j)
Once(js, ac)  == Distinct(js) /\ \A n \in 1..Len(js) : js[n] \notin ac

LEMMA InAppend ==
  ASSUME NEW js \in Seq(Job), NEW ac, NEW x \in Job, Once(js, ac), ~In(js, ac, x)
  PROVE  /\ Append(js, x) \in Seq(Job) /\ Once(Append(js, x), ac)
         /\ \A j : In(Append(js, x), ac, j) <=> In(js, ac, j) \/ j = x
<1> DEFINE t == Append(js, x)
<1>1. /\ t \in Seq(Job) /\ Distinct(t)
      /\ \A j : InLine(t, j) <=> InLine(js, j) \/ j = x
  BY AppendLine DEF Once, In
<1>2. \A j \in ac : ~InLine(js, j) /\ j # x
  BY DEF Once, In, InLine
<1> HIDE DEF t
<1>3. \A n \in 1..Len(t) : t[n] \notin ac
  BY <1>1, <1>2 DEF InLine
<1> QED
  BY <1>1, <1>3 DEF t, Once, In

LEMMA InRemove ==
  ASSUME NEW js \in Seq(Job), NEW ac, NEW x, Once(js, ac)
  PROVE  /\ RemoveFirst(js, x) \in Seq(Job) /\ Once(RemoveFirst(js, x), ac)
         /\ \A j : In(RemoveFirst(js, x), ac, j) <=> j \in ac \/ (InLine(js, j) /\ j # x)
<1> DEFINE t == RemoveFirst(js, x)
<1>1. /\ t \in Seq(Job) /\ Distinct(t)
      /\ \A j : InLine(t, j) <=> InLine(js, j) /\ j # x
  BY RemoveLine DEF Once
<1> HIDE DEF t
<1>2. \A n \in 1..Len(t) : t[n] \notin ac
  BY <1>1 DEF InLine, Once
<1> QED
  BY <1>1, <1>2 DEF t, Once, In

LEMMA InStart ==
  ASSUME NEW js \in Seq(Job), NEW ac, js # <<>>, Once(js, ac)
  PROVE  /\ Head(js) \in Job /\ Tail(js) \in Seq(Job) /\ Head(js) \notin ac
         /\ Once(Tail(js), ac \cup {Head(js)}) /\ InLine(js, Head(js))
         /\ \A j : In(Tail(js), ac \cup {Head(js)}, j) <=> In(js, ac, j)
<1> DEFINE t == Tail(js)
           h == Head(js)
<1>1. /\ h \in Job /\ t \in Seq(Job) /\ Distinct(t) /\ ~InLine(t, h) /\ InLine(js, h)
      /\ \A j : InLine(js, j) <=> InLine(t, j) \/ j = h
  BY TailLine DEF Once
<1>2. \A j \in ac : ~InLine(js, j)
  BY DEF Once, InLine
<1> HIDE DEF t, h
<1>3. \A n \in 1..Len(t) : t[n] \notin ac \cup {h}
  BY <1>1, <1>2 DEF InLine
<1> QED
  BY <1>1, <1>2, <1>3 DEF t, h, Once, In

LEMMA InEnd ==
  ASSUME NEW js, NEW ac, NEW x \in ac, Once(js, ac)
  PROVE  /\ Once(js, ac \ {x})
         /\ \A j : In(js, ac \ {x}, j) <=> In(js, ac, j) /\ j # x
  BY DEF Once, In, InLine

-----------------------------------------------------------------------------
(* The inductive invariant.                                                *)

Pooled(j)  == In(jobs, active, j)
Writes     == {"result", "audit"}
Writing(k) == Pooled(<<k, cur>>)

(* The loop writes one line at a time, and what is in the pool is there    *)
(* once.                                                                   *)
OncePooled ==
  /\ Once(jobs, active)
  /\ \A i \in Instructions, k \in Writes : Pooled(<<k, i>>) => i = cur
  /\ ~(Writing("result") /\ Writing("audit"))
  /\ \A k \in Writes : pc \notin Down => (pc = k <=> Writing(k))

(* An instruction passes through the queue once.                           *)
Engaged == {"executing", "waiting", "result", "audit"}
OnceTaken ==
  /\ Distinct(taken) /\ Distinct(queue)
  /\ \A i \in Instructions : InLine(queue, i) => ~InLine(taken, i)
  /\ \A i \in Instructions : InLine(queue, i) \/ InLine(taken, i) => manifest[i] # None
  /\ pc \in Engaged => cur \in Instructions /\ InLine(taken, cur)

(* The parts of the life that runs; those of the lives before it.          *)
Reports == Part(results, resultsAt, Len(resultsAt))
Records == Part(audits, auditsAt, Len(auditsAt))
Takes   == Part(taken, takenAt, Len(takenAt))
Past ==
  \A L \in 1..Len(takenAt) : L # Len(takenAt) =>
    /\ Copied(Part(audits, auditsAt, L), Part(results, resultsAt, L))
    /\ InTurn(Part(results, resultsAt, L), Part(taken, takenAt, L))

(* The two files, from what the loop and the pool are doing.               *)
Recorded ==
  /\ Copied(Records, Reports)
  /\ pc \in {"getting", "executing", "waiting"} \/ Writing("result") =>
       Records = Reports /\ Clean(Reports)
  /\ Writing("audit") => Reports = Append(Records, <<cur, status>>) /\ Clean(Records)
  /\ Writing("result") \/ Writing("audit") => status \in Statuses

Reported ==
  /\ InTurn(Reports, Takes)
  /\ pc \in {"executing", "waiting"} \/ Writing("result") =>
       /\ Takes = Append(Ids(Reports), cur) /\ InLine(taken, cur)
       /\ \A n \in 1..Len(results) : results[n][1] # cur
  /\ pc \in {"getting", "audit", "ended"} => Takes = Ids(Reports)
  /\ \A n \in 1..Len(results) : InLine(taken, results[n][1])

(* Statuses that deny an effect; an instruction whose action has neither   *)
(* begun nor can begin; what has to be granted before it may.              *)
Denied(s)     == s \notin {"logged", "ok", "failed", "error", "timeout", "cut"}
Untouched(i)  == effect[i] = "none" /\ ~Pooled(<<"command", i>>)
Sanctioned(i) == /\ ~BadSignature(manifest[i]) /\ ~Trips(manifest[i])
                 /\ Handlers[manifest[i].action] # None
                 /\ May(manifest[i])
Covered(i)    == Sanctioned(i) /\ ~DryRun /\ ~manifest[i].dry_run

Accounted ==
  /\ \A i \in Instructions : ~Untouched(i) => InLine(taken, i) /\ Covered(i)
  /\ pc = "executing" => Sanctioned(cur) /\ Untouched(cur)
  /\ pc = "waiting" => Covered(cur)
  /\ (Writing("result") \/ Writing("audit")) /\ Denied(status) => Untouched(cur)
  /\ \A n \in 1..Len(results) : Denied(results[n][2]) => Untouched(results[n][1])

IInv == TypeOK /\ Past /\ OncePooled /\ OnceTaken /\ Recorded /\ Reported /\ Accounted

LEMMA InitHolds == Init => IInv
<1> SUFFICES ASSUME Init PROVE IInv
  OBVIOUS
<1>1. \A j : ~Pooled(j)
  BY DEF Init, Pooled, In, InLine
<1>2. \A i : ~InLine(queue, i) /\ ~InLine(taken, i)
  BY DEF Init, InLine
<1>3. Cuts(takenAt, taken) /\ Cuts(resultsAt, results) /\ Cuts(auditsAt, audits)
  <2>1. Cuts(<<0>>, <<>>)
    BY DEF Cuts
  <2> QED
    BY <2>1 DEF Init
<1>3a. TypeOK
  <2>1. \A S : <<>> \in Seq(S)
    OBVIOUS
  <2>2. /\ manifest \in [Instructions -> Kinds \cup {None}]
        /\ effect \in [Instructions -> {"none", "begun", "ended"}]
        /\ pc = "getting" /\ stop \in BOOLEAN
    BY DEF Init
  <2> QED
    BY <1>3, <2>1, <2>2 DEF Init, TypeOK
<1>4. OncePooled
  BY <1>1 DEF Init, OncePooled, Once, Distinct, Writing, Writes
<1>5. OnceTaken
  BY <1>2 DEF Init, OnceTaken, Distinct, Engaged
<1>6. Past /\ Recorded /\ Reported
  <2>1. Reports = <<>> /\ Records = <<>> /\ Takes = <<>>
    BY SubSeqEmpty DEF Init, Reports, Records, Takes, Part
  <2>2. <<>> \in Seq(Lines) /\ Clean(<<>>) /\ Ids(<<>>) = <<>>
    BY DEF Clean, Ids
  <2>3. Copied(<<>>, <<>>) /\ InTurn(<<>>, <<>>)
    BY <2>2, CopiedSame, InTurnNow
  <2>4. /\ ~Writing("result") /\ ~Writing("audit") /\ Len(results) = 0
        /\ pc = "getting" /\ Len(takenAt) = 1
    BY <1>1 DEF Init, Writing
  <2> QED
    BY <2>1, <2>2, <2>3, <2>4 DEF Past, Recorded, Reported
<1>7. Accounted
  BY <1>1 DEF Init, Accounted, Untouched, Writing
<1> QED
  BY <1>3a, <1>4, <1>5, <1>6, <1>7 DEF IInv

LEMMA Gives == IInv => TypeOK /\ AuditFollowsResult /\ ReportedInOrder /\ EffectsAreCovered
<1> SUFFICES ASSUME IInv PROVE AuditFollowsResult /\ ReportedInOrder /\ EffectsAreCovered
  BY DEF IInv
<1>1. Len(takenAt) = Len(resultsAt) /\ Len(takenAt) = Len(auditsAt)
  BY DEF IInv, TypeOK
<1>2. AuditFollowsResult
  BY <1>1 DEF IInv, Past, Recorded, Reports, Records, AuditFollowsResult
<1>3. ReportedInOrder
  <2>1. \A m, n \in 1..Len(taken) : taken[m] = taken[n] => m = n
    BY DEF IInv, OnceTaken, Distinct
  <2> QED
    BY <1>1, <2>1 DEF IInv, Past, Reported, Reports, Takes, ReportedInOrder
<1>4. EffectsAreCovered
  <2>1. ASSUME NEW i \in Instructions, effect[i] # "none"
        PROVE  /\ \/ Validator = None \/ manifest[i].signature = "good"
                  \/ Validator = "optional" /\ manifest[i].signature = "none"
               /\ Handlers[manifest[i].action] # None
               /\ "*" \in Handlers[manifest[i].action].roles
                    \/ manifest[i].role \in Handlers[manifest[i].action].roles
               /\ Policy # None => Policy[manifest[i].role] \cap {manifest[i].action, "*"} # {}
               /\ ~DryRun /\ ~manifest[i].dry_run
    <3>1. Covered(i) /\ InLine(taken, i)
      BY <2>1 DEF IInv, Accounted, Untouched
    <3>2. manifest[i] \in Kinds
      BY <3>1 DEF IInv, OnceTaken, TypeOK
    <3>3. manifest[i].signature \in {"none", "good", "bad", "odd"}
      BY <3>2, McpAssumption DEF McpAssumption, ManifestType
    <3>4. \/ Validator = None \/ manifest[i].signature = "good"
          \/ Validator = "optional" /\ manifest[i].signature = "none"
      BY <3>1, <3>3, McpAssumption DEF McpAssumption, Covered, Sanctioned, BadSignature, Trips
    <3> QED
      BY <3>1, <3>4 DEF Covered, Sanctioned, May, Grants
  <2>2. \A n \in 1..Len(results) : Denied(results[n][2]) => effect[results[n][1]] = "none"
    BY DEF IInv, Accounted, Untouched
  <2> QED
    BY <2>1, <2>2 DEF EffectsAreCovered, Denied
<1> QED
  BY <1>2, <1>3, <1>4

-----------------------------------------------------------------------------
(* Facts the steps below share.                                            *)

LEMMA Types ==
  ASSUME IInv
  PROVE  /\ manifest \in [Instructions -> Kinds \cup {None}]
         /\ queue \in Seq(Instructions) /\ stop \in BOOLEAN
         /\ pc \in {"getting", "executing", "waiting", "result", "audit"} \cup Down
         /\ cur \in Instructions \cup {None} /\ status \in Statuses \cup {None}
         /\ jobs \in Seq(Job) /\ active \subseteq Job
         /\ results \in Seq(Lines) /\ audits \in Seq(Lines)
         /\ effect \in [Instructions -> {"none", "begun", "ended"}]
         /\ taken \in Seq(Instructions) /\ late \in Nat
         /\ Cuts(takenAt, taken) /\ Cuts(resultsAt, results) /\ Cuts(auditsAt, audits)
         /\ Len(takenAt) = Len(resultsAt) /\ Len(takenAt) = Len(auditsAt)
         /\ Reports \in Seq(Lines) /\ Records \in Seq(Lines) /\ Takes \in Seq(Instructions)
<1>1. /\ results \in Seq(Lines) /\ audits \in Seq(Lines) /\ taken \in Seq(Instructions)
      /\ Cuts(takenAt, taken) /\ Cuts(resultsAt, results) /\ Cuts(auditsAt, audits)
  BY DEF IInv, TypeOK
<1>2. Reports \in Seq(Lines) /\ Records \in Seq(Lines) /\ Takes \in Seq(Instructions)
  BY <1>1, PartType DEF Reports, Records, Takes
<1> QED
  BY <1>2 DEF IInv, TypeOK

(* In the same life each of the three sequences stays or grows by one.     *)
Grows(s, t, S) == t = s \/ \E x \in S : t = Append(s, x)
Stays(s, S)    == Grows(s, s', S)

LEMMA PartGrows ==
  ASSUME NEW S, NEW s \in Seq(S), NEW b, Cuts(b, s), NEW t, Grows(s, t, S)
  PROVE  /\ t \in Seq(S) /\ Cuts(b, t)
         /\ \A L \in 1..Len(b) : L # Len(b) => Part(t, b, L) = Part(s, b, L)
         /\ \A x \in S : t = Append(s, x) => Part(t, b, Len(b)) = Append(Part(s, b, Len(b)), x)
<1>1. CASE t = s
  <2>1. \A x \in S : s # Append(s, x)
    <3>1. \A x \in S : Len(Append(s, x)) = Len(s) + 1 /\ Len(s) \in Nat
      OBVIOUS
    <3> QED
      BY <3>1
  <2> QED
    BY <1>1, <2>1
<1>2. ASSUME NEW x \in S, t = Append(s, x)
      PROVE  /\ t \in Seq(S) /\ Cuts(b, t)
             /\ \A L \in 1..Len(b) : L # Len(b) => Part(t, b, L) = Part(s, b, L)
             /\ Part(t, b, Len(b)) = Append(Part(s, b, Len(b)), x)
  BY <1>2, PartAppend
<1>3. CASE \E x \in S : t = Append(s, x)
  BY <1>2, <1>3
<1> QED
  BY <1>1, <1>3 DEF Grows

LEMMA Growth ==
  ASSUME IInv, UNCHANGED lives, Stays(results, Lines), Stays(audits, Lines),
         Stays(taken, Instructions)
  PROVE  /\ Past'
         /\ results' \in Seq(Lines) /\ audits' \in Seq(Lines) /\ taken' \in Seq(Instructions)
         /\ Cuts(takenAt', taken') /\ Cuts(resultsAt', results') /\ Cuts(auditsAt', audits')
         /\ Len(takenAt') = Len(resultsAt') /\ Len(takenAt') = Len(auditsAt')
         /\ results' = results => Reports' = Reports
         /\ audits' = audits => Records' = Records
         /\ taken' = taken => Takes' = Takes
         /\ \A x \in Lines : results' = Append(results, x) => Reports' = Append(Reports, x)
         /\ \A x \in Lines : audits' = Append(audits, x) => Records' = Append(Records, x)
         /\ \A x \in Instructions : taken' = Append(taken, x) => Takes' = Append(Takes, x)
<1>1. /\ results \in Seq(Lines) /\ audits \in Seq(Lines) /\ taken \in Seq(Instructions)
      /\ Cuts(takenAt, taken) /\ Cuts(resultsAt, results) /\ Cuts(auditsAt, audits)
      /\ Len(takenAt) = Len(resultsAt) /\ Len(takenAt) = Len(auditsAt)
  BY Types
<1>2. takenAt' = takenAt /\ resultsAt' = resultsAt /\ auditsAt' = auditsAt
  BY DEF lives
<1> DEFINE Kept(s, t, b) == \A L \in 1..Len(b) : L # Len(b) => Part(t, b, L) = Part(s, b, L)
<1>2a. /\ Grows(results, results', Lines) /\ Grows(audits, audits', Lines)
       /\ Grows(taken, taken', Instructions)
  BY DEF Stays
<1>3. /\ results' \in Seq(Lines) /\ Cuts(resultsAt, results') /\ Kept(results, results', resultsAt)
      /\ \A x \in Lines : results' = Append(results, x) =>
           Part(results', resultsAt, Len(resultsAt)) = Append(Part(results, resultsAt, Len(resultsAt)), x)
  <2>1. results \in Seq(Lines) /\ Cuts(resultsAt, results) /\ Grows(results, results', Lines)
    BY <1>1, <1>2a
  <2> QED
    BY <2>1, PartGrows
<1>4. /\ audits' \in Seq(Lines) /\ Cuts(auditsAt, audits') /\ Kept(audits, audits', auditsAt)
      /\ \A x \in Lines : audits' = Append(audits, x) =>
           Part(audits', auditsAt, Len(auditsAt)) = Append(Part(audits, auditsAt, Len(auditsAt)), x)
  <2>1. audits \in Seq(Lines) /\ Cuts(auditsAt, audits) /\ Grows(audits, audits', Lines)
    BY <1>1, <1>2a
  <2> QED
    BY <2>1, PartGrows
<1>5. /\ taken' \in Seq(Instructions) /\ Cuts(takenAt, taken') /\ Kept(taken, taken', takenAt)
      /\ \A x \in Instructions : taken' = Append(taken, x) =>
           Part(taken', takenAt, Len(takenAt)) = Append(Part(taken, takenAt, Len(takenAt)), x)
  <2>1. taken \in Seq(Instructions) /\ Cuts(takenAt, taken) /\ Grows(taken, taken', Instructions)
    BY <1>1, <1>2a
  <2> QED
    BY <2>1, PartGrows
<1>6. Past'
  BY <1>1, <1>2, <1>3, <1>4, <1>5 DEF IInv, Past
<1> QED
  BY <1>1, <1>2, <1>3, <1>4, <1>5, <1>6 DEF Reports, Records, Takes

LEMMA Jobs ==
  /\ \A i \in Instructions : /\ <<"command", i>> \in Job
                              /\ \A k \in Writes : <<k, i>> \in Job
  /\ \A i, x : \A k \in Writes : <<k, i>> # <<"command", x>>
  /\ \A i : <<"result", i>> # <<"audit", i>>
  /\ \A j \in Job : j[2] \in Instructions /\ j = <<j[1], j[2]>>
                   /\ (j[1] # "command" => j[1] \in Writes)
  BY DEF Job, Writes

LEMMA NoWrite ==
  ASSUME IInv, pc \notin Down, pc \notin Writes
  PROVE  \A i \in Instructions, k \in Writes : ~Pooled(<<k, i>>)
  BY DEF IInv, OncePooled, Writing

(* The loop is not concerned, and no write comes to an end.                *)
LEMMA LoopAside ==
  ASSUME IInv, TypeOK', UNCHANGED <<manifest, queue, loop, files, taken, lives>>,
         Once(jobs', active'),
         \A k \in Writes : \A i \in Instructions : Pooled(<<k, i>>)' <=> Pooled(<<k, i>>),
         \A i \in Instructions : Untouched(i) => Untouched(i)'
  PROVE  IInv'
<1>1. UNCHANGED <<pc, cur, status, results, audits, takenAt, resultsAt, auditsAt>>
  BY DEF loop, files, lives
<1>2. cur \in Instructions => \A k \in Writes : Writing(k)' <=> Writing(k)
  BY <1>1 DEF Writing
<1>3. cur \notin Instructions => \A k \in Writes : ~Writing(k) /\ ~Writing(k)'
  <2>1. ASSUME cur \notin Instructions, NEW k \in Writes PROVE <<k, cur>> \notin Job
    BY <2>1 DEF Job
  <2>2. jobs \in Seq(Job) /\ active \subseteq Job /\ jobs' \in Seq(Job) /\ active' \subseteq Job
    BY DEF IInv, TypeOK
  <2>3. \A n \in 1..Len(jobs) : jobs[n] \in Job
    BY <2>2
  <2>4. \A n \in 1..Len(jobs') : jobs'[n] \in Job
    BY <2>2
  <2> QED
    BY <1>1, <2>1, <2>2, <2>3, <2>4 DEF Writing, Pooled, In, InLine
<1>4. \A k \in Writes : Writing(k)' <=> Writing(k)
  BY <1>2, <1>3
<1>5. OncePooled'
  BY <1>1, <1>4 DEF IInv, OncePooled, Writes
<1>6. Past' /\ OnceTaken' /\ Recorded' /\ Reported'
  BY <1>1, <1>4 DEF IInv, Past, OnceTaken, Recorded, Reported, Reports, Records, Takes, Writes
<1>7. \A i \in Instructions : Covered(i)' = Covered(i) /\ Sanctioned(i)' = Sanctioned(i)
  BY DEF Covered, Sanctioned
<1>8. \A n \in 1..Len(results) : results[n][1] \in Instructions
  <2>1. \A n \in 1..Len(results) : results[n] \in Lines
    BY Types
  <2> QED
    BY <2>1 DEF Lines
<1>9. pc \in {"executing", "waiting"} => cur \in Instructions
  BY DEF IInv, OnceTaken, Engaged
<1>10. Accounted'
  <2>1. Writing("result") \/ Writing("audit") => cur \in Instructions
    BY <1>3 DEF Writes
  <2> QED
    BY <1>1, <1>4, <1>7, <1>8, <1>9, <2>1 DEF IInv, Accounted, Writes
<1> QED
  BY <1>5, <1>6, <1>10 DEF IInv

(* The loop has come to an end, in this step or before; perhaps its last   *)
(* job went with it, perhaps leaving a line or a cut one.                  *)
Leaves(j) ==
  UNCHANGED files \/ (j \in active /\ j[1] # "command" /\ ~Pooled(j)' /\ \E s \in {"cut", status} : Gets(j, s))

LEMMA Left ==
  ASSUME IInv, UNCHANGED <<cur, status, taken, lives>>,
         pc' \in Down, pc' = "ended" => pc = "ended", \A x : Pooled(x)' => Pooled(x),
         NEW j, Leaves(j)
  PROVE  /\ Past' /\ Recorded' /\ Reported'
         /\ results' \in Seq(Lines) /\ audits' \in Seq(Lines)
         /\ Cuts(takenAt', taken') /\ Cuts(resultsAt', results') /\ Cuts(auditsAt', audits')
         /\ Len(takenAt') = Len(resultsAt') /\ Len(takenAt') = Len(auditsAt')
         /\ \A n \in 1..Len(results') :
              \/ n \in 1..Len(results) /\ results'[n] = results[n]
              \/ Writing("result") /\ results'[n] \in {<<cur, "cut">>, <<cur, status>>}
<1>1. Stays(taken, Instructions) /\ taken' = taken
  BY DEF Stays, Grows
<1>2. \A k : Writing(k)' => Writing(k)
  BY DEF Writing
<1>3. CASE UNCHANGED <<results, audits>>
  <2>1. Stays(results, Lines) /\ Stays(audits, Lines)
    BY <1>3 DEF Stays, Grows
  <2>2. /\ Past' /\ Reports' = Reports /\ Records' = Records /\ Takes' = Takes
    BY <1>1, <1>3, <2>1, Growth
  <2>3. Recorded' /\ Reported'
    BY <1>2, <1>3, <2>2 DEF IInv, Recorded, Reported, Down
  <2> QED
    BY <1>1, <1>3, <2>1, <2>2, <2>3, Growth
<1>4. ASSUME j \in active, j[1] # "command", ~Pooled(j)',
             NEW s \in {"cut", status}, Gets(j, s)
      PROVE  /\ Past' /\ Recorded' /\ Reported'
             /\ Stays(results, Lines) /\ Stays(audits, Lines)
             /\ \A n \in 1..Len(results') :
                  \/ n \in 1..Len(results) /\ results'[n] = results[n]
                  \/ Writing("result") /\ results'[n] \in {<<cur, "cut">>, <<cur, status>>}
  <2>0. j \in Job
    BY <1>4, Types
  <2>1. j[1] \in Writes /\ j[2] = cur /\ j = <<j[1], cur>> /\ Writing(j[1]) /\ cur \in Instructions
    <3>1. j[1] \in Writes /\ j[2] \in Instructions /\ j = <<j[1], j[2]>>
      BY <1>4, <2>0, Jobs
    <3>2. Pooled(<<j[1], j[2]>>)
      BY <1>4, <3>1 DEF Pooled, In
    <3>3. j[2] = cur
      BY <3>1, <3>2 DEF IInv, OncePooled
    <3> QED
      BY <3>1, <3>2, <3>3 DEF Writing
  <2>2. ~Writing("result")' /\ ~Writing("audit")'
    BY <1>2, <1>4, <2>1 DEF IInv, OncePooled, Writing, Writes
  <2>3. status \in Statuses /\ <<cur, s>> \in Lines /\ <<cur, status>> \in Lines
    BY <1>4, <2>1 DEF IInv, Recorded, Writes, Lines
  <2>4. CASE j[1] = "result"
    <3>1. results' = Append(results, <<cur, s>>) /\ audits' = audits
      BY <1>4, <2>1, <2>4 DEF Gets
    <3>2. Stays(results, Lines) /\ Stays(audits, Lines)
      BY <2>3, <3>1 DEF Stays, Grows
    <3>3. /\ Past' /\ Reports' = Append(Reports, <<cur, s>>) /\ Records' = Records /\ Takes' = Takes
      BY <1>1, <2>3, <3>1, <3>2, Growth
    <3>4. /\ Records = Reports /\ Clean(Reports) /\ Takes = Append(Ids(Reports), cur)
      BY <2>1, <2>4 DEF IInv, Recorded, Reported
    <3>5. Recorded'
      BY <2>2, <2>3, <3>3, <3>4, Types, CopiedAhead DEF Recorded, Down
    <3>6. Takes' = Ids(Reports') /\ InTurn(Reports', Takes')
      <4>1. Reports' \in Seq(Lines)
        BY <2>3, <3>3, Types
      <4>2. Ids(Append(Reports, <<cur, s>>)) = Append(Ids(Reports), cur)
        BY <2>3, Types, AppendIds
      <4> QED
        BY <3>3, <3>4, <4>1, <4>2, InTurnNow
    <3>7. /\ Len(results') = Len(results) + 1 /\ Len(results) \in Nat
          /\ results'[Len(results) + 1] = <<cur, s>>
          /\ \A n \in 1..Len(results) : results'[n] = results[n]
      BY <2>3, <3>1, Types
    <3>8. InLine(taken, cur)
      BY <2>1, <2>4 DEF IInv, Reported
    <3>9. \A n \in 1..Len(results') : InLine(taken, results'[n][1])
      BY <3>7, <3>8 DEF IInv, Reported
    <3>10. Reported'
      BY <1>1, <2>2, <3>6, <3>9 DEF Reported, Down
    <3> QED
      BY <1>4, <2>1, <2>4, <3>2, <3>3, <3>5, <3>7, <3>10
  <2>5. CASE j[1] = "audit"
    <3>1. results' = results /\ audits' = Append(audits, <<cur, s>>)
      BY <1>4, <2>1, <2>5 DEF Gets
    <3>2. Stays(results, Lines) /\ Stays(audits, Lines)
      BY <2>3, <3>1 DEF Stays, Grows
    <3>3. /\ Past' /\ Reports' = Reports /\ Records' = Append(Records, <<cur, s>>) /\ Takes' = Takes
      BY <1>1, <2>3, <3>1, <3>2, Growth
    <3>4. Reports = Append(Records, <<cur, status>>) /\ Clean(Records)
      BY <2>1, <2>5 DEF IInv, Recorded
    <3>5. Recorded'
      BY <1>4, <2>1, <2>2, <2>3, <3>3, <3>4, Types, CopiedLast DEF Recorded, Down
    <3>6. Reported'
      BY <1>1, <2>2, <3>1, <3>3 DEF IInv, Reported, Down
    <3> QED
      BY <3>1, <3>2, <3>3, <3>5, <3>6
  <2> QED
    BY <2>1, <2>4, <2>5 DEF Writes
<1> QED
  BY <1>1, <1>3, <1>4, Growth DEF Leaves, files

LEMMA DownKeeps ==
  ASSUME IInv, UNCHANGED <<manifest, stop, cur, status, taken, effect, late, lives>>,
         queue' = queue \/ queue' = <<>>,
         pc' \in Down, pc' = "ended" => pc = "ended",
         jobs' \in Seq(Job), active' \subseteq Job,
         Once(jobs', active'), \A j : Pooled(j)' => Pooled(j),
         NEW j, Leaves(j)
  PROVE  IInv'
<1>1. /\ Past' /\ Recorded' /\ Reported'
      /\ results' \in Seq(Lines) /\ audits' \in Seq(Lines)
      /\ Cuts(takenAt', taken') /\ Cuts(resultsAt', results') /\ Cuts(auditsAt', audits')
      /\ Len(takenAt') = Len(resultsAt') /\ Len(takenAt') = Len(auditsAt')
      /\ \A n \in 1..Len(results') :
           \/ n \in 1..Len(results) /\ results'[n] = results[n]
           \/ Writing("result") /\ results'[n] \in {<<cur, "cut">>, <<cur, status>>}
  BY Left
<1>2. TypeOK'
  <2>1. queue' \in Seq(Instructions)
    <3>1. <<>> \in Seq(Instructions) /\ queue \in Seq(Instructions)
      BY Types
    <3> QED
      BY <3>1
  <2> QED
    BY <1>1, <2>1, Types DEF TypeOK
<1>3. \A k : Writing(k)' => Writing(k)
  BY DEF Writing
<1>4. OncePooled'
  BY <1>3 DEF IInv, OncePooled
<1>5. OnceTaken'
  <2>1. \A i : InLine(queue', i) => InLine(queue, i)
    BY DEF InLine
  <2>2. Distinct(queue')
    BY DEF IInv, OnceTaken, Distinct
  <2>3. pc' \notin Engaged
    BY DEF Down, Engaged
  <2> QED
    BY <2>1, <2>2, <2>3 DEF IInv, OnceTaken
<1>6. \A i : Untouched(i) => Untouched(i)'
  BY DEF Untouched
<1>7. \A i : Covered(i)' = Covered(i)
  BY DEF Covered, Sanctioned
<1>8. ASSUME NEW n \in 1..Len(results'), Denied(results'[n][2]), NEW x, x = results'[n][1]
      PROVE  Untouched(x)
  <2>1. CASE n \in 1..Len(results) /\ results'[n] = results[n]
    BY <1>8, <2>1 DEF IInv, Accounted
  <2>2. CASE Writing("result") /\ results'[n] \in {<<cur, "cut">>, <<cur, status>>}
    <3>1. results'[n] # <<cur, "cut">>
      BY <1>8 DEF Denied
    <3> QED
      BY <1>8, <2>2, <3>1 DEF IInv, Accounted
  <2> QED
    BY <1>1, <2>1, <2>2
<1>9. Accounted'
  BY <1>3, <1>6, <1>7, <1>8 DEF IInv, Accounted, Down
<1> QED
  BY <1>1, <1>2, <1>4, <1>5, <1>9 DEF IInv

(* The loop, with no write in the pool and both files complete, takes the  *)
(* next instruction and reports it, comes to its handler or trips over it. *)
LEMMA BeginKeeps ==
  ASSUME IInv, queue # <<>>, Begin(Head(queue)),
         UNCHANGED <<manifest, stop, results, effect, lives>>,
         Stays(audits, Lines), Records' = Reports, Clean(Reports), Takes = Ids(Reports),
         active' \subseteq active, Once(jobs, active'),
         \A i \in Instructions, k \in Writes : ~In(jobs, active', <<k, i>>)
  PROVE  IInv'
<1> DEFINE i == Head(queue)
<1>1. /\ i \in Instructions /\ Tail(queue) \in Seq(Instructions)
      /\ InLine(queue, i) /\ ~InLine(Tail(queue), i) /\ Distinct(Tail(queue))
      /\ \A y : InLine(queue, y) <=> InLine(Tail(queue), y) \/ y = i
  BY Types, TailLine DEF IInv, OnceTaken
<1>2. /\ ~InLine(taken, i) /\ Untouched(i)
      /\ queue' = Tail(queue) /\ taken' = Append(taken, i)
  BY <1>1 DEF IInv, OnceTaken, Accounted, Begin
<1>3. /\ taken' \in Seq(Instructions) /\ Distinct(taken') /\ InLine(taken', i)
      /\ \A y : InLine(taken', y) <=> InLine(taken, y) \/ y = i
  BY <1>1, <1>2, Types, AppendLine DEF IInv, OnceTaken
<1>4. cur' = i /\ pc' \in {"result", "executing", "raised"} /\ late' \in Nat
  BY Types DEF Begin, Report
<1>5. active' \subseteq Job
  BY Types
<1>6. OnceTaken'
  BY <1>1, <1>2, <1>3, <1>4 DEF IInv, OnceTaken
<1>7. \A j : In(jobs, active', j) => Pooled(j)
  BY DEF Pooled, In
<1>8. \A x : Covered(x)' = Covered(x) /\ Sanctioned(x)' = Sanctioned(x)
  BY DEF Covered, Sanctioned
<1>9. \A n \in 1..Len(results) : results[n][1] \in Instructions
  <2>1. \A n \in 1..Len(results) : results[n] \in Lines
    BY Types
  <2> QED
    BY <2>1 DEF Lines
<1> DEFINE Split == /\ Cuts(takenAt', taken') /\ Cuts(resultsAt', results') /\ Cuts(auditsAt', audits')
                    /\ Len(takenAt') = Len(resultsAt') /\ Len(takenAt') = Len(auditsAt')
                    /\ results' \in Seq(Lines) /\ audits' \in Seq(Lines)
<1>10. /\ Split /\ Past'
       /\ Reports' = Reports /\ Takes' = Append(Ids(Reports), i)
  <2>1. Stays(results, Lines) /\ Stays(taken, Instructions)
    BY <1>1, <1>2 DEF Stays, Grows
  <2> HIDE DEF i
  <2> QED
    BY <1>1, <1>2, <2>1, Growth
<1>11. Copied(Records', Reports') /\ InTurn(Reports', Takes')
  BY <1>1, <1>10, Types, CopiedSame, InTurnNow
<1>12. \A n \in 1..Len(results) : results[n][1] # i /\ InLine(taken', results[n][1])
  BY <1>2, <1>3 DEF IInv, Reported
<1> HIDE DEF i
<1>13. ASSUME NEW s \in Statuses, Report(i, s, jobs) PROVE IInv'
  <2>1. <<"result", i>> \in Job /\ ~In(jobs, active', <<"result", i>>)
    BY <1>1, Jobs DEF Writes
  <2>2. /\ jobs' \in Seq(Job) /\ Once(jobs', active')
        /\ \A j : Pooled(j)' <=> In(jobs, active', j) \/ j = <<"result", i>>
    BY <1>13, <2>1, Types, InAppend DEF Report, Pooled
  <2>3. pc' = "result" /\ status' = s
    BY <1>13 DEF Report
  <2>4. TypeOK'
    BY <1>1, <1>2, <1>3, <1>4, <1>5, <1>10, <2>2, <2>3, Types DEF TypeOK
  <2>5. \A x \in Instructions, k \in Writes : Pooled(<<k, x>>)' <=> k = "result" /\ x = i
    BY <2>2 DEF Writes
  <2>6. Writing("result")' /\ ~Writing("audit")'
    BY <1>1, <1>4, <2>5 DEF Writing, Writes
  <2>7. OncePooled'
    BY <1>1, <1>4, <2>2, <2>3, <2>5 DEF OncePooled, Writing, Writes
  <2>8. Recorded' /\ Reported'
    BY <1>1, <1>3, <1>4, <1>10, <1>11, <1>12, <2>3, <2>6 DEF Recorded, Reported
  <2>9. \A x \in Instructions : Untouched(x) => Untouched(x)'
    BY <1>7, <2>2, Jobs DEF Untouched, Writes
  <2>10. Accounted'
    BY <1>1, <1>2, <1>3, <1>4, <1>8, <1>9, <2>3, <2>9 DEF IInv, Accounted
  <2> QED
    BY <1>6, <1>10, <2>4, <2>7, <2>8, <2>10 DEF IInv
<1>14. CASE /\ pc' = "raised" \/ (pc' = "executing" /\ Sanctioned(i))
            /\ UNCHANGED <<status, jobs>>
  <2>1. \A j : Pooled(j)' <=> In(jobs, active', j)
    BY <1>14 DEF Pooled
  <2>2. TypeOK'
    BY <1>1, <1>2, <1>3, <1>4, <1>5, <1>10, <1>14, Types DEF TypeOK, Down
  <2>3. ~Writing("result")' /\ ~Writing("audit")'
    BY <1>1, <1>4, <2>1 DEF Writing, Writes
  <2>4. OncePooled'
    BY <1>14, <2>1, <2>3 DEF OncePooled, Writes
  <2>5. Recorded' /\ Reported'
    BY <1>1, <1>3, <1>4, <1>10, <1>11, <1>12, <1>14, <2>3 DEF Recorded, Reported
  <2>6. \A x \in Instructions : Untouched(x) => Untouched(x)'
    BY <1>7, <2>1 DEF Untouched
  <2>7. Accounted'
    BY <1>1, <1>2, <1>3, <1>4, <1>8, <1>9, <1>14, <2>3, <2>6 DEF IInv, Accounted
  <2> QED
    BY <1>6, <1>10, <2>2, <2>4, <2>5, <2>7 DEF IInv
<1>15. {"invalid-signature", "unhandled", "forbidden"} \subseteq Statuses
  BY DEF Statuses
<1> QED
  BY <1>13, <1>14, <1>15 DEF Begin, Sanctioned, i

(* The loop has the status of its instruction and has its line written.    *)
LEMMA ReportKeeps ==
  ASSUME IInv, pc \in {"executing", "waiting"},
         NEW s \in Statuses, NEW js \in Seq(Job), Report(cur, s, js),
         UNCHANGED <<manifest, queue, stop, files, taken, late, lives>>,
         Once(js, active'), active' \subseteq active,
         \A j : In(js, active', j) => Pooled(j),
         effect' \in [Instructions -> {"none", "begun", "ended"}],
         \A i \in Instructions : i # cur => effect'[i] = effect[i],
         effect'[cur] # "none" => Covered(cur),
         Denied(s) => effect'[cur] = "none" /\ ~In(js, active', <<"command", cur>>)
  PROVE  IInv'
<1>1. cur \in Instructions /\ InLine(taken, cur) /\ Takes = Append(Ids(Reports), cur)
  BY DEF IInv, OnceTaken, Engaged, Reported
<1>2. pc \notin Down /\ pc \notin Writes
  BY DEF Down, Writes
<1>3. \A i \in Instructions, k \in Writes : ~In(js, active', <<k, i>>)
  BY <1>2, NoWrite
<1>4. UNCHANGED <<results, audits, takenAt, resultsAt, auditsAt>> /\ pc' = "result" /\ status' = s /\ cur' = cur
  BY DEF files, lives, Report
<1>5. <<"result", cur>> \in Job /\ ~In(js, active', <<"result", cur>>)
  BY <1>1, <1>3, Jobs DEF Writes
<1>6. /\ jobs' \in Seq(Job) /\ Once(jobs', active')
      /\ \A j : Pooled(j)' <=> In(js, active', j) \/ j = <<"result", cur>>
  BY <1>5, InAppend DEF Report, Pooled
<1>7. active' \subseteq Job
  BY Types
<1>8. TypeOK'
  BY <1>4, <1>6, <1>7, Types DEF TypeOK
<1>9. \A x \in Instructions, k \in Writes : Pooled(<<k, x>>)' <=> k = "result" /\ x = cur
  BY <1>3, <1>6 DEF Writes
<1>10. Writing("result")' /\ ~Writing("audit")'
  BY <1>1, <1>4, <1>9 DEF Writing, Writes
<1>11. OncePooled'
  BY <1>1, <1>4, <1>6, <1>9 DEF OncePooled, Writing, Writes
<1>12. OnceTaken'
  BY <1>1, <1>4 DEF IInv, OnceTaken
<1>13. UNCHANGED <<Reports, Records, Takes>>
  BY <1>4 DEF Reports, Records, Takes
<1>14. Past' /\ Recorded' /\ Reported'
  BY <1>1, <1>4, <1>10, <1>13 DEF IInv, Past, Recorded, Reported
<1>15. \A x \in Instructions : x # cur /\ Untouched(x) => Untouched(x)'
  BY <1>6, Jobs DEF Untouched, Writes
<1>16. \A x : Covered(x)' = Covered(x)
  BY DEF Covered, Sanctioned
<1> DEFINE After(x) == effect'[x] = "none" /\ ~In(jobs', active', <<"command", x>>)
<1>17. \A x \in Instructions : Untouched(x)' <=> After(x)
  BY DEF Untouched, Pooled
<1>18. (Denied(s) => After(cur)) /\ (~After(cur) => Covered(cur))
  <2>1. In(jobs', active', <<"command", cur>>) <=> In(js, active', <<"command", cur>>)
    BY <1>6, Jobs DEF Pooled, Writes
  <2>2. ASSUME In(js, active', <<"command", cur>>) PROVE Covered(cur)
    BY <1>1, <2>2 DEF IInv, Accounted, Untouched
  <2> QED
    BY <2>1, <2>2
<1> HIDE DEF After
<1>19. \A n \in 1..Len(results) : results[n][1] # cur /\ results[n][1] \in Instructions
  <2>1. \A n \in 1..Len(results) : results[n][1] # cur /\ results[n] \in Lines
    <3>1. results \in Seq(Lines)
      BY Types
    <3>2. \A n \in 1..Len(results) : results[n][1] # cur
      BY DEF IInv, Reported
    <3> QED
      BY <3>1, <3>2
  <2> QED
    BY <2>1 DEF Lines
<1>20. Accounted'
  <2>1. \A i \in Instructions : ~Untouched(i)' => InLine(taken, i) /\ Covered(i)
    <3>1. ASSUME NEW i \in Instructions, ~Untouched(i)' PROVE InLine(taken, i) /\ Covered(i)
      <4>1. CASE i = cur
        <5>1. ~After(i)
          BY <1>17, <3>1
        <5> QED
          BY <1>1, <1>18, <4>1, <5>1
      <4>2. CASE i # cur
        BY <1>15, <3>1, <4>2 DEF IInv, Accounted
      <4> QED
        BY <4>1, <4>2
    <3> QED
      BY <3>1
  <2>2. ASSUME NEW n \in 1..Len(results), Denied(results[n][2]), NEW i, i = results[n][1]
        PROVE  Untouched(i)'
    BY <1>15, <1>19, <2>2 DEF IInv, Accounted
  <2>3. (Writing("result") \/ Writing("audit"))' /\ Denied(status)' => Untouched(cur)'
    BY <1>4, <1>18 DEF Untouched, Pooled, After
  <2> QED
    BY <1>4, <1>16, <2>1, <2>2, <2>3 DEF Accounted
<1> QED
  BY <1>8, <1>11, <1>12, <1>14, <1>20 DEF IInv

(* The handler has begun what it will have to wait for.                    *)
LEMMA WaitKeeps ==
  ASSUME IInv, pc = "executing", pc' = "waiting", Covered(cur),
         UNCHANGED <<Rest, cur, status>>,
         jobs' \in Seq(Job), effect' \in [Instructions -> {"none", "begun", "ended"}],
         Once(jobs', active),
         \A k \in Writes : \A i \in Instructions : In(jobs', active, <<k, i>>) => Pooled(<<k, i>>),
         \A i \in Instructions \ {cur} : Untouched(i) => Untouched(i)'
  PROVE  IInv'
<1>1. cur \in Instructions /\ InLine(taken, cur)
  BY DEF IInv, OnceTaken, Engaged, Reported
<1>2. UNCHANGED <<manifest, queue, stop, active, results, audits, taken, late,
                 takenAt, resultsAt, auditsAt>>
  BY DEF Rest, files, lives
<1>3. pc \notin Down /\ pc \notin Writes /\ pc' \notin Down /\ pc' \notin Writes
  BY DEF Down, Writes
<1>4. \A i \in Instructions, k \in Writes : ~Pooled(<<k, i>>)'
  BY <1>2, <1>3, NoWrite DEF Pooled
<1>5. ~Writing("result")' /\ ~Writing("audit")'
  BY <1>1, <1>4 DEF Writing, Writes
<1>6. TypeOK'
  BY <1>2, Types DEF TypeOK
<1>7. OncePooled'
  BY <1>2, <1>3, <1>4, <1>5 DEF OncePooled, Writes
<1>8. OnceTaken'
  BY <1>1, <1>2 DEF IInv, OnceTaken
<1>9. Past' /\ Recorded' /\ Reported'
  <2>1. UNCHANGED <<Reports, Records, Takes>>
    BY <1>2 DEF Reports, Records, Takes
  <2> QED
    BY <1>1, <1>2, <1>5, <2>1 DEF IInv, Past, Recorded, Reported
<1>10. \A x : Covered(x)' = Covered(x)
  BY <1>2 DEF Covered, Sanctioned
<1>11. \A n \in 1..Len(results) : results[n][1] # cur /\ results[n][1] \in Instructions
  <2>1. \A n \in 1..Len(results) : results[n][1] # cur /\ results[n] \in Lines
    BY Types DEF IInv, Reported
  <2> QED
    BY <2>1 DEF Lines
<1>12. Accounted'
  <2>1. ASSUME NEW n \in 1..Len(results), Denied(results[n][2]), NEW i, i = results[n][1]
        PROVE  Untouched(i)'
    BY <1>11, <2>1 DEF IInv, Accounted
  <2>2. \A i \in Instructions : ~Untouched(i)' => InLine(taken, i) /\ Covered(i)
    BY <1>1 DEF IInv, Accounted
  <2> QED
    BY <1>2, <1>5, <1>10, <2>1, <2>2 DEF Accounted
<1> QED
  BY <1>6, <1>7, <1>8, <1>9, <1>12 DEF IInv

-----------------------------------------------------------------------------
(* Every action keeps the invariant.                                       *)

LEMMA SubmitKeeps == \A i \in Instructions, k \in Kinds : IInv /\ Submit(i, k) => IInv'
<1> SUFFICES ASSUME IInv, NEW i \in Instructions, NEW k \in Kinds, Submit(i, k) PROVE IInv'
  OBVIOUS
<1>1. /\ ~InLine(queue, i) /\ ~InLine(taken, i)
      /\ manifest' = [manifest EXCEPT ![i] = k] /\ queue' = Append(queue, i)
      /\ UNCHANGED <<stop, pc, cur, status, jobs, active, results, audits, effect, taken, late,
                     takenAt, resultsAt, auditsAt>>
  BY DEF Submit, loop, pool, files, lives, IInv, OnceTaken
<1>2. /\ queue' \in Seq(Instructions) /\ Distinct(queue')
      /\ \A y : InLine(queue', y) <=> InLine(queue, y) \/ y = i
  BY <1>1, Types, AppendLine DEF IInv, OnceTaken
<1>3. /\ manifest' \in [Instructions -> Kinds \cup {None}] /\ manifest'[i] # None
      /\ \A x \in Instructions \ {i} : manifest'[x] = manifest[x]
  BY <1>1, Types, McpAssumption DEF McpAssumption
<1>4. TypeOK'
  BY <1>1, <1>2, <1>3, Types DEF TypeOK
<1>5. /\ \A j : Pooled(j)' <=> Pooled(j)
      /\ \A y : Writing(y)' <=> Writing(y)
      /\ \A x : Untouched(x)' <=> Untouched(x)
  BY <1>1 DEF Pooled, Writing, Untouched
<1>6. OncePooled'
  BY <1>1, <1>5 DEF IInv, OncePooled
<1>7. OnceTaken'
  BY <1>1, <1>2, <1>3 DEF IInv, OnceTaken
<1>8. Past' /\ Recorded' /\ Reported'
  BY <1>1, <1>5 DEF IInv, Past, Recorded, Reported, Reports, Records, Takes
<1>9. \A x \in Instructions \ {i} : Covered(x)' = Covered(x) /\ Sanctioned(x)' = Sanctioned(x)
  BY <1>3 DEF Covered, Sanctioned
<1>10. pc \in Engaged => cur \in Instructions \ {i}
  BY <1>1 DEF IInv, OnceTaken
<1>11. Accounted'
  <2>1. \A x \in Instructions : ~Untouched(x) => InLine(taken, x) /\ Covered(x)'
    BY <1>1, <1>9 DEF IInv, Accounted
  <2>2. /\ pc = "executing" => Sanctioned(cur)'
        /\ pc = "waiting" => Covered(cur)'
    <3>1. ASSUME pc = "executing" PROVE Sanctioned(cur)'
      <4>1. cur \in Instructions \ {i} /\ Sanctioned(cur)
        BY <1>10, <3>1 DEF Engaged, IInv, Accounted
      <4>2. manifest'[cur'] = manifest[cur]
        BY <1>1, <1>3, <4>1
      <4> QED
        BY <4>1, <4>2 DEF Sanctioned
    <3>2. ASSUME pc = "waiting" PROVE Covered(cur)'
      <4>1. cur \in Instructions \ {i} /\ Covered(cur)
        BY <1>10, <3>2 DEF Engaged, IInv, Accounted
      <4>2. manifest'[cur'] = manifest[cur]
        BY <1>1, <1>3, <4>1
      <4> QED
        BY <4>1, <4>2 DEF Covered, Sanctioned
    <3> QED
      BY <3>1, <3>2
  <2>3. \A n \in 1..Len(results) : Denied(results[n][2]) => Untouched(results[n][1])
    BY DEF IInv, Accounted
  <2>4. pc = "executing" => Untouched(cur)
    BY DEF IInv, Accounted
  <2>5. (Writing("result") \/ Writing("audit")) /\ Denied(status) => Untouched(cur)
    BY DEF IInv, Accounted
  <2> QED
    BY <1>1, <1>5, <2>1, <2>2, <2>3, <2>4, <2>5 DEF Accounted
<1> QED
  BY <1>4, <1>6, <1>7, <1>8, <1>11 DEF IInv

LEMMA ShutdownKeeps == IInv /\ Shutdown => IInv'
<1> SUFFICES ASSUME IInv, Shutdown PROVE IInv'
  OBVIOUS
<1>1. /\ UNCHANGED <<manifest, queue, loop, files, taken, jobs, active, effect, late, lives>>
      /\ stop' \in BOOLEAN
  BY DEF Shutdown, pool
<1>2. TypeOK'
  BY <1>1, Types DEF TypeOK, loop, files, lives
<1>3. Once(jobs', active')
  BY <1>1 DEF IInv, OncePooled
<1>4. (\A j : Pooled(j)' <=> Pooled(j)) /\ \A x : Untouched(x)' <=> Untouched(x)
  BY <1>1 DEF Pooled, Untouched
<1> QED
  BY <1>1, <1>2, <1>3, <1>4, LoopAside

LEMMA JobStartsKeeps == IInv /\ JobStarts => IInv'
<1> SUFFICES ASSUME IInv, JobStarts PROVE IInv'
  OBVIOUS
<1> DEFINE h == Head(jobs)
<1>1. /\ UNCHANGED <<manifest, queue, stop, loop, files, taken, late, lives>>
      /\ active' = active \cup {h} /\ jobs' = Tail(jobs)
      /\ jobs # <<>>
      /\ effect' = IF h[1] = "command" THEN [effect EXCEPT ![h[2]] = "begun"] ELSE effect
  BY DEF JobStarts
<1>2. /\ h \in Job /\ jobs' \in Seq(Job) /\ Once(jobs', active') /\ InLine(jobs, h)
      /\ \A j : In(jobs', active', j) <=> In(jobs, active, j)
  BY <1>1, Types, InStart DEF IInv, OncePooled
<1> HIDE DEF h
<1>3. h[2] \in Instructions /\ h = <<h[1], h[2]>>
  BY <1>2, Jobs
<1>4. effect' \in [Instructions -> {"none", "begun", "ended"}]
  BY <1>1, <1>3, Types
<1>5. active' \subseteq Job
  BY <1>1, <1>2, Types
<1>6. TypeOK'
  BY <1>1, <1>2, <1>4, <1>5, Types DEF TypeOK, loop, files, lives
<1>7. \A j : Pooled(j)' <=> Pooled(j)
  BY <1>2 DEF Pooled
<1>8. ASSUME NEW x \in Instructions, Untouched(x) PROVE Untouched(x)'
  <2>1. h[1] = "command" => h[2] # x
    BY <1>2, <1>3, <1>8 DEF Untouched, Pooled, In
  <2>2. effect'[x] = effect[x]
    BY <1>1, <1>3, <2>1, Types
  <2> QED
    BY <1>7, <1>8, <2>2 DEF Untouched
<1> QED
  BY <1>1, <1>2, <1>6, <1>7, <1>8, LoopAside

LEMMA CommandEndsKeeps == \A i \in Instructions : IInv /\ CommandEnds(i) => IInv'
<1> SUFFICES ASSUME IInv, NEW i \in Instructions, CommandEnds(i) PROVE IInv'
  OBVIOUS
<1> DEFINE c == <<"command", i>>
<1>1. PICK found \in BOOLEAN :
        /\ effect' = IF found THEN [effect EXCEPT ![i] = "ended"] ELSE effect
        /\ \/ /\ pc = "waiting" /\ cur = i
              /\ \E s \in IF found THEN {"ok", "failed"} ELSE {"error"} : Report(i, s, jobs)
           \/ ~(pc = "waiting" /\ cur = i) /\ UNCHANGED <<loop, jobs>>
  BY DEF CommandEnds
<1>2. /\ c \in active /\ active' = active \ {c}
      /\ UNCHANGED <<manifest, queue, stop, files, taken, late, lives>>
  BY DEF CommandEnds
<1> HIDE DEF c
<1>3. /\ Once(jobs, active')
      /\ \A j : In(jobs, active', j) <=> Pooled(j) /\ j # c
  BY <1>2, InEnd DEF IInv, OncePooled, Pooled
<1>4. Covered(i) /\ ~Untouched(i)
  BY <1>2 DEF c, IInv, Accounted, Untouched, Pooled, In
<1>5. /\ effect' \in [Instructions -> {"none", "begun", "ended"}]
      /\ \A x \in Instructions \ {i} : effect'[x] = effect[x]
  BY <1>1, Types
<1>6. active' \subseteq active
  BY <1>2
<1>7. ASSUME pc = "waiting", cur = i, NEW s \in {"ok", "failed", "error"}, Report(i, s, jobs)
      PROVE  IInv'
  <2>1. s \in Statuses /\ ~Denied(s)
    BY <1>7 DEF Statuses, Denied
  <2> QED
    BY <1>2, <1>3, <1>4, <1>5, <1>6, <1>7, <2>1, Types, ReportKeeps
<1>8. CASE UNCHANGED <<loop, jobs>>
  <2>1. active' \subseteq Job
    BY <1>6, Types
  <2>2. TypeOK'
    BY <1>2, <1>5, <1>8, <2>1, Types DEF TypeOK, loop, files, lives
  <2>3. \A j : Pooled(j)' <=> Pooled(j) /\ j # c
    BY <1>3, <1>8 DEF Pooled
  <2>4. \A k \in Writes : \A x \in Instructions : Pooled(<<k, x>>)' <=> Pooled(<<k, x>>)
    BY <2>3, Jobs DEF c
  <2>5. \A x \in Instructions : Untouched(x) => Untouched(x)'
    BY <1>4, <1>5, <2>3 DEF Untouched
  <2> QED
    BY <1>2, <1>3, <1>8, <2>2, <2>4, <2>5, LoopAside
<1> QED
  BY <1>1, <1>7, <1>8

LEMMA WakeKeeps == IInv /\ Wake => IInv'
<1> SUFFICES ASSUME IInv, Wake PROVE IInv'
  OBVIOUS
<1>1. /\ pc = "getting" /\ queue # <<>> /\ Begin(Head(queue))
      /\ UNCHANGED <<manifest, stop, active, results, audits, effect, lives>>
      /\ UNCHANGED <<takenAt, resultsAt, auditsAt>>
  BY DEF Wake, files, lives
<1>2. Stays(audits, Lines) /\ Records' = Reports /\ Clean(Reports) /\ Takes = Ids(Reports)
  BY <1>1 DEF IInv, Recorded, Reported, Records, Stays, Grows
<1>3. \A i \in Instructions, k \in Writes : ~In(jobs, active', <<k, i>>)
  BY <1>1, NoWrite DEF Down, Writes, Pooled
<1>4. Once(jobs, active')
  BY <1>1 DEF IInv, OncePooled
<1> QED
  BY <1>1, <1>2, <1>3, <1>4, BeginKeeps

LEMMA ExecuteKeeps == IInv /\ Execute => IInv'
<1> SUFFICES ASSUME IInv, Execute PROVE IInv'
  OBVIOUS
<1> DEFINE dry == DryRun \/ manifest[cur].dry_run
<1>1. /\ pc = "executing" /\ UNCHANGED Rest
      /\ UNCHANGED <<manifest, queue, stop, active, files, taken, late, lives>>
  BY DEF Execute, Rest
<1>2. /\ cur \in Instructions /\ Sanctioned(cur) /\ Untouched(cur)
      /\ ~dry => Covered(cur)
  BY <1>1 DEF IInv, OnceTaken, Engaged, Accounted, Covered
<1>3. Once(jobs, active') /\ \A j : In(jobs, active', j) <=> Pooled(j)
  BY <1>1 DEF IInv, OncePooled, Pooled
<1>4. ~In(jobs, active', <<"command", cur>>) /\ effect[cur] = "none"
  BY <1>2, <1>3 DEF Untouched
(* Without an effect.                                                      *)
<1>5. ASSUME NEW s \in Statuses, Report(cur, s, jobs), UNCHANGED effect PROVE IInv'
  BY <1>1, <1>3, <1>4, <1>5, Types, ReportKeeps
(* With one that is over at once.                                          *)
<1>6. ASSUME ~dry, NEW s \in Statuses, ~Denied(s), Report(cur, s, jobs),
             effect' = [effect EXCEPT ![cur] = "ended"]
      PROVE  IInv'
  BY <1>1, <1>2, <1>3, <1>6, Types, ReportKeeps
<1>7. ASSUME ~dry, BrowserRuns PROVE IInv'
  <2>1. CASE \E s \in {"failed", "skipped"} : Report(cur, s, jobs) /\ UNCHANGED effect
    BY <1>5, <2>1 DEF Statuses
  <2>2. CASE /\ pc' = "waiting" /\ effect' = [effect EXCEPT ![cur] = "begun"]
             /\ UNCHANGED <<cur, status, jobs>>
    <3>1. \A j : In(jobs', active, j) <=> Pooled(j)
      BY <2>2 DEF Pooled
    <3>2. \A x \in Instructions \ {cur} : Untouched(x) => Untouched(x)'
      BY <1>1, <2>2, Types DEF Untouched, Pooled
    <3>3. Once(jobs', active)
      BY <2>2 DEF IInv, OncePooled
    <3>4. effect' \in [Instructions -> {"none", "begun", "ended"}] /\ jobs' \in Seq(Job)
      BY <2>2, Types
    <3> QED
      BY <1>1, <1>2, <1>7, <2>2, <3>1, <3>2, <3>3, <3>4, WaitKeeps
  <2> QED
    BY <1>7, <2>1, <2>2 DEF BrowserRuns
<1>8. ASSUME ~dry, PowerShellRuns PROVE IInv'
  <2>1. CASE \E s \in {"skipped", "failed", "rejected"} : Report(cur, s, jobs) /\ UNCHANGED effect
    BY <1>5, <2>1 DEF Statuses
  <2>2. CASE /\ pc' = "waiting" /\ jobs' = Append(jobs, <<"command", cur>>)
             /\ UNCHANGED <<cur, status, effect>>
    <3>1. <<"command", cur>> \in Job /\ ~In(jobs, active, <<"command", cur>>)
      BY <1>1, <1>2, <1>4, Jobs
    <3>2. /\ jobs' \in Seq(Job) /\ Once(jobs', active)
          /\ \A j : In(jobs', active, j) <=> Pooled(j) \/ j = <<"command", cur>>
      BY <2>2, <3>1, Types, InAppend DEF IInv, OncePooled, Pooled
    <3>3. \A k \in Writes : \A x \in Instructions :
             In(jobs', active, <<k, x>>) => Pooled(<<k, x>>)
      BY <3>2, Jobs
    <3>4. \A x \in Instructions \ {cur} : Untouched(x) => Untouched(x)'
      BY <1>1, <2>2, <3>2 DEF Untouched, Pooled
    <3> QED
      BY <1>1, <1>2, <1>8, <2>2, <3>2, <3>3, <3>4, Types, WaitKeeps
  <2> QED
    BY <1>8, <2>1, <2>2 DEF PowerShellRuns
<1>9. ASSUME DryRunAnswer(Handlers[manifest[cur].action]) PROVE IInv'
  BY <1>5, <1>9 DEF DryRunAnswer, Statuses
<1>10. ASSUME ~dry, LoggingRuns PROVE IInv'
  <2>1. "logged" \in Statuses /\ ~Denied("logged")
    BY DEF Statuses, Denied
  <2> QED
    BY <1>6, <1>10, <2>1 DEF LoggingRuns
<1>11. ASSUME ~dry, RegistryRuns PROVE IInv'
  <2>1. "ok" \in Statuses /\ ~Denied("ok") /\ {"skipped", "failed", "rejected"} \subseteq Statuses
    BY DEF Statuses, Denied
  <2> QED
    BY <1>5, <1>6, <1>11, <2>1 DEF RegistryRuns
<1>12. ASSUME Unfit PROVE IInv'
  BY <1>5, <1>12 DEF Unfit, Statuses
<1> QED
  BY <1>7, <1>8, <1>9, <1>10, <1>11, <1>12 DEF Execute

LEMMA BrowserEndsKeeps == IInv /\ BrowserEnds => IInv'
<1> SUFFICES ASSUME IInv, BrowserEnds PROVE IInv'
  OBVIOUS
<1>1. /\ pc = "waiting"
      /\ \/ Report(cur, "ok", jobs) /\ effect' = [effect EXCEPT ![cur] = "ended"]
         \/ Report(cur, "error", jobs) /\ UNCHANGED effect
      /\ UNCHANGED <<manifest, queue, stop, active, files, taken, late, lives>>
  BY DEF BrowserEnds, Rest
<1>2. cur \in Instructions /\ Covered(cur)
  BY <1>1 DEF IInv, OnceTaken, Engaged, Accounted
<1>3. Once(jobs, active') /\ active' \subseteq active /\ \A j : In(jobs, active', j) <=> Pooled(j)
  BY <1>1 DEF IInv, OncePooled, Pooled
<1>4. {"ok", "error"} \subseteq Statuses /\ ~Denied("ok") /\ ~Denied("error")
  BY DEF Statuses, Denied
<1>5. ASSUME NEW s \in {"ok", "error"}, Report(cur, s, jobs),
             effect' = [effect EXCEPT ![cur] = "ended"] \/ effect' = effect
      PROVE  IInv'
  <2>1. /\ effect' \in [Instructions -> {"none", "begun", "ended"}]
        /\ \A i \in Instructions : i # cur => effect'[i] = effect[i]
    BY <1>5, Types
  <2>2. s \in Statuses /\ ~Denied(s)
    BY <1>4
  <2> QED
    BY <1>1, <1>2, <1>3, <1>5, <2>1, <2>2, Types, ReportKeeps
<1> QED
  BY <1>1, <1>5

LEMMA TimeoutKeeps == IInv /\ Timeout => IInv'
<1> SUFFICES ASSUME IInv, Timeout PROVE IInv'
  OBVIOUS
<1> DEFINE js == Withdrawn(<<"command", cur>>)
<1>1. /\ pc \in {"executing", "waiting"} /\ Report(cur, "timeout", js)
      /\ UNCHANGED <<manifest, queue, stop, active, files, taken, late, lives, effect>>
  BY DEF Timeout, Rest
<1>2. /\ js \in Seq(Job) /\ Once(js, active')
      /\ \A j : In(js, active', j) => Pooled(j)
  BY <1>1, Types, InRemove DEF IInv, OncePooled, Withdrawn, Pooled, In
<1>3. cur \in Instructions /\ (effect[cur] # "none" => Covered(cur))
  BY <1>1 DEF IInv, OnceTaken, Engaged, Accounted, Untouched
<1>4. "timeout" \in Statuses /\ ~Denied("timeout")
  BY DEF Statuses, Denied
<1> HIDE DEF js
<1> QED
  BY <1>1, <1>2, <1>3, <1>4, Types, ReportKeeps

LEMMA ResultWrittenKeeps == \A i \in Instructions : IInv /\ ResultWritten(i) => IInv'
<1> SUFFICES ASSUME IInv, NEW i \in Instructions, ResultWritten(i) PROVE IInv'
  OBVIOUS
<1> DEFINE r == <<"result", i>>
           a == <<"audit", i>>
<1>1. /\ r \in active /\ active' = active \ {r} /\ results' = Append(results, <<i, status>>)
      /\ \/ pc = "result" /\ pc' = "audit" /\ jobs' = Append(jobs, a)
         \/ pc # "result" /\ UNCHANGED <<pc, jobs>>
      /\ UNCHANGED <<manifest, queue, stop, cur, status, audits, effect, taken, late, lives>>
  BY DEF ResultWritten
<1>2. Pooled(r) /\ r \in Job /\ a \in Job /\ r # a
  BY <1>1, Jobs DEF Pooled, In, Writes
<1>3. i = cur /\ Writing("result") /\ ~Pooled(a)
  BY <1>2 DEF IInv, OncePooled, Writes, Writing
<1>4. /\ status \in Statuses /\ <<i, status>> \in Lines
      /\ Records = Reports /\ Clean(Reports)
      /\ Takes = Append(Ids(Reports), i) /\ InLine(taken, i)
      /\ (Denied(status) => Untouched(i))
  BY <1>3 DEF IInv, Recorded, Reported, Accounted, Lines
<1>5. pc # "result" => pc \in Down
  BY <1>3 DEF IInv, OncePooled, Writes
<1> HIDE DEF r, a
<1>6. /\ Once(jobs, active') /\ \A j : In(jobs, active', j) <=> Pooled(j) /\ j # r
  BY <1>1, InEnd DEF IInv, OncePooled, Pooled
<1>7. /\ jobs' \in Seq(Job) /\ Once(jobs', active')
      /\ \A j : Pooled(j)' <=> (Pooled(j) /\ j # r) \/ (pc = "result" /\ j = a)
  <2>1. CASE pc = "result" /\ jobs' = Append(jobs, a)
    BY <1>2, <1>3, <1>6, <2>1, Types, InAppend DEF Pooled
  <2>2. CASE pc # "result" /\ jobs' = jobs
    BY <1>6, <2>2, Types DEF Pooled
  <2> QED
    BY <1>1, <2>1, <2>2
<1>8. /\ results' \in Seq(Lines) /\ Len(results') = Len(results) + 1 /\ Len(results) \in Nat
      /\ results'[Len(results) + 1] = <<i, status>>
      /\ \A n \in 1..Len(results) : results'[n] = results[n]
  BY <1>1, <1>4, Types
<1>9. active' \subseteq Job
  BY <1>1, Types
<1> DEFINE Split == /\ Cuts(takenAt', taken') /\ Cuts(resultsAt', results') /\ Cuts(auditsAt', audits')
                    /\ Len(takenAt') = Len(resultsAt') /\ Len(takenAt') = Len(auditsAt')
                    /\ results' \in Seq(Lines) /\ audits' \in Seq(Lines)
<1>9a. /\ Split /\ Past'
       /\ Reports' = Append(Reports, <<i, status>>) /\ Records' = Records /\ Takes' = Takes
  <2>1. Stays(results, Lines) /\ Stays(audits, Lines) /\ Stays(taken, Instructions)
    BY <1>1, <1>4 DEF Stays, Grows
  <2> QED
    BY <1>1, <1>4, <2>1, Growth
<1>10. TypeOK'
  BY <1>1, <1>7, <1>8, <1>9, <1>9a, Types DEF TypeOK
<1>11. \A x \in Instructions, k \in Writes :
          Pooled(<<k, x>>)' <=> k = "audit" /\ x = i /\ pc = "result"
  <2>1. \A x \in Instructions, k \in Writes : Pooled(<<k, x>>) => <<k, x>> = r
    BY <1>3 DEF IInv, OncePooled, Writes, r, a
  <2>2. \A x \in Instructions, k \in Writes : <<k, x>> = a <=> k = "audit" /\ x = i
    BY DEF a
  <2> QED
    BY <1>7, <2>1, <2>2
<1>12. ~Writing("result")' /\ (Writing("audit")' <=> pc = "result")
  BY <1>1, <1>3, <1>11 DEF Writing, Writes
<1>13. OncePooled'
  BY <1>1, <1>3, <1>5, <1>7, <1>11, <1>12 DEF OncePooled, Writes, Down
<1>14. OnceTaken'
  <2>1. pc' \in Engaged => pc \in Engaged
    BY <1>1 DEF Engaged
  <2> QED
    BY <1>1, <2>1 DEF IInv, OnceTaken
<1>15. Recorded'
  <2>1. Copied(Records', Reports')
    BY <1>4, <1>9a, Types, CopiedAhead
  <2> QED
    BY <1>1, <1>3, <1>4, <1>5, <1>9a, <1>12, <2>1 DEF Recorded, Down
<1>16. Takes' = Ids(Reports') /\ InTurn(Reports', Takes')
  <2>1. Reports' \in Seq(Lines)
    BY <1>4, <1>9a, Types
  <2>2. Ids(Append(Reports, <<i, status>>)) = Append(Ids(Reports), i)
    BY <1>4, Types, AppendIds
  <2> QED
    BY <1>4, <1>9a, <2>1, <2>2, InTurnNow
<1>17. Reported'
  <2>1. \A n \in 1..Len(results') : InLine(taken, results'[n][1])
    BY <1>4, <1>8 DEF IInv, Reported
  <2> QED
    BY <1>1, <1>5, <1>12, <1>16, <2>1 DEF Reported, Down
<1>18. \A x : /\ Untouched(x)' <=> Untouched(x)
              /\ Covered(x)' = Covered(x)
  BY <1>1, <1>7, Jobs DEF Untouched, Covered, Sanctioned, Writes, r, a
<1>19. Accounted'
  <2>1. ASSUME NEW n \in 1..Len(results'), Denied(results'[n][2]), NEW x, x = results'[n][1]
        PROVE  Untouched(x)
    <3>1. Len(results) \in Nat
      BY Types
    <3>2. CASE n \in 1..Len(results)
      BY <1>8, <2>1, <3>2 DEF IInv, Accounted
    <3>3. CASE n = Len(results) + 1
      BY <1>4, <1>8, <2>1, <3>3
    <3> QED
      BY <1>8, <3>1, <3>2, <3>3
  <2>2. pc' # "executing" /\ pc' # "waiting"
    BY <1>1, <1>5 DEF Down
  <2>3. Denied(status) => Untouched(cur)
    BY <1>3, <1>4
  <2>4. \A x \in Instructions : ~Untouched(x) => InLine(taken, x) /\ Covered(x)
    BY DEF IInv, Accounted
  <2> QED
    BY <1>1, <1>18, <2>1, <2>2, <2>3, <2>4 DEF Accounted
<1> QED
  BY <1>9a, <1>10, <1>13, <1>14, <1>15, <1>17, <1>19 DEF IInv

LEMMA AuditWrittenKeeps == \A i \in Instructions : IInv /\ AuditWritten(i) => IInv'
<1> SUFFICES ASSUME IInv, NEW i \in Instructions, AuditWritten(i) PROVE IInv'
  OBVIOUS
<1> DEFINE a == <<"audit", i>>
<1>1. /\ a \in active /\ active' = active \ {a} /\ audits' = Append(audits, <<i, status>>)
      /\ \/ pc = "audit" /\ LoopOn
         \/ pc # "audit" /\ UNCHANGED <<loop, jobs, queue, taken, late>>
      /\ UNCHANGED <<manifest, stop, results, effect, lives>>
  BY DEF AuditWritten
<1>2. Pooled(a) /\ i = cur /\ Writing("audit") /\ ~Writing("result")
  BY <1>1 DEF IInv, OncePooled, Writing, Pooled, In, Writes
<1>3. /\ <<i, status>> \in Lines /\ status \in Statuses /\ (pc # "audit" => pc \in Down)
      /\ Reports = Append(Records, <<i, status>>) /\ Clean(Records)
  BY <1>1, <1>2 DEF IInv, OncePooled, Recorded, Writes, Lines
<1>3a. Stays(audits, Lines) /\ Stays(results, Lines)
  BY <1>1, <1>3 DEF Stays, Grows
<1>3b. Clean(Reports)
  BY <1>3, Types, Uncut, CleanAppend
<1>3c. ASSUME Stays(taken, Instructions) PROVE Records' = Reports
  BY <1>1, <1>3, <1>3a, <1>3c, Growth
<1> HIDE DEF a
<1>4. /\ Once(jobs, active') /\ active' \subseteq active
      /\ \A j : In(jobs, active', j) <=> Pooled(j) /\ j # a
  BY <1>1, InEnd DEF IInv, OncePooled, Pooled
<1>5. \A x \in Instructions, k \in Writes : ~In(jobs, active', <<k, x>>)
  BY <1>2, <1>4 DEF IInv, OncePooled, Writing, Writes, a
<1>6. CASE pc = "audit" /\ ~stop /\ queue # <<>> /\ Begin(Head(queue))
  <2>1. Takes = Ids(Reports)
    BY <1>6 DEF IInv, Reported
  <2>2. Stays(taken, Instructions)
    BY <1>6, Types, TailLine DEF Begin, Stays, Grows
  <2>3. Records' = Reports
    BY <1>3c, <2>2
  <2> QED
    BY <1>1, <1>3a, <1>3b, <1>4, <1>5, <1>6, <2>1, <2>3, BeginKeeps
<1>7. ASSUME UNCHANGED <<queue, cur, status, jobs, taken, late>>,
             \/ pc = "audit" /\ pc' \in {"ended", "getting"}
             \/ pc \in Down /\ pc' = pc
      PROVE  IInv'
  <2> DEFINE Split == /\ Cuts(takenAt', taken') /\ Cuts(resultsAt', results') /\ Cuts(auditsAt', audits')
                      /\ Len(takenAt') = Len(resultsAt') /\ Len(takenAt') = Len(auditsAt')
                      /\ results' \in Seq(Lines) /\ audits' \in Seq(Lines)
  <2>0. Split /\ Past' /\ Reports' = Reports /\ Records' = Reports /\ Takes' = Takes
    <3>1. Stays(taken, Instructions)
      BY <1>7 DEF Stays, Grows
    <3> QED
      BY <1>1, <1>3a, <1>3c, <1>7, <3>1, Growth
  <2>1. active' \subseteq Job
    BY <1>4, Types
  <2>2. pc' \in Down \cup {"getting"} /\ (pc' = "getting" => pc = "audit")
    BY <1>7 DEF Down
  <2>3. TypeOK'
    BY <1>1, <1>7, <2>0, <2>1, <2>2, Types DEF TypeOK
  <2>4. \A j : Pooled(j)' <=> Pooled(j) /\ j # a
    BY <1>4, <1>7 DEF Pooled
  <2>5. \A x \in Instructions, k \in Writes : ~Pooled(<<k, x>>)'
    BY <1>5, <1>7 DEF Pooled
  <2>6. ~Writing("result")' /\ ~Writing("audit")'
    BY <1>2, <1>7, <2>5 DEF Writing, Writes
  <2>7. OncePooled'
    BY <1>4, <1>7, <2>2, <2>5, <2>6 DEF OncePooled, Writes
  <2>8. OnceTaken'
    <3>1. pc' \notin Engaged
      BY <2>2 DEF Engaged, Down
    <3> QED
      BY <1>1, <1>7, <3>1 DEF IInv, OnceTaken
  <2>9. Recorded'
    BY <1>3b, <2>0, <2>6, Types, CopiedSame DEF Recorded
  <2>10. Reported'
    <3>1. pc' \notin {"executing", "waiting"} /\ pc' # "audit"
      BY <2>2 DEF Down
    <3>2. pc' \in {"getting", "ended"} => Takes = Ids(Reports)
      BY <1>7, <2>2 DEF IInv, Reported
    <3> QED
      BY <1>1, <1>7, <2>0, <2>6, <3>1, <3>2 DEF IInv, Reported
  <2>11. \A x : /\ Untouched(x)' <=> Untouched(x)
                /\ Covered(x)' = Covered(x)
    BY <1>1, <2>4 DEF Untouched, Covered, Sanctioned, a
  <2>12. Accounted'
    <3>1. pc' # "executing" /\ pc' # "waiting"
      BY <2>2 DEF Down
    <3> QED
      BY <1>1, <1>7, <2>6, <2>11, <3>1 DEF IInv, Accounted
  <2> QED
    BY <2>0, <2>3, <2>7, <2>8, <2>9, <2>10, <2>12 DEF IInv
<1> QED
  BY <1>1, <1>3, <1>6, <1>7 DEF LoopOn, loop

LEMMA WriteFailsKeeps == \A j \in Job : IInv /\ WriteFails(j) => IInv'
<1> SUFFICES ASSUME IInv, NEW j \in Job, WriteFails(j) PROVE IInv'
  OBVIOUS
<1>1. /\ j \in active /\ j[1] # "command" /\ active' = active \ {j}
      /\ pc' = (IF pc = j[1] THEN "raised" ELSE pc)
      /\ UNCHANGED files \/ \E s \in {"cut", status} : Gets(j, s)
      /\ UNCHANGED <<manifest, queue, stop, cur, status, jobs, effect, taken, late, lives>>
  BY DEF WriteFails
<1>2. /\ Once(jobs', active') /\ \A x : Pooled(x)' <=> Pooled(x) /\ x # j
  BY <1>1, InEnd DEF IInv, OncePooled, Pooled
<1>3. j[1] \in Writes /\ j[2] = cur /\ Writing(j[1])
  BY <1>1, Jobs DEF IInv, OncePooled, Writing, Pooled, In
<1>4. pc' \in Down /\ (pc' = "ended" => pc = "ended")
  <2>1. pc = j[1] \/ pc \in Down
    BY <1>3 DEF IInv, OncePooled
  <2> QED
    BY <1>1, <2>1 DEF Down
<1>5. active' \subseteq Job /\ jobs' \in Seq(Job)
  BY <1>1, Types
<1>6. Leaves(j)
  BY <1>1, <1>2 DEF Leaves
<1> QED
  BY <1>1, <1>2, <1>4, <1>5, <1>6, DownKeeps

LEMMA CancelKeeps == IInv /\ Cancel => IInv'
<1> SUFFICES ASSUME IInv, Cancel PROVE IInv'
  OBVIOUS
<1>1. PICK j : jobs' = RemoveFirst(jobs, j)
  BY DEF Cancel, Withdrawn
<1>2. /\ pc' = "cancelled"
      /\ UNCHANGED <<manifest, queue, stop, cur, status, active, files, effect, taken, late, lives>>
  BY DEF Cancel
<1>3. jobs' \in Seq(Job) /\ Once(jobs', active') /\ \A x : Pooled(x)' => Pooled(x)
  BY <1>1, <1>2, Types, InRemove DEF IInv, OncePooled, Pooled, In
<1>4. Leaves(j) /\ active' \subseteq Job
  BY <1>2, Types DEF Leaves
<1> QED
  BY <1>2, <1>3, <1>4, DownKeeps DEF Down

LEMMA DieKeeps == IInv /\ Die => IInv'
<1> SUFFICES ASSUME IInv, Die PROVE IInv'
  OBVIOUS
<1>1. /\ pc' = "dead" /\ queue' = <<>> /\ jobs' = <<>> /\ active' = {}
      /\ UNCHANGED files \/ \E j \in active : j[1] # "command" /\ Gets(j, "cut")
      /\ UNCHANGED <<manifest, stop, cur, status, effect, taken, late, lives>>
  BY DEF Die
<1>2. Once(jobs', active') /\ \A x : ~Pooled(x)'
  BY <1>1 DEF Once, Distinct, Pooled, In, InLine
<1>3. jobs' \in Seq(Job) /\ active' \subseteq Job
  <2>1. <<>> \in Seq(Job)
    OBVIOUS
  <2> QED
    BY <1>1, <2>1
<1>4. \E j : Leaves(j)
  BY <1>1, <1>2 DEF Leaves
<1>5. pc' \in Down /\ pc' # "ended"
  BY <1>1 DEF Down
<1> QED
  BY <1>1, <1>2, <1>3, <1>4, <1>5, DownKeeps

LEMMA RestartKeeps == IInv /\ Restart => IInv'
<1> SUFFICES ASSUME IInv, Restart PROVE IInv'
  OBVIOUS
<1>1. /\ pc' = "getting" /\ cur' = None /\ status' = None
      /\ queue' = <<>> /\ stop' = FALSE /\ jobs' = <<>> /\ active' = {} /\ late' = 0
      /\ takenAt' = Append(takenAt, Len(taken))
      /\ resultsAt' = Append(resultsAt, Len(results)) /\ auditsAt' = Append(auditsAt, Len(audits))
      /\ UNCHANGED <<manifest, results, audits, effect, taken>>
  BY DEF Restart, files
<1> DEFINE Begins(t, b, c) ==
      /\ Cuts(c, t) /\ Len(c) = Len(b) + 1 /\ Part(t, c, Len(c)) = <<>>
      /\ \A L \in 1..Len(c) : L # Len(c) => L \in 1..Len(b) /\ Part(t, c, L) = Part(t, b, L)
<1>2. /\ Begins(taken, takenAt, takenAt') /\ Begins(results, resultsAt, resultsAt')
      /\ Begins(audits, auditsAt, auditsAt')
  <2>1. taken \in Seq(Instructions) /\ Cuts(takenAt, taken)
    BY Types
  <2>2. results \in Seq(Lines) /\ Cuts(resultsAt, results)
    BY Types
  <2>3. audits \in Seq(Lines) /\ Cuts(auditsAt, audits)
    BY Types
  <2>4. Begins(taken, takenAt, takenAt')
    BY <1>1, <2>1, PartBegins
  <2>5. Begins(results, resultsAt, resultsAt')
    BY <1>1, <2>2, PartBegins
  <2>6. Begins(audits, auditsAt, auditsAt')
    BY <1>1, <2>3, PartBegins
  <2> QED
    BY <2>4, <2>5, <2>6
<1>3. Once(jobs', active') /\ \A x : ~Pooled(x)'
  BY <1>1 DEF Once, Distinct, Pooled, In, InLine
<1>4. ~Writing("result")' /\ ~Writing("audit")'
  BY <1>3 DEF Writing
<1>5. TypeOK'
  <2>1. \A S : <<>> \in Seq(S)
    OBVIOUS
  <2> QED
    BY <1>1, <1>2, <2>1, Types DEF TypeOK
<1>6. Past'
  <2>1. Len(takenAt') = Len(resultsAt') /\ Len(takenAt') = Len(auditsAt')
    BY <1>5 DEF TypeOK
  <2>2. ASSUME NEW L \in 1..Len(takenAt)
        PROVE  /\ Copied(Part(audits, auditsAt, L), Part(results, resultsAt, L))
               /\ InTurn(Part(results, resultsAt, L), Part(taken, takenAt, L))
    <3>1. CASE L = Len(takenAt)
      BY <3>1, Types DEF IInv, Recorded, Reported, Reports, Records, Takes
    <3>2. CASE L # Len(takenAt)
      BY <3>2 DEF IInv, Past
    <3> QED
      BY <3>1, <3>2
  <2> QED
    BY <1>1, <1>2, <2>1, <2>2 DEF Past
<1>7. OncePooled'
  BY <1>1, <1>3, <1>4 DEF OncePooled, Writes
<1>8. OnceTaken'
  BY <1>1 DEF IInv, OnceTaken, Distinct, Engaged, InLine
<1>9. Recorded' /\ Reported'
  <2>1. Reports' = <<>> /\ Records' = <<>> /\ Takes' = <<>>
    BY <1>1, <1>2 DEF Reports, Records, Takes
  <2>2. <<>> \in Seq(Lines) /\ Clean(<<>>) /\ Ids(<<>>) = <<>>
    BY DEF Clean, Ids
  <2>3. Copied(<<>>, <<>>) /\ InTurn(<<>>, <<>>)
    BY <2>2, CopiedSame, InTurnNow
  <2>4. \A n \in 1..Len(results') : InLine(taken', results'[n][1])
    BY <1>1 DEF IInv, Reported
  <2> QED
    BY <1>1, <1>4, <2>1, <2>2, <2>3, <2>4 DEF Recorded, Reported
<1>10. /\ \A x : Untouched(x) => Untouched(x)'
       /\ \A x : Covered(x)' = Covered(x)
  BY <1>1, <1>3 DEF Untouched, Covered, Sanctioned
<1>11. Accounted'
  BY <1>1, <1>4, <1>10 DEF IInv, Accounted
<1> QED
  BY <1>5, <1>6, <1>7, <1>8, <1>9, <1>11 DEF IInv

LEMMA StutterKeeps == IInv /\ UNCHANGED vars => IInv'
<1> SUFFICES ASSUME IInv, UNCHANGED vars PROVE IInv'
  OBVIOUS
<1>1. UNCHANGED <<manifest, queue, stop, pc, cur, status, jobs, active, results, audits,
                  effect, taken, late, takenAt, resultsAt, auditsAt>>
  BY DEF vars, loop, pool, files, lives
<1>2. TypeOK'
  BY <1>1, Types DEF TypeOK
<1>3. Once(jobs', active')
  BY <1>1 DEF IInv, OncePooled
<1>4. /\ \A k \in Writes : \A i \in Instructions : Pooled(<<k, i>>)' <=> Pooled(<<k, i>>)
      /\ \A i \in Instructions : Untouched(i) => Untouched(i)'
  BY <1>1 DEF Pooled, Untouched
<1> QED
  BY <1>1, <1>2, <1>3, <1>4, LoopAside DEF loop, files, lives

THEOREM McpInvariant == SafeSpec => []IInv
<1>1. IInv /\ [Next]_vars => IInv'
  BY SubmitKeeps, ShutdownKeeps, WakeKeeps, ExecuteKeeps, BrowserEndsKeeps, TimeoutKeeps,
     JobStartsKeeps, CommandEndsKeeps, ResultWrittenKeeps, AuditWrittenKeeps, WriteFailsKeeps,
     CancelKeeps, DieKeeps, RestartKeeps, StutterKeeps DEF Next
<1> QED
  BY <1>1, InitHolds, PTL DEF SafeSpec

-----------------------------------------------------------------------------
(* Every value keeps to its kind, and the histories of the lives cut up    *)
(* what was taken, reported and recorded (service.py:78-81, 99-229).       *)
THEOREM McpTypeCorrect == SafeSpec => []TypeOK
  BY McpInvariant, Gives, PTL

(* Whatever the instructions, over any number of lives and however each of *)
(* them ends: the lines a life adds to the audit log are those it adds to  *)
(* the result log, but for the last, which may be missing or cut           *)
(* (service.py:78-81, 149-150, 228-229).                                   *)
THEOREM AuditAlwaysFollowsResult == SafeSpec => []AuditFollowsResult
  BY McpInvariant, Gives, PTL

(* In no life is an instruction reported twice or out of turn, though its  *)
(* command may outlive it in the pool (service.py:115-116, 149, 228).      *)
THEOREM AlwaysReportedInOrder == SafeSpec => []ReportedInOrder
  BY McpInvariant, Gives, PTL

(* Nothing takes effect without signature, role and real run, and no       *)
(* result that denies an effect is made false by a thread that is still at *)
(* work or by a command withdrawn too late (dispatcher.py:49-60, 295-303). *)
THEOREM EffectsAlwaysCovered == SafeSpec => []EffectsAreCovered
  BY McpInvariant, Gives, PTL
=============================================================================
