------------------------------ MODULE Iteration ------------------------------
(***************************************************************************)
(* Induction on natural numbers, and functions defined by recursion on     *)
(* them, for sets and functions (not operators): a set of numbers has a    *)
(* least element, from which everything else follows.  Division with a     *)
(* remainder.  Sequences of anything, what they are behind each other, and *)
(* their pieces.                                                           *)
(***************************************************************************)
EXTENDS Integers, SequenceTheorems, WellFoundedInduction, TLAPS

Before == { ss \in Nat \X Nat : ss[1] < ss[2] }

\* Every set of natural numbers has a least element.
LEMMA LeastNumber ==
  ASSUME NEW S \in SUBSET Nat, S # {}
  PROVE  \E n \in S : \A m \in S : n <= m
PROOF
<1>1. IsWellFoundedOn(Before, Nat)
  BY NatLessThanWellFounded DEF OpToRel, Before
<1>2. PICK n \in S : \A m \in S : ~(<< m, n >> \in Before)
  BY <1>1, WFMin
<1>3. \A m \in S : << m, n >> \in Nat \X Nat /\ << m, n >>[1] = m /\ << m, n >>[2] = n
  OBVIOUS
<1>4. \A m \in S : ~(m < n)
  BY <1>2, <1>3 DEF Before
<1> QED BY <1>4

\* A set of numbers with 0 and the successor of each of its elements has all.
LEMMA Induction ==
  ASSUME NEW S \in SUBSET Nat, 0 \in S, \A n \in S : n + 1 \in S
  PROVE  S = Nat
PROOF
<1> SUFFICES ASSUME Nat \ S # {} PROVE FALSE
  OBVIOUS
<1>1. PICK n \in Nat \ S : \A m \in Nat \ S : n <= m
  BY LeastNumber
<1>2. n # 0 /\ n - 1 \in Nat /\ n - 1 \in S
  BY <1>1
<1> QED BY <1>1, <1>2

\* g gives the first n turns.
FirstTurns(g, n, s, step) ==
  g[0] = s /\ \A i \in 1 .. n : g[i] = step[g[i - 1]]

\* Some f begins with s and goes on with step.
Iterates(S, s, step) ==
  \E f \in [Nat -> S] : f[0] = s /\ \A i \in Nat : f[i + 1] = step[f[i]]

\* What begins with s and goes on with step is defined for every turn.
LEMMA IterationExists ==
  ASSUME NEW S, NEW s \in S, NEW step \in [S -> S]
  PROVE  Iterates(S, s, step)
PROOF
<1> DEFINE P == { n \in Nat : \E g \in [0 .. n -> S] : FirstTurns(g, n, s, step) }
<1>1. 0 \in P
  <2>1. [i \in 0 .. 0 |-> s] \in [0 .. 0 -> S] /\ FirstTurns([i \in 0 .. 0 |-> s], 0, s, step)
    BY DEF FirstTurns
  <2> QED BY <2>1
<1>2. ASSUME NEW n \in P
      PROVE  n + 1 \in P
  <2>1. PICK g \in [0 .. n -> S] : FirstTurns(g, n, s, step)
    OBVIOUS
  <2> DEFINE h == [i \in 0 .. n + 1 |-> IF i = n + 1 THEN step[g[n]] ELSE g[i]]
  <2>2. h \in [0 .. n + 1 -> S]
    OBVIOUS
  <2>3. FirstTurns(h, n + 1, s, step)
    BY <2>1 DEF FirstTurns
  <2> QED BY <2>2, <2>3
<1>3. P = Nat
  <2> HIDE DEF P
  <2>1. P \in SUBSET Nat
    BY DEF P
  <2> QED BY <1>1, <1>2, <2>1, Induction
<1>4. ASSUME NEW n \in Nat, NEW m \in Nat, n <= m,
             NEW g \in [0 .. n -> S], FirstTurns(g, n, s, step),
             NEW h \in [0 .. m -> S], FirstTurns(h, m, s, step)
      PROVE  g[n] = h[n]
  <2> DEFINE Q == { k \in Nat : k <= n => g[k] = h[k] }
  <2>1. 0 \in Q
    BY <1>4 DEF FirstTurns
  <2>2. ASSUME NEW k \in Q
        PROVE  k + 1 \in Q
    <3> SUFFICES ASSUME k + 1 <= n PROVE g[k + 1] = h[k + 1]
      OBVIOUS
    <3>1. k + 1 \in 1 .. n /\ k + 1 \in 1 .. m /\ (k + 1) - 1 = k
      BY <1>4
    <3>2. g[k + 1] = step[g[k]] /\ h[k + 1] = step[h[k]]
      BY <1>4, <3>1 DEF FirstTurns
    <3> QED BY <3>1, <3>2
  <2>3. Q = Nat
    <3> HIDE DEF Q
    <3>1. Q \in SUBSET Nat
      BY DEF Q
    <3> QED BY <2>1, <2>2, <3>1, Induction
  <2> QED BY <2>3
<1> DEFINE G(n) == CHOOSE g \in [0 .. n -> S] : FirstTurns(g, n, s, step)
           f == [n \in Nat |-> G(n)[n]]
<1>5. ASSUME NEW n \in Nat
      PROVE  G(n) \in [0 .. n -> S] /\ FirstTurns(G(n), n, s, step)
  <2>1. \E g \in [0 .. n -> S] : FirstTurns(g, n, s, step)
    BY <1>3
  <2> QED BY <2>1
<1> HIDE DEF G
<1>6. f \in [Nat -> S]
  BY <1>5
<1>7. f[0] = s
  BY <1>5 DEF FirstTurns
<1>8. ASSUME NEW n \in Nat \ {0}
      PROVE  f[n] = step[f[n - 1]]
  <2>1. n - 1 \in Nat /\ n \in 1 .. n
    OBVIOUS
  <2>2. G(n)[n] = step[G(n)[n - 1]]
    BY <1>5, <2>1 DEF FirstTurns
  <2>3. G(n - 1)[n - 1] = G(n)[n - 1]
    BY <1>4, <1>5, <2>1
  <2> QED BY <2>1, <2>2, <2>3
<1>9. \A i \in Nat : f[i + 1] = step[f[i]]
  <2> TAKE i \in Nat
  <2>1. i + 1 \in Nat \ {0} /\ (i + 1) - 1 = i
    OBVIOUS
  <2> HIDE DEF f
  <2> QED BY <1>8, <2>1
<1> HIDE DEF f
<1> QED BY <1>6, <1>7, <1>9 DEF Iterates

\* Some f begins with s and goes on with the step of each turn.
Continues(S, s, step) ==
  \E f \in [Nat -> S] : f[0] = s /\ \A i \in Nat : f[i + 1] = step[i + 1][f[i]]

\* The step may also depend on the number of the turn.
LEMMA RecursionExists ==
  ASSUME NEW S, NEW s \in S, NEW step \in [Nat -> [S -> S]]
  PROVE  Continues(S, s, step)
PROOF
<1> DEFINE T == Nat \X S
           go == [x \in T |-> << x[1] + 1, step[x[1] + 1][x[2]] >>]
<1>1. go \in [T -> T]
  <2> SUFFICES ASSUME NEW x \in T PROVE << x[1] + 1, step[x[1] + 1][x[2]] >> \in T
    OBVIOUS
  <2>1. x[1] + 1 \in Nat /\ x[2] \in S
    OBVIOUS
  <2>2. step[x[1] + 1] \in [S -> S]
    BY <2>1
  <2> QED BY <2>1, <2>2
<1>2. << 0, s >> \in T /\ \A x \in T : go[x] = << x[1] + 1, step[x[1] + 1][x[2]] >>
  OBVIOUS
<1>3. PICK g \in [Nat -> T] : g[0] = << 0, s >> /\ \A i \in Nat : g[i + 1] = go[g[i]]
  <2> HIDE DEF go, T
  <2>1. Iterates(T, << 0, s >>, go)
    BY <1>1, <1>2, IterationExists
  <2> QED BY <2>1 DEF Iterates
<1> DEFINE f == [i \in Nat |-> g[i][2]]
           P == { i \in Nat : g[i][1] = i }
<1>4. 0 \in P
  BY <1>3
<1>5. ASSUME NEW i \in P PROVE i + 1 \in P
  <2>1. g[i + 1] = go[g[i]] /\ g[i] \in T
    BY <1>3
  <2>2. g[i + 1][1] = g[i][1] + 1
    BY <2>1
  <2> QED BY <2>2
<1>6. P = Nat
  <2> HIDE DEF P
  <2>1. P \in SUBSET Nat
    BY DEF P
  <2> QED BY <1>4, <1>5, <2>1, Induction
<1>7. f \in [Nat -> S] /\ f[0] = s
  BY <1>3
<1>8. \A i \in Nat : f[i + 1] = step[i + 1][f[i]]
  <2> TAKE i \in Nat
  <2>1. g[i + 1] = go[g[i]] /\ g[i] \in T /\ i + 1 \in Nat
    <3> HIDE DEF go, T
    <3> QED BY <1>3
  <2>2. g[i][1] = i
    BY <1>6
  <2>3. go[g[i]] = << g[i][1] + 1, step[g[i][1] + 1][g[i][2]] >>
    <3> HIDE DEF go, T
    <3> QED BY <1>2, <2>1
  <2>4. g[i + 1][2] = step[i + 1][g[i][2]]
    <3> HIDE DEF go
    <3> QED BY <2>1, <2>2, <2>3
  <2> QED BY <2>1, <2>4
<1> HIDE DEF f
<1> QED BY <1>7, <1>8 DEF Continues

\* Induction up to a number.
LEMMA InductionUpTo ==
  ASSUME NEW k \in Nat, NEW P \in SUBSET Nat, 0 \in P,
         \A n \in P : n < k => n + 1 \in P
  PROVE  \A n \in 0 .. k : n \in P
PROOF
<1> DEFINE Q == { n \in Nat : n <= k => n \in P }
<1>1. 0 \in Q
  OBVIOUS
<1>2. ASSUME NEW n \in Q PROVE n + 1 \in Q
  OBVIOUS
<1>3. Q = Nat
  <2> HIDE DEF Q
  <2>1. Q \in SUBSET Nat
    BY DEF Q
  <2> QED BY <1>1, <1>2, <2>1, Induction
<1> QED BY <1>3

\* The same for the turns up to k.
GoesThrough(S, s, k, step) ==
  \E f \in [0 .. k -> S] : f[0] = s /\ \A n \in 1 .. k : f[n] = step[n][f[n - 1]]

LEMMA RecursionUpTo ==
  ASSUME NEW S, NEW s \in S, NEW k \in Nat, NEW step \in [1 .. k -> [S -> S]]
  PROVE  GoesThrough(S, s, k, step)
PROOF
<1> DEFINE go == [n \in Nat |-> IF n \in 1 .. k THEN step[n] ELSE [v \in S |-> v]]
<1>1. go \in [Nat -> [S -> S]]
  OBVIOUS
<1>2. \A n \in 1 .. k : go[n] = step[n] /\ n - 1 \in Nat /\ (n - 1) + 1 = n
  OBVIOUS
<1> HIDE DEF go
<1>3. Continues(S, s, go)
  BY <1>1, RecursionExists
<1>4. PICK g \in [Nat -> S] : g[0] = s /\ \A i \in Nat : g[i + 1] = go[i + 1][g[i]]
  BY <1>3 DEF Continues
<1> DEFINE f == [n \in 0 .. k |-> g[n]]
<1>5. f \in [0 .. k -> S] /\ f[0] = s
  BY <1>4
<1>6. ASSUME NEW n \in 1 .. k PROVE f[n] = step[n][f[n - 1]]
  <2>1. g[n] = step[n][g[n - 1]]
    BY <1>2, <1>4
  <2>2. n \in 0 .. k /\ n - 1 \in 0 .. k
    OBVIOUS
  <2> QED BY <2>1, <2>2
<1> HIDE DEF f
<1> QED BY <1>5, <1>6 DEF GoesThrough

-----------------------------------------------------------------------------
(* Division *)

\* A number in its blocks, and turns of a counter.
LEMMA Times ==
  ASSUME NEW a \in Nat, NEW b \in Nat, NEW n \in Nat, a < b
  PROVE  /\ a * n \in Nat /\ b * n \in Nat /\ a * n + n <= b * n
         /\ (a + 1) * n = a * n + n
PROOF
<1>1. /\ a * n \in Nat /\ b * n \in Nat /\ (a + 1) * n = a * n + n
  OBVIOUS
<1>2. PICK d \in Nat : b = a + 1 + d
  <2>1. b - a - 1 \in Nat /\ b = a + 1 + (b - a - 1)
    OBVIOUS
  <2> QED BY <2>1
<1>3. b * n = a * n + n + d * n /\ d * n >= 0
  BY <1>2
<1> QED BY <1>1, <1>3

LEMMA DivIs ==
  ASSUME NEW n \in Nat \ {0}, NEW q \in Nat, NEW r \in 0 .. n - 1
  PROVE  (q * n + r) \div n = q /\ (q * n + r) % n = r
PROOF
<1> DEFINE a == q * n + r
           p == a \div n
           s == a % n
<1>1. a \in Nat
  OBVIOUS
<1>2. p \in Nat /\ s \in 0 .. n - 1 /\ a = n * p + s
  <2> HIDE DEF a
  <2> QED BY <1>1
<1>3. ~(p < q)
  BY <1>2, Times
<1>4. ~(q < p)
  BY <1>2, Times
<1> QED BY <1>2, <1>3, <1>4

LEMMA DivOf ==
  ASSUME NEW n \in Nat \ {0}, NEW a \in Nat
  PROVE  /\ a \div n \in Nat /\ a % n \in 0 .. n - 1 /\ (a \div n) * n \in Nat
         /\ a = (a \div n) * n + (a % n)
PROOF
<1> DEFINE q == a \div n
           s == a % n
<1>1. q \in Nat /\ s \in 0 .. n - 1 /\ a = n * q + s
  OBVIOUS
<1> HIDE DEF q, s
<1>2. q * n \in Nat /\ a = q * n + s
  BY <1>1
<1> QED BY <1>1, <1>2 DEF q, s

LEMMA ModAdds ==
  ASSUME NEW n \in Nat \ {0}, NEW a \in Nat, NEW j \in Nat
  PROVE  ((a % n) + j) % n = (a + j) % n
PROOF
<1> DEFINE q == a \div n
           s == a % n
           p == (s + j) \div n
           r == (s + j) % n
           t == q + p
<1>1. q \in Nat /\ s \in 0 .. n - 1 /\ a = q * n + s
  BY DivOf
<1> HIDE DEF q, s
<1>2. p \in Nat /\ r \in 0 .. n - 1 /\ s + j = p * n + r
  <2>1. s + j \in Nat
    BY <1>1
  <2> DEFINE b == s + j
  <2> HIDE DEF b
  <2>2. b \div n \in Nat /\ b % n \in 0 .. n - 1 /\ b = (b \div n) * n + (b % n)
    BY <2>1, DivOf DEF b
  <2> QED BY <2>2 DEF b
<1> HIDE DEF p, r
<1>3. t \in Nat /\ t * n = q * n + p * n /\ q * n \in Nat /\ p * n \in Nat
  BY <1>1, <1>2
<1> HIDE DEF t
<1>4. a + j = t * n + r
  BY <1>1, <1>2, <1>3
<1>5. (t * n + r) % n = r
  BY <1>2, <1>3, DivIs
<1> QED BY <1>4, <1>5 DEF r, s

-----------------------------------------------------------------------------
(* Sequences and their pieces *)

\* u is s with t behind it.
IsJoined(S, s, t, u) ==
  /\ u \in Seq(S) /\ Len(u) = Len(s) + Len(t)
  /\ \A i \in 1 .. Len(s) : u[i] = s[i]
  /\ \A j \in 1 .. Len(t) : u[Len(s) + j] = t[j]

LEMMA Appended ==
  ASSUME NEW S, NEW s \in Seq(S), NEW t \in Seq(S)
  PROVE  IsJoined(S, s, t, s \o t)
PROOF
<1>1. /\ s \o t \in Seq(S) /\ Len(s \o t) = Len(s) + Len(t)
      /\ \A i \in 1 .. Len(s) + Len(t) : (s \o t)[i] = IF i <= Len(s) THEN s[i] ELSE t[i - Len(s)]
  BY ConcatProperties
<1>2. Len(s) \in Nat /\ Len(t) \in Nat
  BY LenProperties
<1>3. ASSUME NEW i \in 1 .. Len(s) PROVE (s \o t)[i] = s[i]
  BY <1>1, <1>2
<1>4. ASSUME NEW j \in 1 .. Len(t) PROVE (s \o t)[Len(s) + j] = t[j]
  <2>1. Len(s) + j \in 1 .. Len(s) + Len(t) /\ ~(Len(s) + j <= Len(s)) /\ (Len(s) + j) - Len(s) = j
    BY <1>2
  <2> QED BY <1>1, <2>1
<1> QED BY <1>1, <1>3, <1>4 DEF IsJoined

\* There is only one such u.
LEMMA JoinedIs ==
  ASSUME NEW S, NEW s \in Seq(S), NEW t \in Seq(S), NEW u, IsJoined(S, s, t, u)
  PROVE  u = s \o t
PROOF
<1> DEFINE v == s \o t
<1>1. IsJoined(S, s, t, v)
  BY Appended
<1> HIDE DEF v
<1>2. Len(s) \in Nat /\ Len(t) \in Nat
  BY LenProperties
<1>3. /\ u \in Seq(S) /\ v \in Seq(S) /\ Len(u) = Len(s) + Len(t) /\ Len(v) = Len(s) + Len(t)
      /\ \A i \in 1 .. Len(s) : u[i] = s[i] /\ v[i] = s[i]
      /\ \A j \in 1 .. Len(t) : u[Len(s) + j] = t[j] /\ v[Len(s) + j] = t[j]
  BY <1>1 DEF IsJoined
<1>4. \A i \in 1 .. Len(u) : u[i] = v[i]
  <2> TAKE i \in 1 .. Len(u)
  <2>1. CASE i <= Len(s)
    BY <1>2, <1>3, <2>1
  <2>2. CASE i > Len(s)
    <3>1. i - Len(s) \in 1 .. Len(t) /\ Len(s) + (i - Len(s)) = i
      BY <1>2, <1>3, <2>2
    <3> QED BY <1>3, <3>1
  <2> QED BY <1>2, <1>3, <2>1, <2>2
<1>5. u = v
  BY <1>3, <1>4, SeqEqual
<1> QED BY <1>5 DEF v

\* A sequence of anything.
IsSeq(d) == \E S : d \in Seq(S)

LEMMA SeqIs ==
  ASSUME NEW n \in Nat, NEW d, d = [i \in 1 .. n |-> d[i]]
  PROVE  IsSeq(d) /\ Len(d) = n
PROOF
<1> DEFINE S == { d[i] : i \in 1 .. n }
<1>1. d \in [1 .. n -> S]
  OBVIOUS
<1> HIDE DEF S
<1>2. d \in Seq(S) /\ Len(d) = n
  BY <1>1
<1> QED BY <1>2 DEF IsSeq

LEMMA SeqLength ==
  ASSUME NEW d, IsSeq(d)
  PROVE  Len(d) \in Nat
BY LenProperties DEF IsSeq

LEMMA SameSeq ==
  ASSUME NEW d, NEW e, IsSeq(d), IsSeq(e), Len(d) = Len(e), \A i \in 1 .. Len(d) : d[i] = e[i]
  PROVE  d = e
PROOF
<1>1. PICK S : d \in Seq(S)
  BY DEF IsSeq
<1>2. PICK T : e \in Seq(T)
  BY DEF IsSeq
<1>3. d \in Seq(S \cup T) /\ e \in Seq(S \cup T)
  BY <1>1, <1>2
<1> QED BY <1>3, SeqEqual

LEMMA EmptyIsSeq == IsSeq(<< >>) /\ Len(<< >>) = 0
PROOF
<1>1. << >> \in Seq({})
  OBVIOUS
<1> QED BY <1>1 DEF IsSeq

LEMMA OneIsSeq ==
  ASSUME NEW x
  PROVE  IsSeq(<< x >>) /\ Len(<< x >>) = 1 /\ << x >>[1] = x
PROOF
<1>1. << x >> \in Seq({x})
  OBVIOUS
<1> QED BY <1>1 DEF IsSeq

LEMMA LengthZero ==
  ASSUME NEW d, IsSeq(d)
  PROVE  d = << >> <=> Len(d) = 0
PROOF
<1>1. ASSUME Len(d) = 0 PROVE d = << >>
  BY <1>1, EmptyIsSeq, SameSeq
<1> QED BY <1>1, EmptyIsSeq

\* d, and e behind it.
Join(d, e, u) ==
  /\ IsSeq(u) /\ Len(u) = Len(d) + Len(e)
  /\ \A i \in 1 .. Len(d) : u[i] = d[i]
  /\ \A j \in 1 .. Len(e) : u[Len(d) + j] = e[j]

LEMMA JoinIs ==
  ASSUME NEW d, NEW e, IsSeq(d), IsSeq(e)
  PROVE  Join(d, e, d \o e)
PROOF
<1>1. PICK S : d \in Seq(S)
  BY DEF IsSeq
<1>2. PICK T : e \in Seq(T)
  BY DEF IsSeq
<1>3. d \in Seq(S \cup T) /\ e \in Seq(S \cup T)
  BY <1>1, <1>2
<1>4. IsJoined(S \cup T, d, e, d \o e)
  BY <1>3, Appended
<1>5. IsSeq(d \o e)
  BY <1>4 DEF IsJoined, IsSeq
<1> QED BY <1>4, <1>5 DEF IsJoined, Join

LEMMA OnlyJoin ==
  ASSUME NEW d, NEW e, IsSeq(d), IsSeq(e), NEW u, NEW v, Join(d, e, u), Join(d, e, v)
  PROVE  u = v
PROOF
<1>1. Len(d) \in Nat /\ Len(e) \in Nat
  BY SeqLength
<1>2. /\ IsSeq(u) /\ IsSeq(v) /\ Len(u) = Len(d) + Len(e) /\ Len(v) = Len(d) + Len(e)
      /\ \A i \in 1 .. Len(d) : u[i] = d[i] /\ v[i] = d[i]
      /\ \A j \in 1 .. Len(e) : u[Len(d) + j] = e[j] /\ v[Len(d) + j] = e[j]
  BY DEF Join
<1>3. ASSUME NEW i \in 1 .. Len(u) PROVE u[i] = v[i]
  <2>1. CASE i <= Len(d)
    BY <1>1, <1>2, <2>1
  <2>2. CASE i > Len(d)
    <3>1. i - Len(d) \in 1 .. Len(e) /\ Len(d) + (i - Len(d)) = i
      BY <1>1, <1>2, <2>2
    <3> QED BY <1>2, <3>1
  <2> QED BY <1>1, <1>2, <2>1, <2>2
<1> QED BY <1>2, <1>3, SameSeq

LEMMA JoinTwice ==
  ASSUME NEW d, NEW e, NEW f, IsSeq(d), IsSeq(e), IsSeq(f)
  PROVE  (d \o e) \o f = d \o (e \o f)
PROOF
<1>1. PICK S : d \in Seq(S)
  BY DEF IsSeq
<1>2. PICK T : e \in Seq(T)
  BY DEF IsSeq
<1>3. PICK R : f \in Seq(R)
  BY DEF IsSeq
<1>4. d \in Seq(S \cup T \cup R) /\ e \in Seq(S \cup T \cup R) /\ f \in Seq(S \cup T \cup R)
  BY <1>1, <1>2, <1>3
<1> QED BY <1>4, ConcatAssociative

LEMMA JoinEmpty ==
  ASSUME NEW d, IsSeq(d)
  PROVE  << >> \o d = d /\ d \o << >> = d
PROOF
<1>1. PICK S : d \in Seq(S)
  BY DEF IsSeq
<1> QED BY <1>1, ConcatEmptySeq

LEMMA AppendJoins ==
  ASSUME NEW d, IsSeq(d), NEW x
  PROVE  Append(d, x) = d \o << x >>
PROOF
<1>1. PICK S : d \in Seq(S)
  BY DEF IsSeq
<1>2. d \in Seq(S \cup {x}) /\ x \in S \cup {x}
  BY <1>1
<1> QED BY <1>2, AppendIsConcat

\* The elements behind the first a, up to the b-th.
Piece(d, a, b) == SubSeq(d, a + 1, b)
Within(d, a, b) == IsSeq(d) /\ a \in Nat /\ b \in Nat /\ a <= b /\ b <= Len(d)

LEMMA PieceIs ==
  ASSUME NEW d, NEW a, NEW b, Within(d, a, b)
  PROVE  /\ IsSeq(Piece(d, a, b)) /\ Len(Piece(d, a, b)) = b - a /\ b - a \in Nat
         /\ \A i \in 1 .. b - a : Piece(d, a, b)[i] = d[a + i]
PROOF
<1>1. PICK S : d \in Seq(S)
  BY DEF IsSeq, Within
<1>2. a \in Nat /\ b \in Nat /\ a <= b /\ b <= Len(d) /\ Len(d) \in Nat
  BY SeqLength DEF Within
<1>3. \A i \in a + 1 .. b : i \in 1 .. Len(d)
  BY <1>2
<1>4. \A i \in a + 1 .. b : d[i] \in S
  BY <1>1, <1>3, ElementOfSeq
<1>5. a + 1 \in Int /\ b \in Int
  BY <1>2
<1>6. /\ SubSeq(d, a + 1, b) \in Seq(S)
      /\ Len(SubSeq(d, a + 1, b)) = IF a + 1 <= b THEN b - (a + 1) + 1 ELSE 0
      /\ \A i \in 1 .. b - (a + 1) + 1 : SubSeq(d, a + 1, b)[i] = d[a + 1 + i - 1]
  BY <1>1, <1>3, <1>4, <1>5, SubSeqProperties
<1>7. b - (a + 1) + 1 = b - a /\ (~(a + 1 <= b) => b - a = 0) /\ b - a \in Nat
  BY <1>2
<1>8. \A i \in 1 .. b - a : a + 1 + i - 1 = a + i
  BY <1>2
<1> QED BY <1>6, <1>7, <1>8 DEF Piece, IsSeq

LEMMA NoPiece ==
  ASSUME NEW d, NEW a, Within(d, a, a)
  PROVE  Piece(d, a, a) = << >>
PROOF
<1>1. a - a = 0
  BY DEF Within
<1> QED BY <1>1, PieceIs, LengthZero

LEMMA WholePiece ==
  ASSUME NEW d, IsSeq(d)
  PROVE  Piece(d, 0, Len(d)) = d
PROOF
<1>1. Len(d) \in Nat
  BY SeqLength
<1>2. Within(d, 0, Len(d)) /\ Len(d) - 0 = Len(d) /\ \A i \in 1 .. Len(d) : 0 + i = i
  BY <1>1 DEF Within
<1> DEFINE p == Piece(d, 0, Len(d))
<1>3. IsSeq(p) /\ Len(p) = Len(d) /\ \A i \in 1 .. Len(d) : p[i] = d[i]
  BY <1>2, PieceIs
<1> HIDE DEF p
<1>4. p = d
  BY <1>3, SameSeq
<1> QED BY <1>4 DEF p

LEMMA PiecesJoin ==
  ASSUME NEW d, NEW a, NEW b, NEW c, Within(d, a, b), Within(d, b, c)
  PROVE  Piece(d, a, b) \o Piece(d, b, c) = Piece(d, a, c)
PROOF
<1> DEFINE p == Piece(d, a, b)
           q == Piece(d, b, c)
           w == Piece(d, a, c)
<1>1. Within(d, a, c) /\ a \in Nat /\ b \in Nat /\ c \in Nat /\ a <= b /\ b <= c
  BY SeqLength DEF Within
<1>2. /\ IsSeq(p) /\ Len(p) = b - a /\ \A i \in 1 .. b - a : p[i] = d[a + i]
      /\ IsSeq(q) /\ Len(q) = c - b /\ \A i \in 1 .. c - b : q[i] = d[b + i]
      /\ IsSeq(w) /\ Len(w) = c - a /\ \A i \in 1 .. c - a : w[i] = d[a + i]
  <2>1. IsSeq(p) /\ Len(p) = b - a /\ \A i \in 1 .. b - a : p[i] = d[a + i]
    BY PieceIs
  <2>2. IsSeq(q) /\ Len(q) = c - b /\ \A i \in 1 .. c - b : q[i] = d[b + i]
    BY PieceIs
  <2>3. IsSeq(w) /\ Len(w) = c - a /\ \A i \in 1 .. c - a : w[i] = d[a + i]
    <3>1. Within(d, a, c)
      BY <1>1
    <3> QED BY ONLY <3>1, PieceIs
  <2> QED BY <2>1, <2>2, <2>3
<1> HIDE DEF p, q, w
<1>3. Join(p, q, w)
  <2>1. c - a = (b - a) + (c - b)
    BY <1>1
  <2>2. \A i \in 1 .. b - a : i \in 1 .. c - a
    BY <1>1
  <2>3. \A j \in 1 .. c - b : (b - a) + j \in 1 .. c - a /\ a + ((b - a) + j) = b + j
    BY <1>1
  <2> QED BY <1>2, <2>1, <2>2, <2>3 DEF Join
<1>4. p \o q = w
  BY <1>2, <1>3, JoinIs, OnlyJoin
<1> QED BY <1>4 DEF p, q, w

LEMMA PieceOfFirst ==
  ASSUME NEW d, NEW e, NEW a, NEW b, Within(d, a, b), IsSeq(e)
  PROVE  Piece(d \o e, a, b) = Piece(d, a, b) /\ Within(d \o e, a, b)
PROOF
<1> DEFINE u == d \o e
           p == Piece(u, a, b)
           q == Piece(d, a, b)
<1>1. IsSeq(d) /\ Len(d) \in Nat /\ Len(e) \in Nat /\ a \in Nat /\ b \in Nat /\ a <= b /\ b <= Len(d)
  BY SeqLength DEF Within
<1>2. IsSeq(u) /\ Len(u) = Len(d) + Len(e) /\ \A i \in 1 .. Len(d) : u[i] = d[i]
  BY <1>1, JoinIs DEF Join
<1> HIDE DEF u
<1>3. Within(u, a, b)
  BY <1>1, <1>2 DEF Within
<1>4. /\ IsSeq(p) /\ Len(p) = b - a /\ \A i \in 1 .. b - a : p[i] = u[a + i]
      /\ IsSeq(q) /\ Len(q) = b - a /\ \A i \in 1 .. b - a : q[i] = d[a + i]
  BY <1>3, PieceIs
<1> HIDE DEF p, q
<1>5. \A i \in 1 .. b - a : a + i \in 1 .. Len(d)
  BY <1>1
<1>6. p = q
  BY <1>2, <1>4, <1>5, SameSeq
<1> QED BY <1>3, <1>6 DEF p, q, u

LEMMA PieceOfSecond ==
  ASSUME NEW d, NEW e, NEW a, NEW b, Within(e, a, b), IsSeq(d)
  PROVE  /\ Piece(d \o e, Len(d) + a, Len(d) + b) = Piece(e, a, b)
         /\ Within(d \o e, Len(d) + a, Len(d) + b)
PROOF
<1> DEFINE u == d \o e
           p == Piece(u, Len(d) + a, Len(d) + b)
           q == Piece(e, a, b)
<1>1. IsSeq(e) /\ Len(d) \in Nat /\ Len(e) \in Nat /\ a \in Nat /\ b \in Nat /\ a <= b /\ b <= Len(e)
  BY SeqLength DEF Within
<1>2. IsSeq(u) /\ Len(u) = Len(d) + Len(e) /\ \A j \in 1 .. Len(e) : u[Len(d) + j] = e[j]
  BY <1>1, JoinIs DEF Join
<1> HIDE DEF u
<1>3. Within(u, Len(d) + a, Len(d) + b) /\ (Len(d) + b) - (Len(d) + a) = b - a
  BY <1>1, <1>2 DEF Within
<1>4. /\ IsSeq(p) /\ Len(p) = b - a /\ \A i \in 1 .. b - a : p[i] = u[(Len(d) + a) + i]
      /\ IsSeq(q) /\ Len(q) = b - a /\ \A i \in 1 .. b - a : q[i] = e[a + i]
  BY <1>3, PieceIs
<1> HIDE DEF p, q
<1>5. \A i \in 1 .. b - a : a + i \in 1 .. Len(e) /\ (Len(d) + a) + i = Len(d) + (a + i)
  BY <1>1
<1>6. p = q
  BY <1>2, <1>4, <1>5, SameSeq
<1> QED BY <1>3, <1>6 DEF p, q, u

LEMMA PieceOfPiece ==
  ASSUME NEW d, NEW a, NEW b, Within(d, a, b), NEW x, NEW y, Within(Piece(d, a, b), x, y)
  PROVE  Piece(Piece(d, a, b), x, y) = Piece(d, a + x, a + y) /\ Within(d, a + x, a + y)
PROOF
<1> DEFINE u == Piece(d, a, b)
           p == Piece(u, x, y)
           q == Piece(d, a + x, a + y)
<1>1. IsSeq(u) /\ Len(u) = b - a /\ b - a \in Nat /\ \A i \in 1 .. b - a : u[i] = d[a + i]
  BY PieceIs
<1>2. Within(u, x, y)
  OBVIOUS
<1> HIDE DEF u
<1>3. /\ IsSeq(d) /\ Len(d) \in Nat /\ a \in Nat /\ b \in Nat /\ b <= Len(d) /\ x \in Nat /\ y \in Nat
      /\ x <= y /\ y <= b - a
  BY <1>1, <1>2, SeqLength DEF Within
<1>4. Within(d, a + x, a + y) /\ (a + y) - (a + x) = y - x
  BY <1>3 DEF Within
<1>5. /\ IsSeq(p) /\ Len(p) = y - x /\ \A i \in 1 .. y - x : p[i] = u[x + i]
      /\ IsSeq(q) /\ Len(q) = y - x /\ \A i \in 1 .. y - x : q[i] = d[(a + x) + i]
  BY <1>2, <1>4, PieceIs
<1> HIDE DEF p, q
<1>6. \A i \in 1 .. y - x : x + i \in 1 .. b - a /\ (a + x) + i = a + (x + i)
  BY <1>3
<1>7. p = q
  BY <1>1, <1>5, <1>6, SameSeq
<1> QED BY <1>4, <1>7 DEF p, q, u

\* The end of what is joined: the end of the first, and the second.
LEMMA EndOfJoined ==
  ASSUME NEW d, NEW e, NEW a, Within(d, a, Len(d)), IsSeq(e)
  PROVE  Piece(d \o e, a, Len(d) + Len(e)) = Piece(d, a, Len(d)) \o e
PROOF
<1>1. Len(d) \in Nat /\ Len(e) \in Nat /\ IsSeq(d)
  BY SeqLength DEF Within
<1>2. Piece(d \o e, a, Len(d)) = Piece(d, a, Len(d)) /\ Within(d \o e, a, Len(d))
  BY PieceOfFirst
<1>3. Within(e, 0, Len(e)) /\ Len(d) + 0 = Len(d)
  BY <1>1 DEF Within
<1>4. Piece(d \o e, Len(d), Len(d) + Len(e)) = e /\ Within(d \o e, Len(d), Len(d) + Len(e))
  <2>1. /\ Piece(d \o e, Len(d) + 0, Len(d) + Len(e)) = Piece(e, 0, Len(e))
        /\ Within(d \o e, Len(d) + 0, Len(d) + Len(e))
    BY <1>1, <1>3, PieceOfSecond
  <2>2. Piece(e, 0, Len(e)) = e
    BY WholePiece
  <2> QED BY <1>3, <2>1, <2>2
<1> DEFINE u == d \o e
           k == Len(d) + Len(e)
<1>5. Within(u, a, Len(d)) /\ Within(u, Len(d), k)
  BY <1>2, <1>4
<1>6. Piece(u, a, Len(d)) = Piece(d, a, Len(d)) /\ Piece(u, Len(d), k) = e
  BY <1>2, <1>4
<1> HIDE DEF u, k
<1>7. Piece(u, a, Len(d)) \o Piece(u, Len(d), k) = Piece(u, a, k)
  BY <1>5, PiecesJoin
<1>8. Piece(u, a, k) = Piece(d, a, Len(d)) \o e
  BY <1>6, <1>7
<1> QED BY <1>8 DEF u, k
=============================================================================
