-------------------------- MODULE AtomicParts_proofs --------------------------
(***************************************************************************)
(* Proofs about AtomicParts, for any tree of parts, any number of entries  *)
(* and of workers: the safety properties of atomic extraction hold.        *)
(*                                                                         *)
(* The inductive invariant says where in its chain of directories each     *)
(* entry is, what its part and its destination are at each step, and that  *)
(* whatever exists has all directories above it.  The last part is what    *)
(* makes the clean-up right: a directory that is left has an entry that    *)
(* has still to try to remove it, or leads to the part of another run.     *)
(* Of the tree only that it has no circle is assumed: that the recursion   *)
(* of PathTo ends follows, and with it what PathTo is.                     *)
(***************************************************************************)
EXTENDS AtomicParts, SequenceTheorems, TLAPS

Making   == {"stat", "mkdir", "recheck"}
Early    == {"waiting", "unlink", "open"} \union Making
Late     == {"tidy", "rmdir", "done"}
Interior == { Parent[n] : n \in Nodes }

\* How many directories entry e makes in this round, and how many it has made.
Upto(e)   == IF stage[e] = "parts" THEN 2 ELSE Len(Chain(e))
Passed(e) == Upto(e) - Len(todo[e])

\* The top of what may be removed.
Low == IF call.rootZipy THEN 2 ELSE 1

Types ==
  /\ call \in Calls
  /\ phase \in {"run", "returned"}
  /\ pc \in [Entries -> Early \union {"write", "discard"} \union Late]
  /\ todo \in [Entries -> Seq(Nodes)]
  /\ stage \in [Entries -> {"parts", "parent"}]
  /\ off \in [Entries -> 0 .. Chunks]
  /\ fd \in [Entries -> Inodes]
  /\ ret \in [Entries -> {"OK", "ERR", "EFILE", "FAILED"}]
  /\ dirs \subseteq Nodes
  /\ file \in [Nodes -> Inodes \union {None}]
  /\ dest \in [Dests -> Inodes \union {None}]
  /\ data \in [Inodes -> [1 .. Chunks -> 0 .. Count]]

\* A file is no directory, and all that exists has its directories.
Shape ==
  /\ dirs \subseteq Interior
  /\ \A n \in Nodes : file[n] # None => n \notin Interior
  /\ \A n \in Nodes : Exists(n) => Above(n) \ {n} \subseteq dirs

\* What is left to make is the end of the chain, what is left to remove its begin.
Place(e) ==
  /\ pc[e] \in Making =>
       /\ Len(todo[e]) \in 1 .. Upto(e)
       /\ \A i \in 1 .. Len(todo[e]) : todo[e][i] = Chain(e)[Passed(e) + i]
  /\ pc[e] = "rmdir" =>
       /\ Len(todo[e]) \in 1 .. Len(Chain(e)) + 1 - Low
       /\ \A i \in 1 .. Len(todo[e]) : todo[e][i] = Chain(e)[Low + Len(todo[e]) - i]

Places == \A e \in Entries : Place(e)

\* The part of an entry is its own once the old one is removed.
Parts ==
  /\ \A e \in Entries :
       /\ pc[e] \in {"waiting", "unlink"} => stage[e] = "parts"
       /\ pc[e] \in {"waiting", "unlink"} \/ (pc[e] \in Making /\ stage[e] = "parts")
            => file[PartOf[e]] \in {None, Foreign}
       /\ pc[e] \in {"open"} \union Late \/ (pc[e] \in Making /\ stage[e] = "parent")
            => file[PartOf[e]] = None
       /\ pc[e] \in {"write", "discard"} => file[PartOf[e]] = e
  /\ \A n \in Nodes : file[n] \in {None, Foreign} \/ \E e \in Entries : n = PartOf[e]

\* The data goes to the inode of the entry, and its destination gets that one.
Contents ==
  \A e \in Entries :
    /\ pc[e] \in Early => ret[e] = "OK" /\ off[e] = 0
    /\ pc[e] = "write" =>
         /\ fd[e] = e /\ ret[e] = "OK"
         /\ \A k \in 1 .. off[e] : data[e][k] = e
    /\ pc[e] = "discard" => ret[e] # "OK"
    /\ pc[e] \in Late /\ ret[e] = "OK" =>
         /\ dest[DestOf[e]] = e
         /\ \A k \in 1 .. Chunks : data[e][k] = e
    /\ ~(pc[e] \in Late /\ ret[e] = "OK") => dest[DestOf[e]] = None

\* In zipy_extract_all nothing that was made is removed before the end.
InAll ==
  call.extractAll =>
    \A e \in Entries :
      /\ ret[e] \in {"OK", "FAILED"}
      /\ pc[e] # "rmdir"
      /\ pc[e] \in Making => \A k \in 1 .. Passed(e) : Chain(e)[k] \in dirs
      /\ pc[e] = "recheck" => Head(todo[e]) \in dirs
      /\ pc[e] = "open" => Parent[PartOf[e]] \in dirs

Over ==
  phase = "returned" =>
    /\ Active = {}
    /\ (call.extractAll /\ Failed) \/ \A e \in Entries : pc[e] = "done"

\* d leads to the part of another run, or belongs to the archive.
Excused(d) ==
  \/ \E m \in Nodes : file[m] = Foreign /\ d \in Above(m)
  \/ call.rootZipy /\ Parent[d] = Target

\* Entry e will still try to remove d, or leave it to the end of the call.
Minds(e, d) ==
  /\ d \in ToSet(Chain(e))
  /\ \/ call.extractAll /\ phase = "run"
     \/ pc[e] \notin {"waiting", "rmdir", "done"}
     \/ pc[e] = "rmdir" /\ d \in ToSet(todo[e])

Left ==
  ~Failed => \A d \in dirs : Excused(d) \/ \E e \in Entries : Minds(e, d)

IInv == Types /\ Shape /\ Places /\ Parts /\ Contents /\ InAll /\ Over /\ Left

-----------------------------------------------------------------------------
(* The tree of parts *)

\* p goes down from the target to n.
GoesTo(p, n) ==
  /\ p \in Seq(Nodes) /\ (n = Target <=> p = << >>)
  /\ p # << >> => p[Len(p)] = n /\ Parent[p[1]] = Target
  /\ \A k \in 2 .. Len(p) : Parent[p[k]] = p[k - 1]

\* What goes up from the target goes to every node.
LEMMA FromTheTarget ==
  ASSUME NEW S \in SUBSET Nodes,
         \A n \in Nodes : Parent[n] = Target \/ Parent[n] \in S => n \in S
  PROVE  S = Nodes
  <1> SUFFICES ASSUME Nodes \ S # {} PROVE FALSE
    OBVIOUS
  <1>1. PICK n \in Nodes \ S : Parent[n] \notin Nodes \ S
    BY TreeAssumption DEF TreeAssumption
  <1>2. Parent[n] \in Nodes \union {Target}
    BY PartsAssumption DEF PartsAssumption
  <1> QED
    BY <1>1, <1>2

\* A path goes on to what is below its end, and comes from what is above it.
LEMMA LongerPath ==
  ASSUME NEW n \in Nodes, NEW p, GoesTo(p, Parent[n])
  PROVE  GoesTo(Append(p, n), n)
  <1> DEFINE q == Append(p, n)
  <1>1. p \in Seq(Nodes) /\ n # Target
    BY PartsAssumption DEF PartsAssumption, GoesTo
  <1>2. Len(p) \in Nat
    BY <1>1, LenProperties
  <1>3. /\ q \in Seq(Nodes) /\ q # << >> /\ Len(q) = Len(p) + 1
        /\ \A k \in 1 .. Len(p) : q[k] = p[k]
        /\ q[Len(p) + 1] = n
    BY <1>1, AppendProperties
  <1> HIDE DEF q
  <1>4. CASE p = << >>
    <2>1. Len(p) = 0 /\ Parent[n] = Target
      BY <1>4, EmptySeq DEF GoesTo
    <2>2. q[1] = n /\ Len(q) = 1 /\ 2 .. 1 = {}
      BY <1>3, <2>1
    <2> QED
      BY <1>1, <1>3, <2>1, <2>2 DEF GoesTo, q
  <1>5. CASE p # << >>
    <2>1. /\ p[Len(p)] = Parent[n] /\ Parent[p[1]] = Target
          /\ \A k \in 2 .. Len(p) : Parent[p[k]] = p[k - 1]
      BY <1>5 DEF GoesTo
    <2>2. Len(p) >= 1
      BY <1>1, <1>2, <1>5, EmptySeq
    <2>3. q[1] = p[1] /\ q[Len(q)] = n
      BY <1>2, <1>3, <2>2
    <2>4. ASSUME NEW k \in 2 .. Len(q)
          PROVE  Parent[q[k]] = q[k - 1]
      <3>1. k - 1 \in 1 .. Len(p) /\ (k <= Len(p) => k \in 2 .. Len(p) /\ k \in 1 .. Len(p))
            /\ (k > Len(p) => k = Len(p) + 1 /\ k - 1 = Len(p))
        BY <1>2, <1>3
      <3>2. CASE k <= Len(p)
        BY <1>3, <2>1, <3>1, <3>2
      <3>3. CASE k > Len(p)
        BY <1>3, <2>1, <3>1, <3>3
      <3> QED
        BY <1>2, <3>2, <3>3
    <2> QED
      BY <1>1, <1>3, <2>1, <2>3, <2>4 DEF GoesTo, q
  <1> QED
    BY <1>4, <1>5

LEMMA ShorterPath ==
  ASSUME NEW n \in Nodes, NEW q, GoesTo(q, n)
  PROVE  \E p : GoesTo(p, Parent[n]) /\ q = Append(p, n)
  <1> DEFINE l == Len(q) - 1
             p == SubSeq(q, 1, l)
  <1>1. n # Target /\ Target \notin Nodes
    BY PartsAssumption DEF PartsAssumption
  <1>2. /\ q \in Seq(Nodes) /\ q # << >> /\ q[Len(q)] = n /\ Parent[q[1]] = Target
        /\ \A k \in 2 .. Len(q) : Parent[q[k]] = q[k - 1]
    BY <1>1 DEF GoesTo
  <1>3. Len(q) \in Nat /\ Len(q) >= 1
    BY <1>2, EmptySeq, LenProperties
  <1>4. l \in Nat /\ Len(q) = l + 1
    BY <1>3
  <1> HIDE DEF l
  <1>5. p \in Seq(Nodes) /\ Len(p) = l /\ \A k \in 1 .. l : p[k] = q[k]
    <2>1. \A k \in 1 .. l : q[k] \in Nodes
      BY <1>2, <1>4, ElementOfSeq
    <2>2. l \in Int /\ 1 \in Int /\ l - 1 + 1 = l /\ (~(1 <= l) => l = 0) /\ \A k \in 1 .. l : 1 + k - 1 = k
      BY <1>4
    <2>3. /\ p \in Seq(Nodes) /\ Len(p) = (IF 1 <= l THEN l - 1 + 1 ELSE 0)
          /\ \A k \in 1 .. l - 1 + 1 : p[k] = q[1 + k - 1]
      BY <2>1, <2>2, SubSeqProperties
    <2> HIDE DEF p
    <2> QED
      BY <2>2, <2>3
  <1> HIDE DEF p
  <1>6. q = Append(p, n)
    <2> DEFINE r == Append(p, n)
    <2>1. /\ r \in Seq(Nodes) /\ Len(r) = l + 1 /\ r[l + 1] = n
          /\ \A k \in 1 .. l : r[k] = p[k]
      BY <1>5, AppendProperties
    <2> HIDE DEF r
    <2>2. \A k \in 1 .. l + 1 : k \in 1 .. l \/ k = l + 1
      BY <1>4
    <2>3. \A k \in 1 .. Len(q) : q[k] = r[k]
      BY <1>2, <1>4, <1>5, <2>1, <2>2
    <2>4. q = r
      BY <1>2, <1>4, <2>1, <2>3, SeqEqual
    <2> QED
      BY <2>4 DEF r
  <1>7. GoesTo(p, Parent[n])
    <2>1. CASE l = 0
      <3>1. p = << >> /\ 2 .. 0 = {}
        BY <1>5, <2>1, EmptySeq
      <3>2. Parent[n] = Target
        BY <1>2, <1>4, <2>1
      <3> QED
        BY <1>5, <2>1, <3>1, <3>2 DEF GoesTo
    <2>2. CASE l # 0
      <3>1. l \in 1 .. l /\ 1 \in 1 .. l /\ l + 1 \in 2 .. Len(q) /\ (l + 1) - 1 = l
        BY <1>4, <2>2
      <3>2. p[l] = q[l] /\ p[1] = q[1] /\ Parent[n] = q[l] /\ q[l] \in Nodes /\ p # << >>
        BY <1>2, <1>4, <1>5, <3>1, ElementOfSeq, EmptySeq
      <3>3. ASSUME NEW k \in 2 .. l PROVE Parent[p[k]] = p[k - 1]
        <4>1. k \in 1 .. l /\ k - 1 \in 1 .. l /\ k \in 2 .. Len(q)
          BY <1>4
        <4> QED
          BY <1>2, <1>5, <4>1
      <3> QED
        BY <1>1, <1>2, <1>5, <3>2, <3>3 DEF GoesTo
    <2> QED
      BY <2>1, <2>2
  <1> QED
    BY <1>6, <1>7

LEMMA NoPathNeeded ==
  ASSUME NEW p
  PROVE  GoesTo(p, Target) <=> p = << >>
  <1>1. << >> \in Seq(Nodes) /\ Len(<< >>) = 0 /\ 2 .. 0 = {}
    OBVIOUS
  <1> QED
    BY <1>1 DEF GoesTo

\* Only one path goes to a node.
Alone(n) == \A p, q : GoesTo(p, n) /\ GoesTo(q, n) => p = q

LEMMA OnePath ==
  ASSUME NEW n \in Nodes \union {Target}
  PROVE  (\E p : GoesTo(p, n)) /\ Alone(n)
  <1> DEFINE S == { m \in Nodes : (\E p : GoesTo(p, m)) /\ Alone(m) }
  <1>1. (\E p : GoesTo(p, Target)) /\ Alone(Target)
    BY NoPathNeeded DEF Alone
  <1>2. ASSUME NEW m \in Nodes, Parent[m] = Target \/ Parent[m] \in S
        PROVE  m \in S
    <2>1. (\E p : GoesTo(p, Parent[m])) /\ Alone(Parent[m])
      BY <1>1, <1>2
    <2> HIDE DEF S
    <2>2. \E p : GoesTo(p, m)
      BY <2>1, LongerPath
    <2>3. ASSUME NEW q, NEW r, GoesTo(q, m), GoesTo(r, m)
          PROVE  q = r
      <3>1. PICK a : GoesTo(a, Parent[m]) /\ q = Append(a, m)
        BY <2>3, ShorterPath
      <3>2. PICK b : GoesTo(b, Parent[m]) /\ r = Append(b, m)
        BY <2>3, ShorterPath
      <3>3. a = b
        BY <2>1, <3>1, <3>2 DEF Alone
      <3> QED
        BY <3>1, <3>2, <3>3
    <2>4. Alone(m)
      BY <2>3 DEF Alone
    <2> QED
      BY <2>2, <2>4 DEF S
  <1>3. S = Nodes
    <2>1. S \in SUBSET Nodes
      OBVIOUS
    <2> HIDE DEF S
    <2> QED
      BY <1>2, <2>1, FromTheTarget
  <1>4. CASE n = Target
    BY <1>1, <1>4
  <1>5. CASE n \in Nodes
    <2>1. n \in S
      BY <1>3, <1>5
    <2> QED
      BY <2>1
  <1> QED
    BY <1>4, <1>5

\* So the recursion of PathTo has a value, and PathTo is it.
LEMMA PathToIs ==
  PathTo = [n \in Nodes \union {Target} |-> IF n = Target THEN << >> ELSE Append(PathTo[Parent[n]], n)]
  <1> DEFINE f == [n \in Nodes \union {Target} |-> CHOOSE p : GoesTo(p, n)]
  <1>1. ASSUME NEW n \in Nodes \union {Target}
        PROVE  GoesTo(f[n], n)
    BY OnePath
  <1> DEFINE R(n) == IF n = Target THEN << >> ELSE Append(f[Parent[n]], n)
  <1>2. ASSUME NEW n \in Nodes \union {Target}
        PROVE  f[n] = R(n)
    <2> HIDE DEF f
    <2>1. CASE n = Target
      BY <1>1, <2>1, NoPathNeeded
    <2>2. CASE n \in Nodes
      <3>1. Parent[n] \in Nodes \union {Target} /\ n # Target
        BY <2>2, PartsAssumption DEF PartsAssumption
      <3>2. GoesTo(f[Parent[n]], Parent[n])
        BY <1>1, <3>1
      <3>3. GoesTo(Append(f[Parent[n]], n), n)
        BY <2>2, <3>2, LongerPath
      <3>4. f[n] = Append(f[Parent[n]], n)
        BY <1>1, <3>3, OnePath DEF Alone
      <3> QED
        BY <3>1, <3>4
    <2> QED
      BY <2>1, <2>2
  <1>3. f = [n \in Nodes \union {Target} |-> f[n]]
    OBVIOUS
  <1> HIDE DEF f, R
  <1>4. f = [n \in Nodes \union {Target} |-> R(n)]
    BY <1>2, <1>3
  <1>5. f = [n \in Nodes \union {Target} |-> IF n = Target THEN << >> ELSE Append(f[Parent[n]], n)]
    BY <1>4 DEF R
  <1> QED
    BY <1>5 DEF PathTo

\* The path to a node goes there, and begins with the paths to what is above it.
LEMMA PathsGoDown ==
  ASSUME NEW n \in Nodes
  PROVE  /\ GoesTo(PathTo[n], n)
         /\ \A k \in 1 .. Len(PathTo[n]) : PathTo[PathTo[n][k]] = SubSeq(PathTo[n], 1, k)
  <1> DEFINE Good(m) == /\ GoesTo(PathTo[m], m)
                        /\ \A k \in 1 .. Len(PathTo[m]) : PathTo[PathTo[m][k]] = SubSeq(PathTo[m], 1, k)
             S == { m \in Nodes : Good(m) }
  <1>1. PathTo[Target] = << >>
    BY PathToIs
  <1>2. Good(Target)
    <2>1. Len(<< >>) = 0 /\ 1 .. 0 = {}
      OBVIOUS
    <2> QED
      BY <1>1, <2>1, NoPathNeeded
  <1>3. ASSUME NEW m \in Nodes, Parent[m] = Target \/ Parent[m] \in S
        PROVE  m \in S
    <2> DEFINE p == PathTo[Parent[m]]
               q == PathTo[m]
    <2>1. Good(Parent[m])
      BY <1>2, <1>3
    <2>2. GoesTo(p, Parent[m]) /\ \A k \in 1 .. Len(p) : PathTo[p[k]] = SubSeq(p, 1, k)
      BY <2>1
    <2>3. q = Append(p, m)
      BY PathToIs, PartsAssumption DEF PartsAssumption
    <2> HIDE DEF S, p, q
    <2>4. GoesTo(q, m)
      BY <2>2, <2>3, LongerPath
    <2>5. p \in Seq(Nodes)
      BY <2>2 DEF GoesTo
    <2>6. Len(p) \in Nat
      BY <2>5, LenProperties
    <2>7. /\ q \in Seq(Nodes) /\ Len(q) = Len(p) + 1 /\ q[Len(p) + 1] = m
          /\ \A k \in 1 .. Len(p) : q[k] = p[k]
      BY <2>3, <2>5, AppendProperties
    <2>8. ASSUME NEW k \in 1 .. Len(q)
          PROVE  PathTo[q[k]] = SubSeq(q, 1, k)
      <3>1. CASE k = Len(p) + 1
        <4>1. SubSeq(q, 1, Len(q)) = q
          BY <2>7, SubSeqFull
        <4>2. PathTo[q[k]] = q
          BY <2>7, <3>1 DEF q
        <4> QED
          BY <2>7, <3>1, <4>1, <4>2
      <3>2. CASE k # Len(p) + 1
        <4>1. k \in 1 .. Len(p)
          BY <2>6, <2>7, <3>2
        <4>2. PathTo[q[k]] = SubSeq(p, 1, k)
          BY <2>2, <2>7, <4>1
        <4>3. SubSeq(q, 1, k) = SubSeq(p, 1, k)
          <5>1. \A i \in 1 .. k : i \in 1 .. Len(p) /\ i \in 1 .. Len(q) /\ 1 + i - 1 = i
            BY <2>6, <2>7, <4>1
          <5>2. \A i \in 1 .. k : p[i] \in Nodes /\ q[i] \in Nodes
            BY <2>5, <2>7, <5>1, ElementOfSeq
          <5>3. k \in Int /\ 1 \in Int /\ k - 1 + 1 = k /\ 1 <= k
            BY <2>6, <4>1
          <5> DEFINE a == SubSeq(p, 1, k)
                     b == SubSeq(q, 1, k)
          <5>4. a \in Seq(Nodes) /\ Len(a) = k /\ \A i \in 1 .. k : a[i] = p[1 + i - 1]
            BY <5>2, <5>3, SubSeqProperties
          <5>5. b \in Seq(Nodes) /\ Len(b) = k /\ \A i \in 1 .. k : b[i] = q[1 + i - 1]
            BY <5>2, <5>3, SubSeqProperties
          <5> HIDE DEF a, b
          <5>6. \A i \in 1 .. Len(b) : b[i] = a[i]
            BY <2>7, <5>1, <5>4, <5>5
          <5>7. b = a
            BY <5>4, <5>5, <5>6, SeqEqual
          <5> QED
            BY <5>7 DEF a, b
        <4> QED
          BY <4>2, <4>3
      <3> QED
        BY <3>1, <3>2
    <2>9. Good(m)
      BY <2>4, <2>8 DEF q
    <2> HIDE DEF Good
    <2> QED
      BY <2>9 DEF S
  <1>4. S = Nodes
    <2>1. S \in SUBSET Nodes
      OBVIOUS
    <2> HIDE DEF S
    <2> QED
      BY <1>3, <2>1, FromTheTarget
  <1>5. Good(n)
    <2> HIDE DEF Good
    <2>1. n \in S
      BY <1>4
    <2> QED
      BY <2>1
  <1> QED
    BY <1>5

LEMMA PathOf ==
  ASSUME NEW n \in Nodes
  PROVE  /\ PathTo[n] \in Seq(Nodes) /\ Len(PathTo[n]) \in Nat /\ Len(PathTo[n]) >= 1
         /\ PathTo[n][Len(PathTo[n])] = n
         /\ Parent[PathTo[n][1]] = Target
         /\ \A k \in 2 .. Len(PathTo[n]) : Parent[PathTo[n][k]] = PathTo[n][k - 1]
         /\ \A k \in 1 .. Len(PathTo[n]) :
              PathTo[n][k] \in Nodes /\ PathTo[PathTo[n][k]] = SubSeq(PathTo[n], 1, k)
  <1> DEFINE p == PathTo[n]
  <1>1. /\ p \in Seq(Nodes) /\ p # << >>
        /\ p[Len(p)] = n
        /\ Parent[p[1]] = Target
        /\ \A k \in 2 .. Len(p) : Parent[p[k]] = p[k - 1]
        /\ \A k \in 1 .. Len(p) : PathTo[p[k]] = SubSeq(p, 1, k)
    BY PathsGoDown, PartsAssumption DEF GoesTo, PartsAssumption
  <1> HIDE DEF p
  <1>2. Len(p) \in Nat /\ Len(p) >= 1 /\ \A k \in 1 .. Len(p) : p[k] \in Nodes
    BY <1>1
  <1> QED
    BY <1>1, <1>2 DEF p

\* The directories above a name are the elements of its path.
LEMMA AboveIsPath ==
  ASSUME NEW n \in Nodes, NEW m
  PROVE  m \in Above(n) <=> \E k \in 1 .. Len(PathTo[n]) : m = PathTo[n][k]
  BY PathOf DEF Above, ToSet

\* What is above something above n is above n.
LEMMA AboveTrans ==
  ASSUME NEW n \in Nodes, NEW m \in Above(n)
  PROVE  m \in Nodes /\ Above(m) \subseteq Above(n)
  <1> DEFINE p == PathTo[n]
  <1>1. p \in Seq(Nodes) /\ Len(p) \in Nat /\ Len(p) >= 1
    BY PathOf
  <1>2. PICK k \in 1 .. Len(p) : m = p[k]
    BY AboveIsPath
  <1>3. m \in Nodes /\ PathTo[m] = SubSeq(p, 1, k)
    BY <1>2, PathOf
  <1> HIDE DEF p
  <1>4. Len(SubSeq(p, 1, k)) = k /\ \A j \in 1 .. k : SubSeq(p, 1, k)[j] = p[j]
    BY <1>1, <1>2
  <1>5. ASSUME NEW a \in Above(m)
        PROVE  a \in Above(n)
    <2>1. PICK j \in 1 .. Len(PathTo[m]) : a = PathTo[m][j]
      BY <1>3, AboveIsPath
    <2>2. j \in 1 .. Len(p) /\ a = p[j]
      BY <1>1, <1>2, <1>3, <1>4, <2>1
    <2> QED
      BY <2>2, AboveIsPath DEF p
  <1> QED
    BY <1>3, <1>5

\* The parent of a name is all that is next above it.
LEMMA AboveParent ==
  ASSUME NEW n \in Nodes
  PROVE  /\ n \in Above(n)
         /\ Parent[n] = Target => Above(n) = {n}
         /\ Parent[n] # Target =>
              Parent[n] \in Nodes /\ Above(n) \ {n} = Above(Parent[n])
  <1> DEFINE p == PathTo[n]
  <1>1. /\ p \in Seq(Nodes) /\ Len(p) \in Nat /\ Len(p) >= 1 /\ p[Len(p)] = n
        /\ Parent[p[1]] = Target
        /\ \A k \in 2 .. Len(p) : Parent[p[k]] = p[k - 1]
        /\ \A k \in 1 .. Len(p) : p[k] \in Nodes /\ PathTo[p[k]] = SubSeq(p, 1, k)
    BY PathOf
  <1>2. \A m : m \in Above(n) <=> \E k \in 1 .. Len(p) : m = p[k]
    BY AboveIsPath
  <1> HIDE DEF p
  <1>3. n \in Above(n)
    BY <1>1, <1>2
  <1>4. ASSUME NEW j \in 1 .. Len(p), NEW k \in 1 .. Len(p), p[j] = p[k]
        PROVE  j = k
    <2>1. SubSeq(p, 1, j) = SubSeq(p, 1, k)
      BY <1>1, <1>4
    <2>2. Len(SubSeq(p, 1, j)) = j /\ Len(SubSeq(p, 1, k)) = k
      BY <1>1
    <2> QED
      BY <2>1, <2>2
  <1>5. CASE Len(p) < 2
    <2>0. Len(p) \in 1 .. Len(p) /\ \A k \in 1 .. Len(p) : k = 1
      BY <1>1, <1>5
    <2>1. Parent[n] = Target
      BY <1>1, <2>0
    <2>2. Above(n) = {n}
      BY <1>1, <1>2, <1>3, <2>0
    <2> QED
      BY <1>3, <2>1, <2>2
  <1>6. CASE Len(p) > 1
    <2> DEFINE l == Len(p) - 1
    <2>0. l \in 1 .. Len(p) /\ Len(p) \in 2 .. Len(p)
      BY <1>1, <1>6
    <2>1. l \in 1 .. Len(p) /\ Parent[n] = p[l] /\ p[l] \in Nodes
      BY <1>1, <2>0
    <2>2. Parent[n] # Target /\ PathTo[Parent[n]] = SubSeq(p, 1, l)
      BY <1>1, <2>1, PartsAssumption DEF PartsAssumption
    <2>3. Len(SubSeq(p, 1, l)) = l /\ \A k \in 1 .. l : SubSeq(p, 1, l)[k] = p[k]
      BY <1>1, <2>1
    <2>4. \A m : m \in Above(Parent[n]) <=> \E k \in 1 .. l : m = p[k]
      BY <2>1, <2>2, <2>3, AboveIsPath
    <2>5. ASSUME NEW m \in Above(n) \ {n}
          PROVE  m \in Above(Parent[n])
      BY <1>1, <1>2, <2>4
    <2>6. ASSUME NEW m \in Above(Parent[n])
          PROVE  m \in Above(n) \ {n}
      <3>1. PICK k \in 1 .. l : m = p[k]
        BY <2>4
      <3>2. k \in 1 .. Len(p) /\ k # Len(p)
        BY <1>1, <2>1, <3>1
      <3> QED
        BY <1>1, <1>2, <1>4, <3>1, <3>2
    <2> QED
      BY <1>3, <2>1, <2>2, <2>5, <2>6
  <1> QED
    BY <1>1, <1>5, <1>6

\* A directory above n has a child that leads to n.
LEMMA ChildOnTheWay ==
  ASSUME NEW n \in Nodes, NEW d \in Above(n), d # n
  PROVE  \E c \in Above(n) : c \in Nodes /\ Parent[c] = d
  <1> DEFINE p == PathTo[n]
  <1>1. /\ p \in Seq(Nodes) /\ Len(p) \in Nat /\ Len(p) >= 1 /\ p[Len(p)] = n
        /\ \A k \in 2 .. Len(p) : Parent[p[k]] = p[k - 1]
        /\ \A k \in 1 .. Len(p) : p[k] \in Nodes
    BY PathOf
  <1>2. \A m : m \in Above(n) <=> \E k \in 1 .. Len(p) : m = p[k]
    BY AboveIsPath
  <1> HIDE DEF p
  <1>3. PICK k \in 1 .. Len(p) : d = p[k]
    BY <1>2
  <1>4. k + 1 \in 2 .. Len(p) /\ (k + 1) - 1 = k
    BY <1>1, <1>3
  <1>5. Parent[p[k + 1]] = d /\ p[k + 1] \in Nodes /\ p[k + 1] \in Above(n)
    BY <1>1, <1>2, <1>3, <1>4
  <1> QED
    BY <1>5

\* The chain of an entry leads from .zipy to the directory of its part.
LEMMA ChainOf ==
  ASSUME NEW e \in Entries
  PROVE  /\ PartOf[e] \in Nodes /\ Parent[PartOf[e]] \in Nodes
         /\ Chain(e) \in Seq(Nodes) /\ Len(Chain(e)) \in Nat /\ Len(Chain(e)) >= 2
         /\ \A k \in 1 .. Len(Chain(e)) : Chain(e)[k] \in Nodes \intersect Interior
         /\ Chain(e)[Len(Chain(e))] = Parent[PartOf[e]]
         /\ Parent[Chain(e)[1]] = Target
         /\ \A k \in 2 .. Len(Chain(e)) : Parent[Chain(e)[k]] = Chain(e)[k - 1]
         /\ \A j, k \in 1 .. Len(Chain(e)) : Chain(e)[j] = Chain(e)[k] => j = k
         /\ ToSet(Chain(e)) = Above(PartOf[e]) \ {PartOf[e]}
         /\ \A m : m \in ToSet(Chain(e)) <=> \E k \in 1 .. Len(Chain(e)) : m = Chain(e)[k]
  <1> DEFINE n == Parent[PartOf[e]]
             p == PathTo[n]
  <1>1. PartOf[e] \in Nodes /\ n \in Nodes /\ Len(p) >= 2 /\ Target \notin Nodes
    BY PartsAssumption, NamesAssumption DEF PartsAssumption, NamesAssumption, Chain
  <1>2. /\ p \in Seq(Nodes) /\ Len(p) \in Nat /\ Len(p) >= 1 /\ p[Len(p)] = n
        /\ Parent[p[1]] = Target
        /\ \A k \in 2 .. Len(p) : Parent[p[k]] = p[k - 1]
        /\ \A k \in 1 .. Len(p) : p[k] \in Nodes /\ PathTo[p[k]] = SubSeq(p, 1, k)
    BY <1>1, PathOf
  <1>3. ToSet(p) = Above(PartOf[e]) \ {PartOf[e]}
    BY <1>1, AboveParent DEF Above
  <1>n. n \in Interior
    BY <1>1 DEF Interior
  <1> HIDE DEF p, n
  <1>4. ASSUME NEW k \in 1 .. Len(p)
        PROVE  p[k] \in Interior
    <2>1. CASE k = Len(p)
      BY <1>2, <1>n, <2>1
    <2>2. CASE k < Len(p)
      <3>1. k + 1 \in 2 .. Len(p) /\ (k + 1) - 1 = k
        BY <1>2, <2>2
      <3>2. p[k + 1] \in Nodes /\ Parent[p[k + 1]] = p[k]
        BY <1>2, <3>1
      <3> QED
        BY <3>2 DEF Interior
    <2> QED
      BY <1>2, <2>1, <2>2
  <1>5. ASSUME NEW j \in 1 .. Len(p), NEW k \in 1 .. Len(p), p[j] = p[k]
        PROVE  j = k
    <2>1. SubSeq(p, 1, j) = SubSeq(p, 1, k)
      BY <1>2, <1>5
    <2>2. Len(SubSeq(p, 1, j)) = j /\ Len(SubSeq(p, 1, k)) = k
      BY <1>2
    <2> QED
      BY <2>1, <2>2
  <1>6. \A m : m \in ToSet(p) <=> \E k \in 1 .. Len(p) : m = p[k]
    BY <1>2 DEF ToSet
  <1>7. Chain(e) = p
    BY DEF Chain, p, n
  <1> QED
    BY <1>1, <1>2, <1>3, <1>4, <1>5, <1>6, <1>7 DEF n

-----------------------------------------------------------------------------
(* Making directories *)

\* The next directory of an entry that makes its chain.
LEMMA HeadOfTodo ==
  ASSUME Types, Places, NEW e \in Entries, pc[e] \in Making
  PROVE  /\ Upto(e) \in 1 .. Len(Chain(e)) /\ Len(todo[e]) \in 1 .. Upto(e)
         /\ Passed(e) + 1 \in 1 .. Len(Chain(e))
         /\ Passed(e) \in 0 .. Upto(e) /\ Upto(e) = Passed(e) + Len(todo[e])
         /\ Head(todo[e]) = Chain(e)[Passed(e) + 1]
         /\ Head(todo[e]) \in Nodes /\ Head(todo[e]) \in Interior
         /\ Head(todo[e]) \in ToSet(Chain(e))
         /\ \/ Parent[Head(todo[e])] = Target
            \/ /\ Passed(e) \in 1 .. Len(Chain(e))
               /\ Parent[Head(todo[e])] = Chain(e)[Passed(e)]
         /\ Tail(todo[e]) \in Seq(Nodes) /\ Len(Tail(todo[e])) = Len(todo[e]) - 1
         /\ \A i \in 1 .. Len(todo[e]) - 1 : Tail(todo[e])[i] = Chain(e)[Passed(e) + 1 + i]
  <1> DEFINE c == Chain(e)
             t == todo[e]
             u == Upto(e)
             p == u - Len(t)
  <1>1. t \in Seq(Nodes) /\ stage[e] \in {"parts", "parent"}
    BY DEF Types
  <1>2. Len(t) \in 1 .. u /\ \A i \in 1 .. Len(t) : t[i] = c[p + i]
    BY DEF Places, Place, Passed
  <1>3. /\ Len(c) \in Nat /\ Len(c) >= 2
        /\ \A k \in 1 .. Len(c) : c[k] \in Nodes \intersect Interior
        /\ Parent[c[1]] = Target
        /\ \A k \in 2 .. Len(c) : Parent[c[k]] = c[k - 1]
        /\ \A m : m \in ToSet(c) <=> \E k \in 1 .. Len(c) : m = c[k]
    BY ChainOf
  <1>4. u \in 1 .. Len(c)
    BY <1>3 DEF Upto
  <1> HIDE DEF c, t, u
  <1>5. Len(t) \in Nat /\ Len(t) >= 1 /\ t # << >> /\ p \in 0 .. u /\ p + 1 \in 1 .. Len(c)
    BY <1>1, <1>2, <1>3, <1>4
  <1>6. Head(t) = t[1] /\ Tail(t) \in Seq(Nodes) /\ Len(Tail(t)) = Len(t) - 1
        /\ \A i \in 1 .. Len(t) - 1 : Tail(t)[i] = t[i + 1]
    BY <1>1, <1>5
  <1>7. t[1] = c[p + 1]
    BY <1>2, <1>5
  <1>8. Parent[c[p + 1]] = Target \/ (p \in 1 .. Len(c) /\ Parent[c[p + 1]] = c[p])
    <2>1. CASE p < 1
      <3>1. p + 1 = 1
        BY <1>5, <2>1
      <3> QED
        BY <1>3, <3>1
    <2>2. CASE p >= 1
      <3>1. p + 1 \in 2 .. Len(c) /\ (p + 1) - 1 = p /\ p \in 1 .. Len(c)
        BY <1>3, <1>4, <1>5, <2>2
      <3> QED
        BY <1>3, <3>1
    <2> QED
      BY <1>5, <2>1, <2>2
  <1>9. ASSUME NEW i \in 1 .. Len(t) - 1
        PROVE  Tail(t)[i] = c[p + 1 + i]
    <2>1. i + 1 \in 1 .. Len(t) /\ p + (i + 1) = p + 1 + i
      BY <1>4, <1>5
    <2>2. Tail(t)[i] = t[i + 1]
      BY <1>6
    <2> QED
      BY <1>2, <2>1, <2>2
  <1>10. u = p + Len(t)
    BY <1>4, <1>5
  <1> QED
    BY <1>1, <1>2, <1>3, <1>4, <1>5, <1>6, <1>7, <1>8, <1>9, <1>10 DEF Passed, c, t, u

\* An entry that does nothing stays at its place.
LEMMA PlaceKept ==
  ASSUME Places, NEW f \in Entries, call' = call,
         pc'[f] = pc[f], todo'[f] = todo[f], stage'[f] = stage[f]
  PROVE  Place(f)'
  <1>1. Upto(f)' = Upto(f) /\ Passed(f)' = Passed(f)
    BY DEF Upto, Passed
  <1> QED
    BY <1>1 DEF Places, Place, Making, Low

\* A directory of the chain is there: the entry goes on, and loses nothing.
LEMMA DirReadyHolds ==
  ASSUME IInv, NEW e \in Entries, pc[e] \in Making, DirReady(e),
         dirs' \in {dirs, dirs \union {Head(todo[e])}}, Head(todo[e]) \in dirs',
         UNCHANGED << call, phase, stage, off, fd, ret, file, dest, data >>
  PROVE  Types' /\ Places' /\ Parts' /\ Contents' /\ InAll' /\ Over' /\ Left'
  <1> USE DEF IInv
  <1> DEFINE h == Head(todo[e])
             next == IF Len(todo[e]) > 1 THEN "stat"
                     ELSE IF stage[e] = "parts" THEN "unlink" ELSE "open"
  <1>1. /\ Upto(e) \in 1 .. Len(Chain(e)) /\ Len(todo[e]) \in 1 .. Upto(e)
        /\ Passed(e) \in 0 .. Upto(e) /\ Upto(e) = Passed(e) + Len(todo[e])
        /\ h = Chain(e)[Passed(e) + 1]
        /\ h \in Nodes /\ h \in ToSet(Chain(e))
        /\ Tail(todo[e]) \in Seq(Nodes) /\ Len(Tail(todo[e])) = Len(todo[e]) - 1
        /\ \A i \in 1 .. Len(todo[e]) - 1 : Tail(todo[e])[i] = Chain(e)[Passed(e) + 1 + i]
    BY HeadOfTodo
  <1>2. /\ pc' = [pc EXCEPT ![e] = next] /\ todo' = [todo EXCEPT ![e] = Tail(todo[e])]
        /\ pc \in [Entries -> Early \union {"write", "discard"} \union Late]
        /\ todo \in [Entries -> Seq(Nodes)]
        /\ next \in {"stat", "unlink", "open"}
        /\ stage[e] \in {"parts", "parent"}
    BY DEF DirReady, GoTo, Types
  <1>3. /\ pc'[e] = next /\ todo'[e] = Tail(todo[e])
        /\ \A f \in Entries : f # e => pc'[f] = pc[f] /\ todo'[f] = todo[f]
    BY <1>2
  <1>4. Types'
    BY <1>1, <1>2 DEF Types, Early, Making
  <1>5. Places'
    <2>1. ASSUME next = "stat"
          PROVE  /\ Len(todo'[e]) \in 1 .. Upto(e)'
                 /\ \A i \in 1 .. Len(todo'[e]) : todo'[e][i] = Chain(e)[Passed(e)' + i]
      <3>1. Len(todo[e]) > 1
        BY <2>1
      <3>2. Upto(e)' = Upto(e)
        BY DEF Upto
      <3>3. Passed(e)' = Passed(e) + 1
        BY <1>1, <1>3, <3>2 DEF Passed
      <3> QED
        BY <1>1, <1>3, <3>1, <3>2, <3>3
    <2>2. ASSUME NEW f \in Entries, f # e
          PROVE  Upto(f)' = Upto(f) /\ Passed(f)' = Passed(f)
      BY <1>3, <2>2 DEF Upto, Passed
    <2> QED
      BY <1>2, <1>3, <2>1, <2>2 DEF Places, Place, Making, Low
  <1>6. Parts'
    BY <1>2, <1>3 DEF Parts, Making, Late
  <1>7. Contents'
    BY <1>2, <1>3 DEF Contents, Making, Early, Late
  <1>8. InAll'
    <2> SUFFICES ASSUME call.extractAll, NEW f \in Entries
                 PROVE  /\ ret[f] \in {"OK", "FAILED"}
                        /\ pc'[f] # "rmdir"
                        /\ pc'[f] \in Making =>
                             \A k \in 1 .. Passed(f)' : Chain(f)[k] \in dirs'
                        /\ pc'[f] = "recheck" => Head(todo'[f]) \in dirs'
                        /\ pc'[f] = "open" => Parent[PartOf[f]] \in dirs'
      BY DEF InAll
    <2>1. /\ ret[f] \in {"OK", "FAILED"}
          /\ pc[f] # "rmdir"
          /\ pc[f] \in Making => \A k \in 1 .. Passed(f) : Chain(f)[k] \in dirs
          /\ pc[f] = "recheck" => Head(todo[f]) \in dirs
          /\ pc[f] = "open" => Parent[PartOf[f]] \in dirs
      BY DEF InAll
    <2>2. CASE f # e
      <3>1. Passed(f)' = Passed(f)
        BY <1>3, <2>2 DEF Passed, Upto
      <3> QED
        BY <1>3, <2>1, <2>2, <3>1
    <2>3. CASE f = e
      <3>0. Upto(e)' = Upto(e)
        BY DEF Upto
      <3>1. Passed(e)' = Passed(e) + 1
        BY <1>1, <1>3, <3>0 DEF Passed
      <3>2. \A k \in 1 .. Passed(e)' : Chain(e)[k] \in dirs'
        BY <1>1, <2>1, <2>3, <3>1
      <3>3. ASSUME next = "open"
            PROVE  Parent[PartOf[e]] \in dirs'
        <4>1. stage[e] = "parent" /\ Len(todo[e]) <= 1
          BY <1>1, <3>3 DEF Types
        <4>2. Passed(e) + 1 = Len(Chain(e))
          BY <1>1, <4>1 DEF Upto
        <4> QED
          BY <1>1, <4>2, ChainOf
      <3> QED
        BY <1>2, <1>3, <2>1, <2>3, <3>2, <3>3
    <2> QED
      BY <2>2, <2>3
  <1>9. Over'
    BY <1>2, <1>3 DEF Over, Active, Making, Failed
  <1>10. Left'
    <2> SUFFICES ASSUME ~Failed', NEW d \in dirs'
                 PROVE  Excused(d)' \/ \E f \in Entries : Minds(f, d)'
      BY DEF Left
    <2>1. ~Failed
      BY <1>2, <1>3 DEF Failed, Making
    <2>2. \A f \in Entries : Minds(f, d) => Minds(f, d)'
      BY <1>2, <1>3 DEF Minds, Making
    <2>3. Excused(d) => Excused(d)'
      BY DEF Excused
    <2>4. d = h => Minds(e, d)'
      BY <1>1, <1>2, <1>3 DEF Minds
    <2>5. d = h \/ d \in dirs
      OBVIOUS
    <2> QED
      BY <2>1, <2>2, <2>3, <2>4, <2>5 DEF Left
  <1> QED
    BY <1>4, <1>5, <1>6, <1>7, <1>8, <1>9, <1>10

\* A name in an existing directory has all its directories.
LEMMA DirsAbove ==
  ASSUME Shape, NEW d \in Nodes, IsDir(Parent[d])
  PROVE  Above(d) \ {d} \subseteq dirs
  <1>1. CASE Parent[d] = Target
    BY <1>1, AboveParent
  <1>2. CASE Parent[d] # Target
    <2>1. Parent[d] \in dirs /\ Parent[d] \in Nodes /\ Above(d) \ {d} = Above(Parent[d])
      BY <1>2, AboveParent DEF IsDir
    <2>2. Above(Parent[d]) \ {Parent[d]} \subseteq dirs
      BY <2>1 DEF Shape, Exists, IsDir
    <2> QED
      BY <2>1, <2>2
  <1> QED
    BY <1>1, <1>2

\* What exists is in a directory.
LEMMA HasItsParent ==
  ASSUME Shape, NEW n \in Nodes, Exists(n)
  PROVE  IsDir(Parent[n])
  <1>1. Above(n) \ {n} \subseteq dirs
    BY DEF Shape
  <1>2. CASE Parent[n] # Target
    BY <1>1, <1>2, AboveParent DEF IsDir
  <1> QED
    BY <1>2 DEF IsDir

\* If the part of an entry exists, so does its chain.
LEMMA ChainThere ==
  ASSUME Shape, NEW e \in Entries, file[PartOf[e]] # None
  PROVE  ToSet(Chain(e)) \subseteq dirs
  BY ChainOf DEF Shape, Exists

\* An entry that cannot have its directory returns with nothing left behind.
LEMMA GiveUpHolds ==
  ASSUME IInv, NEW e \in Entries, pc[e] \in Making \union {"open"},
         NEW r \in {"ERR", "EFILE"}, Return(e, r),
         ~call.extractAll, file[PartOf[e]] = None,
         UNCHANGED << call, phase, todo, stage, off, fd, dirs, file, dest, data >>
  PROVE  IInv'
  <1> USE DEF IInv
  <1>1. /\ pc' = [pc EXCEPT ![e] = "done"] /\ ret' = [ret EXCEPT ![e] = r]
        /\ pc \in [Entries -> Early \union {"write", "discard"} \union Late]
        /\ ret \in [Entries -> {"OK", "ERR", "EFILE", "FAILED"}]
    BY DEF Return, GoTo, Types
  <1>2. /\ pc'[e] = "done" /\ ret'[e] = r
        /\ \A f \in Entries : f # e => pc'[f] = pc[f] /\ ret'[f] = ret[f]
    BY <1>1
  <1>3. Types'
    BY <1>1 DEF Types, Late
  <1>4. Shape'
    BY DEF Shape, Exists, IsDir
  <1>5. Places'
    <2>1. \A f \in Entries : Upto(f)' = Upto(f) /\ Passed(f)' = Passed(f)
      BY DEF Upto, Passed
    <2> QED
      BY <1>2, <2>1 DEF Places, Place, Making, Low
  <1>6. Parts'
    BY <1>2 DEF Parts, Making, Late
  <1>7. Contents'
    BY <1>2 DEF Contents, Making, Early, Late
  <1>8. InAll'
    BY DEF InAll
  <1>9. Over'
    BY <1>1 DEF Over, Active, Making
  <1>10. Left'
    BY <1>2 DEF Left, Failed
  <1> QED
    BY <1>3, <1>4, <1>5, <1>6, <1>7, <1>8, <1>9, <1>10

\* A failed attempt to make a directory only moves the entry on.
LEMMA MoveHolds ==
  ASSUME IInv, NEW e \in Entries, pc[e] \in Making,
         NEW label \in {"mkdir", "recheck"}, GoTo(e, label),
         label = "recheck" => Head(todo[e]) \in dirs,
         UNCHANGED << call, phase, todo, stage, off, fd, ret, dirs, file, dest, data >>
  PROVE  IInv'
  <1> USE DEF IInv
  <1>1. /\ pc' = [pc EXCEPT ![e] = label]
        /\ pc \in [Entries -> Early \union {"write", "discard"} \union Late]
    BY DEF GoTo, Types
  <1>2. /\ pc'[e] = label
        /\ \A f \in Entries : f # e => pc'[f] = pc[f]
    BY <1>1
  <1>3. Types' /\ Shape'
    BY <1>1 DEF Types, Early, Making, Shape, Exists, IsDir
  <1>4. \A f \in Entries : Upto(f)' = Upto(f) /\ Passed(f)' = Passed(f)
    BY DEF Upto, Passed
  <1>5. Places'
    BY <1>2, <1>4 DEF Places, Place, Making, Low
  <1>6. Parts' /\ Contents'
    BY <1>2 DEF Parts, Contents, Making, Early, Late
  <1>7. InAll'
    BY <1>2, <1>4 DEF InAll, Making
  <1>8. Over'
    BY <1>2 DEF Over, Active, Failed, Making
  <1>9. Left'
    BY <1>2 DEF Left, Minds, Excused, Failed, Making
  <1> QED
    BY <1>3, <1>5, <1>6, <1>7, <1>8, <1>9

LEMMA StatHolds ==
  ASSUME IInv, NEW e \in Entries, Stat(e)
  PROVE  IInv'
  <1> USE DEF IInv
  <1>1. pc[e] \in Making
    BY DEF Stat, Making
  <1>2. Head(todo[e]) \in Nodes /\ Target \notin Nodes
    BY <1>1, HeadOfTodo, PartsAssumption DEF PartsAssumption
  <1>3. CASE IsDir(Head(todo[e]))
    <2>1. DirReady(e) /\ Head(todo[e]) \in dirs'
          /\ UNCHANGED << call, phase, stage, off, fd, ret, dirs, file, dest, data >>
      BY <1>2, <1>3 DEF Stat, IsDir
    <2>2. Shape'
      BY <2>1 DEF Shape, Exists, IsDir
    <2> QED
      BY <1>1, <2>1, <2>2, DirReadyHolds
  <1>4. CASE ~IsDir(Head(todo[e]))
    BY <1>1, <1>4, MoveHolds DEF Stat
  <1> QED
    BY <1>3, <1>4

LEMMA MakeDirHolds ==
  ASSUME IInv, NEW e \in Entries, MakeDir(e)
  PROVE  IInv'
  <1> USE DEF IInv
  <1> DEFINE d == Head(todo[e])
  <1>1. pc[e] = "mkdir" /\ pc[e] \in Making
    BY DEF MakeDir, Making
  <1>2. /\ d \in Nodes /\ d \in Interior /\ d \in ToSet(Chain(e)) /\ Target \notin Nodes
        /\ Passed(e) \in 0 .. Upto(e) /\ Upto(e) \in 1 .. Len(Chain(e))
        /\ \/ Parent[d] = Target
           \/ Passed(e) \in 1 .. Len(Chain(e)) /\ Parent[d] = Chain(e)[Passed(e)]
    BY <1>1, HeadOfTodo, PartsAssumption DEF PartsAssumption
  <1>3. CASE ~Exists(d) /\ IsDir(Parent[d])
    <2>1. /\ dirs' = dirs \union {d} /\ DirReady(e)
          /\ UNCHANGED << call, phase, stage, off, fd, ret, file, dest, data >>
      BY <1>3 DEF MakeDir
    <2>2. Shape'
      <3>1. Above(d) \ {d} \subseteq dirs
        BY <1>2, <1>3, DirsAbove
      <3>2. dirs' \subseteq Interior /\ \A n \in Nodes : file'[n] # None => n \notin Interior
        BY <1>2, <2>1 DEF Shape
      <3>3. \A n \in Nodes : Exists(n)' => n = d \/ Exists(n)
        BY <2>1 DEF Exists, IsDir
      <3> QED
        BY <2>1, <3>1, <3>2, <3>3 DEF Shape
    <2> QED
      BY <1>1, <2>1, <2>2, DirReadyHolds
  <1>4. CASE Exists(d)
    <2>1. d \in dirs
      BY <1>2, <1>4 DEF Exists, IsDir, Shape
    <2>2. IsDir(Parent[d])
      BY <1>2, <1>4, HasItsParent
    <2>3. GoTo(e, "recheck")
          /\ UNCHANGED << call, phase, todo, stage, off, fd, ret, dirs, file, dest, data >>
      BY <1>4, <2>2 DEF MakeDir
    <2> QED
      BY <1>1, <2>1, <2>3, MoveHolds
  <1>5. CASE ~Exists(d) /\ ~IsDir(Parent[d])
    <2>1. ~call.extractAll
      BY <1>1, <1>2, <1>5 DEF InAll, IsDir
    <2>2. file[PartOf[e]] = None
      <3>1. Parent[d] \in ToSet(Chain(e))
        BY <1>2, <1>5, ChainOf DEF IsDir
      <3> QED
        BY <1>5, <3>1, ChainThere DEF IsDir
    <2>3. Return(e, IF stage[e] = "parts" THEN "ERR" ELSE "EFILE")
          /\ UNCHANGED << call, phase, todo, stage, off, fd, dirs, file, dest, data >>
      BY <1>5 DEF MakeDir, NoDir
    <2> QED
      BY <1>1, <2>1, <2>2, <2>3, GiveUpHolds
  <1> QED
    BY <1>3, <1>4, <1>5

LEMMA RecheckHolds ==
  ASSUME IInv, NEW e \in Entries, Recheck(e)
  PROVE  IInv'
  <1> USE DEF IInv
  <1> DEFINE d == Head(todo[e])
  <1>1. pc[e] = "recheck" /\ pc[e] \in Making
    BY DEF Recheck, Making
  <1>2. d \in Nodes /\ d \in ToSet(Chain(e)) /\ Target \notin Nodes
    BY <1>1, HeadOfTodo, PartsAssumption DEF PartsAssumption
  <1>3. CASE IsDir(d)
    <2>1. DirReady(e) /\ d \in dirs'
          /\ UNCHANGED << call, phase, stage, off, fd, ret, dirs, file, dest, data >>
      BY <1>2, <1>3 DEF Recheck, IsDir
    <2>2. Shape'
      BY <2>1 DEF Shape, Exists, IsDir
    <2> QED
      BY <1>1, <2>1, <2>2, DirReadyHolds
  <1>4. CASE ~IsDir(d)
    <2>1. ~call.extractAll
      BY <1>1, <1>4 DEF InAll, IsDir
    <2>2. file[PartOf[e]] = None
      BY <1>2, <1>4, ChainThere DEF IsDir
    <2>3. Return(e, IF stage[e] = "parts" THEN "ERR" ELSE "EFILE")
          /\ UNCHANGED << call, phase, todo, stage, off, fd, dirs, file, dest, data >>
      BY <1>4 DEF Recheck, NoDir
    <2> QED
      BY <1>1, <2>1, <2>2, <2>3, GiveUpHolds
  <1> QED
    BY <1>3, <1>4

-----------------------------------------------------------------------------
(* Writing the part *)

\* Entries do not share a part or a destination, and a part is no directory.
LEMMA NamesDiffer ==
  /\ \A e \in Entries : PartOf[e] \in Nodes /\ PartOf[e] \notin Interior
  /\ \A e, f \in Entries : e # f => PartOf[e] # PartOf[f] /\ DestOf[e] # DestOf[f]
  /\ \A n \in Stale : n \in Nodes /\ n \notin Interior
  /\ Count \in Nat /\ Target \notin Nodes
  /\ \A e \in Entries : e \in Inodes /\ e # None /\ e # Foreign
  /\ \A e \in Entries : DestOf[e] \in Dests
  BY PartsAssumption, NamesAssumption
  DEF PartsAssumption, NamesAssumption, Interior, IsInjective, Entries, Inodes, None,
      Foreign, Dests

LEMMA BeginHolds ==
  ASSUME IInv, NEW e \in Entries, Begin(e)
  PROVE  IInv'
  <1> USE DEF IInv
  <1>1. /\ pc[e] = "waiting" /\ pc' = [pc EXCEPT ![e] = "stat"]
        /\ todo' = [todo EXCEPT ![e] = SubSeq(Chain(e), 1, 2)]
        /\ pc \in [Entries -> Early \union {"write", "discard"} \union Late]
        /\ todo \in [Entries -> Seq(Nodes)] /\ stage[e] = "parts"
        /\ call.extractAll => ~Failed
        /\ UNCHANGED << call, phase, stage, off, fd, ret, dirs, file, dest, data >>
    BY DEF Begin, GoTo, Types, Parts
  <1>2. /\ pc'[e] = "stat" /\ todo'[e] = SubSeq(Chain(e), 1, 2)
        /\ \A f \in Entries : f # e => pc'[f] = pc[f] /\ todo'[f] = todo[f]
    BY <1>1
  <1>3. /\ SubSeq(Chain(e), 1, 2) \in Seq(Nodes)
        /\ Len(SubSeq(Chain(e), 1, 2)) = 2
        /\ \A i \in 1 .. 2 : SubSeq(Chain(e), 1, 2)[i] = Chain(e)[i]
    <2> DEFINE c == Chain(e)
    <2>1. c \in Seq(Nodes) /\ Len(c) \in Nat /\ Len(c) >= 2
      BY ChainOf
    <2> HIDE DEF c
    <2>2. SubSeq(c, 1, 2) \in Seq(Nodes) /\ Len(SubSeq(c, 1, 2)) = 2
          /\ \A i \in 1 .. 2 : SubSeq(c, 1, 2)[i] = c[i]
      BY <2>1
    <2> QED
      BY <2>2 DEF c
  <1>4. Types' /\ Shape'
    BY <1>1, <1>3 DEF Types, Early, Making, Shape, Exists, IsDir
  <1>5. Upto(e)' = 2 /\ Passed(e)' = 0
    BY <1>1, <1>2, <1>3 DEF Upto, Passed
  <1>6. \A f \in Entries : f # e => Upto(f)' = Upto(f) /\ Passed(f)' = Passed(f)
    BY <1>1, <1>2 DEF Upto, Passed
  <1>7. Places'
    <2>1. /\ Len(todo'[e]) \in 1 .. Upto(e)'
          /\ \A i \in 1 .. Len(todo'[e]) : todo'[e][i] = Chain(e)[Passed(e)' + i]
      BY <1>2, <1>3, <1>5
    <2> QED
      BY <1>1, <1>2, <1>6, <2>1 DEF Places, Place, Making, Low
  <1>8. Parts' /\ Contents'
    BY <1>1, <1>2 DEF Parts, Contents, Making, Early, Late
  <1>9. InAll'
    BY <1>1, <1>2, <1>5, <1>6 DEF InAll, Making
  <1>10. Over'
    <2>1. phase # "returned"
      BY <1>1 DEF Over
    <2> QED
      BY <1>1, <2>1 DEF Over
  <1>11. Left'
    BY <1>1, <1>2 DEF Left, Minds, Excused, Failed
  <1> QED
    BY <1>4, <1>7, <1>8, <1>9, <1>10, <1>11

LEMMA UnlinkOldHolds ==
  ASSUME IInv, NEW e \in Entries, UnlinkOld(e)
  PROVE  IInv'
  <1> USE DEF IInv
  <1>0. /\ pc[e] = "unlink"
        /\ UNCHANGED << call, phase, off, fd, ret, dirs, dest, data >>
    BY DEF UnlinkOld
  <1>1. /\ pc' = [pc EXCEPT ![e] = "stat"]
        /\ todo' = [todo EXCEPT ![e] = Chain(e)]
        /\ stage' = [stage EXCEPT ![e] = "parent"]
        /\ file' = [file EXCEPT ![PartOf[e]] = None]
        /\ pc \in [Entries -> Early \union {"write", "discard"} \union Late]
        /\ todo \in [Entries -> Seq(Nodes)] /\ stage \in [Entries -> {"parts", "parent"}]
        /\ file \in [Nodes -> Inodes \union {None}]
    BY DEF UnlinkOld, GoTo, Types, Unlinked
  <1>2. /\ pc'[e] = "stat" /\ todo'[e] = Chain(e) /\ stage'[e] = "parent"
        /\ \A f \in Entries : f # e =>
             pc'[f] = pc[f] /\ todo'[f] = todo[f] /\ stage'[f] = stage[f]
        /\ file'[PartOf[e]] = None
        /\ \A n \in Nodes : n # PartOf[e] => file'[n] = file[n]
    BY <1>1, NamesDiffer
  <1>3. Chain(e) \in Seq(Nodes) /\ Len(Chain(e)) \in Nat /\ Len(Chain(e)) >= 2
    BY ChainOf
  <1>4. Types' /\ Shape'
    BY <1>0, <1>1, <1>2, <1>3 DEF Types, Early, Making, Shape, Exists, IsDir
  <1>5. Upto(e)' = Len(Chain(e)) /\ Passed(e)' = 0
    BY <1>2, <1>3 DEF Upto, Passed
  <1>6. \A f \in Entries : f # e => Upto(f)' = Upto(f) /\ Passed(f)' = Passed(f)
    BY <1>2 DEF Upto, Passed
  <1>7. Places'
    <2>1. /\ Len(todo'[e]) \in 1 .. Upto(e)'
          /\ \A i \in 1 .. Len(todo'[e]) : todo'[e][i] = Chain(e)[Passed(e)' + i]
      BY <1>2, <1>3, <1>5
    <2>2. ASSUME NEW f \in Entries, f # e
          PROVE  Place(f)'
      BY <1>0, <1>2, <2>2, PlaceKept
    <2>3. Place(e)'
      BY <1>2, <2>1 DEF Place
    <2> QED
      BY <2>2, <2>3 DEF Places
  <1>8. Parts'
    BY <1>0, <1>2, NamesDiffer DEF Parts, Making, Late
  <1>9. Contents'
    BY <1>0, <1>2 DEF Contents, Making, Early, Late
  <1>10. InAll'
    BY <1>0, <1>2, <1>5, <1>6 DEF InAll, Making
  <1>11. Over'
    BY <1>0, <1>2 DEF Over, Active, Failed
  <1>12. Left'
    <2> SUFFICES ASSUME ~Failed', NEW d \in dirs
                 PROVE  Excused(d)' \/ \E f \in Entries : Minds(f, d)'
      BY <1>0 DEF Left
    <2>1. ~Failed /\ \A f \in Entries : Minds(f, d) => Minds(f, d)'
      BY <1>0, <1>2 DEF Failed, Minds
    <2>2. Excused(d) => Excused(d)' \/ d \in Above(PartOf[e])
      BY <1>0, <1>2 DEF Excused
    <2>3. d \in Above(PartOf[e]) => Minds(e, d)'
      BY <1>2, ChainOf, NamesDiffer DEF Minds, Shape
    <2> QED
      BY <2>1, <2>2, <2>3 DEF Left
  <1> QED
    BY <1>4, <1>7, <1>8, <1>9, <1>10, <1>11, <1>12

LEMMA OpenHolds ==
  ASSUME IInv, NEW e \in Entries, Open(e)
  PROVE  IInv'
  <1> USE DEF IInv
  <1> DEFINE p == PartOf[e]
             blank == [k \in 1 .. Chunks |-> 0]
  <1>1. pc[e] = "open" /\ file[p] = None /\ p \in Nodes /\ ~IsDir(p)
    BY NamesDiffer DEF Open, Parts, Shape, IsDir
  <1>2. CASE IsDir(Parent[p])
    <2>0. UNCHANGED << call, phase, todo, stage, off, ret, dirs, dest >>
      BY <1>1, <1>2 DEF Open
    <2>1. /\ pc' = [pc EXCEPT ![e] = "write"]
          /\ file' = [file EXCEPT ![p] = e] /\ fd' = [fd EXCEPT ![e] = e]
          /\ data' = [data EXCEPT ![e] = blank]
          /\ pc \in [Entries -> Early \union {"write", "discard"} \union Late]
          /\ file \in [Nodes -> Inodes \union {None}] /\ fd \in [Entries -> Inodes]
          /\ data \in [Inodes -> [1 .. Chunks -> 0 .. Count]]
          /\ e \in Inodes /\ Count \in Nat
      BY <1>1, <1>2, NamesDiffer DEF Open, GoTo, Types
    <2>2. /\ pc'[e] = "write" /\ fd'[e] = e /\ file'[p] = e
          /\ \A f \in Entries : f # e => pc'[f] = pc[f] /\ fd'[f] = fd[f]
          /\ \A n \in Nodes : n # p => file'[n] = file[n]
          /\ \A f \in Entries : f # e => data'[f] = data[f]
      BY <1>1, <2>1, NamesDiffer
    <2>3. blank \in [1 .. Chunks -> 0 .. Count]
      BY <2>1
    <2> HIDE DEF blank
    <2>4. Types'
      BY <2>0, <2>1, <2>3 DEF Types
    <2>5. Shape'
      <3>1. Above(p) \ {p} \subseteq dirs /\ p \notin Interior
        BY <1>1, <1>2, DirsAbove, NamesDiffer
      <3> QED
        BY <1>1, <2>0, <2>2, <3>1 DEF Shape, Exists, IsDir
    <2>6. \A f \in Entries : Upto(f)' = Upto(f) /\ Passed(f)' = Passed(f)
      BY <2>0 DEF Upto, Passed
    <2>7. Places'
      <3>1. ASSUME NEW f \in Entries, f # e
            PROVE  Place(f)'
        BY <2>0, <2>2, <3>1, PlaceKept
      <3>2. Place(e)'
        BY <2>2 DEF Place, Making
      <3> QED
        BY <3>1, <3>2 DEF Places
    <2>8. Parts'
      BY <2>0, <2>2, NamesDiffer DEF Parts, Making, Late
    <2>9. Contents'
      <3>1. off[e] = 0 /\ ret[e] = "OK" /\ dest[DestOf[e]] = None
        BY <1>1 DEF Contents, Early, Late, Making
      <3> QED
        BY <1>1, <2>0, <2>2, <3>1 DEF Contents, Making, Early, Late
    <2>10. InAll'
      BY <2>0, <2>2, <2>6 DEF InAll, Making
    <2>11. Over'
      BY <1>1, <2>0, <2>2 DEF Over, Active, Failed
    <2>12. Left'
      <3> SUFFICES ASSUME ~Failed', NEW d \in dirs
                   PROVE  Excused(d)' \/ \E f \in Entries : Minds(f, d)'
        BY <2>0 DEF Left
      <3>1. ~Failed /\ \A f \in Entries : Minds(f, d) => Minds(f, d)'
        BY <1>1, <2>0, <2>2 DEF Failed, Minds
      <3>2. Excused(d) => Excused(d)'
        BY <1>1, <2>0, <2>2, NamesDiffer DEF Excused, None, Foreign
      <3> QED
        BY <3>1, <3>2 DEF Left
    <2> QED
      BY <2>4, <2>5, <2>7, <2>8, <2>9, <2>10, <2>11, <2>12
  <1>3. CASE ~IsDir(Parent[p])
    <2>1. ~call.extractAll
      BY <1>1, <1>3 DEF InAll, IsDir
    <2>2. Return(e, "EFILE")
          /\ UNCHANGED << call, phase, todo, stage, off, fd, dirs, file, dest, data >>
      BY <1>3 DEF Open
    <2> QED
      BY <1>1, <2>1, <2>2, GiveUpHolds
  <1> QED
    BY <1>2, <1>3

\* So does one that makes and removes no directories now.
LEMMA PlacesKept ==
  ASSUME Places, NEW e \in Entries, pc'[e] \notin Making \union {"rmdir"},
         UNCHANGED << call, todo, stage >>,
         \A f \in Entries : f # e => pc'[f] = pc[f]
  PROVE  Places'
  <1>1. \A f \in Entries : f # e => Place(f)'
    BY PlaceKept
  <1>2. Place(e)'
    BY DEF Place, Making
  <1> QED
    BY <1>1, <1>2 DEF Places

\* An entry that is not yet done still minds its directories.
LEMMA LeftKept ==
  ASSUME Left, NEW e \in Entries, pc[e] \notin {"rmdir", "done"},
         pc'[e] \notin {"waiting", "rmdir", "done"},
         UNCHANGED << call, phase, todo, dirs >>,
         \A f \in Entries : f # e => pc'[f] = pc[f] /\ ret'[f] = ret[f],
         \A m \in Nodes : file[m] = Foreign => file'[m] = Foreign
  PROVE  Left'
  <1> SUFFICES ASSUME ~Failed', NEW d \in dirs
               PROVE  Excused(d)' \/ \E f \in Entries : Minds(f, d)'
    BY DEF Left
  <1>1. ~Failed /\ \A f \in Entries : Minds(f, d) => Minds(f, d)'
    BY DEF Failed, Minds
  <1>2. Excused(d) => Excused(d)'
    BY DEF Excused, Foreign
  <1> QED
    BY <1>1, <1>2 DEF Left

LEMMA WriteHolds ==
  ASSUME IInv, NEW e \in Entries, Write(e)
  PROVE  IInv'
  <1> USE DEF IInv
  <1>1. /\ pc[e] = "write" /\ off[e] < Chunks /\ fd[e] = e
        /\ UNCHANGED << call, phase, pc, todo, stage, fd, ret, dirs, file, dest >>
    BY DEF Write, Contents
  <1>2. /\ off' = [off EXCEPT ![e] = off[e] + 1]
        /\ data' = [data EXCEPT ![e] = [data[e] EXCEPT ![off[e] + 1] = e]]
        /\ off \in [Entries -> 0 .. Chunks] /\ e \in Inodes
        /\ data \in [Inodes -> [1 .. Chunks -> 0 .. Count]]
        /\ Chunks \in Nat /\ Count \in Nat /\ e \in 0 .. Count
    <2>1. data' = [data EXCEPT ![fd[e]][off[e] + 1] = e] /\ off' = [off EXCEPT ![e] = off[e] + 1]
      BY DEF Write
    <2>2. Chunks \in Nat /\ Count \in Nat /\ e \in 0 .. Count
      BY PartsAssumption DEF PartsAssumption, Entries
    <2> QED
      BY <1>1, <2>1, <2>2, NamesDiffer DEF Types
  <1>3. /\ off[e] + 1 \in 1 .. Chunks /\ off'[e] = off[e] + 1
        /\ \A k \in 1 .. Chunks : k # off[e] + 1 => data'[e][k] = data[e][k]
        /\ data'[e][off[e] + 1] = e
        /\ \A f \in Entries : f # e => off'[f] = off[f] /\ data'[f] = data[f]
    BY <1>1, <1>2
  <1>4. Types'
    <2>1. off' \in [Entries -> 0 .. Chunks]
      BY <1>2, <1>3
    <2>2. data' \in [Inodes -> [1 .. Chunks -> 0 .. Count]]
      BY <1>2, <1>3
    <2> QED
      BY <1>1, <2>1, <2>2 DEF Types
  <1>5. Shape'
    BY <1>1 DEF Shape, Exists, IsDir
  <1>6. Places'
    BY <1>1, PlacesKept DEF Making
  <1>7. Parts'
    BY <1>1 DEF Parts, Making, Late
  <1>8. Contents'
    <2>1. \A k \in 1 .. off[e] : data[e][k] = e
      BY <1>1 DEF Contents
    <2>2. \A k \in 1 .. off'[e] : data'[e][k] = e
      <3>1. off[e] \in 0 .. Chunks
        BY <1>2
      <3>2. ASSUME NEW k \in 1 .. off[e] + 1
            PROVE  k \in 1 .. Chunks /\ (k # off[e] + 1 => k \in 1 .. off[e])
        BY <1>1, <1>2, <3>1
      <3>3. ASSUME NEW k \in 1 .. off[e] + 1
            PROVE  data'[e][k] = e
        BY <1>3, <2>1, <3>2
      <3> QED
        BY <1>2, <1>3, <3>1, <3>3
    <2>3. \A f \in Entries : f # e => off'[f] = off[f] /\ data'[f] = data[f]
      BY <1>3
    <2>4. ASSUME NEW f \in Entries, f # e
          PROVE  /\ pc[f] \in Early => ret[f] = "OK" /\ off'[f] = 0
                 /\ pc[f] = "write" =>
                      /\ fd[f] = f /\ ret[f] = "OK"
                      /\ \A k \in 1 .. off'[f] : data'[f][k] = f
                 /\ pc[f] \in Late /\ ret[f] = "OK" =>
                      \A k \in 1 .. Chunks : data'[f][k] = f
      BY <2>3, <2>4 DEF Contents
    <2>5. pc[e] \notin Early /\ pc[e] \notin Late /\ pc[e] # "discard" /\ ret[e] = "OK"
          /\ dest[DestOf[e]] = None
      BY <1>1 DEF Contents, Making, Early, Late
    <2> QED
      BY <1>1, <2>2, <2>4, <2>5 DEF Contents, Making, Early, Late
  <1>9. InAll'
    <2>1. \A f \in Entries : Passed(f)' = Passed(f)
      BY <1>1 DEF Passed, Upto
    <2> QED
      BY <1>1, <2>1 DEF InAll, Making
  <1>10. Over'
    BY <1>1 DEF Over, Active, Failed
  <1>11. Left'
    BY <1>1, LeftKept
  <1> QED
    BY <1>4, <1>5, <1>6, <1>7, <1>8, <1>9, <1>10, <1>11

LEMMA WriteFailsHolds ==
  ASSUME IInv, NEW e \in Entries, WriteFails(e)
  PROVE  IInv'
  <1> USE DEF IInv
  <1>1. /\ pc[e] = "write"
        /\ UNCHANGED << call, phase, todo, stage, off, fd, dirs, file, dest, data >>
    BY DEF WriteFails
  <1>2. /\ pc' = [pc EXCEPT ![e] = "discard"] /\ ret' = [ret EXCEPT ![e] = "FAILED"]
        /\ pc \in [Entries -> Early \union {"write", "discard"} \union Late]
        /\ ret \in [Entries -> {"OK", "ERR", "EFILE", "FAILED"}]
    BY DEF WriteFails, GoTo, Types
  <1>3. /\ pc'[e] = "discard" /\ ret'[e] = "FAILED"
        /\ \A f \in Entries : f # e => pc'[f] = pc[f] /\ ret'[f] = ret[f]
    BY <1>2
  <1>4. Types' /\ Shape'
    BY <1>1, <1>2 DEF Types, Shape, Exists, IsDir
  <1>5. Places'
    BY <1>1, <1>3, PlacesKept DEF Making
  <1>6. Parts' /\ Contents'
    BY <1>1, <1>3 DEF Parts, Contents, Making, Early, Late
  <1>7. InAll'
    <2>1. \A f \in Entries : Passed(f)' = Passed(f)
      BY <1>1 DEF Passed, Upto
    <2> QED
      BY <1>1, <1>3, <2>1 DEF InAll, Making
  <1>8. Over'
    BY <1>1 DEF Over, Active
  <1>9. Left'
    BY <1>1, <1>3, LeftKept
  <1> QED
    BY <1>4, <1>5, <1>6, <1>7, <1>8, <1>9

LEMMA PublishHolds ==
  ASSUME IInv, NEW e \in Entries, Publish(e)
  PROVE  IInv'
  <1> USE DEF IInv
  <1> DEFINE p == PartOf[e]
  <1>1. /\ pc[e] = "write" /\ off[e] = Chunks /\ file[p] = e /\ e # None /\ ret[e] = "OK"
        /\ UNCHANGED << call, phase, todo, stage, off, fd, ret, dirs, data >>
    BY NamesDiffer DEF Publish, Parts, Contents
  <1>2. /\ pc' = [pc EXCEPT ![e] = "tidy"] /\ dest' = [dest EXCEPT ![DestOf[e]] = e]
        /\ file' = [file EXCEPT ![p] = None]
        /\ pc \in [Entries -> Early \union {"write", "discard"} \union Late]
        /\ dest \in [Dests -> Inodes \union {None}] /\ DestOf[e] \in Dests
        /\ file \in [Nodes -> Inodes \union {None}] /\ p \in Nodes /\ e \in Inodes
    BY <1>1, NamesDiffer DEF Publish, GoTo, Types, Unlinked
  <1>3. /\ pc'[e] = "tidy" /\ dest'[DestOf[e]] = e /\ file'[p] = None
        /\ \A f \in Entries : f # e => pc'[f] = pc[f] /\ dest'[DestOf[f]] = dest[DestOf[f]]
        /\ \A n \in Nodes : n # p => file'[n] = file[n]
    BY <1>2, NamesDiffer
  <1>4. Types'
    BY <1>1, <1>2 DEF Types, Late
  <1>5. Shape'
    BY <1>1, <1>3 DEF Shape, Exists, IsDir
  <1>6. Places'
    BY <1>1, <1>3, PlacesKept DEF Making
  <1>7. Parts'
    BY <1>1, <1>3, NamesDiffer DEF Parts, Making, Late
  <1>8. Contents'
    <2>1. \A k \in 1 .. Chunks : data[e][k] = e
      BY <1>1 DEF Contents
    <2> QED
      BY <1>1, <1>3, <2>1 DEF Contents, Making, Early, Late
  <1>9. InAll'
    <2>1. \A f \in Entries : Passed(f)' = Passed(f)
      BY <1>1 DEF Passed, Upto
    <2> QED
      BY <1>1, <1>3, <2>1 DEF InAll, Making
  <1>10. Over'
    BY <1>1 DEF Over, Active
  <1>11. Left'
    BY <1>1, <1>3, LeftKept, NamesDiffer
  <1> QED
    BY <1>4, <1>5, <1>6, <1>7, <1>8, <1>9, <1>10, <1>11

LEMMA DiscardHolds ==
  ASSUME IInv, NEW e \in Entries, Discard(e)
  PROVE  IInv'
  <1> USE DEF IInv
  <1> DEFINE p == PartOf[e]
  <1>1. /\ pc[e] = "discard" /\ file[p] = e
        /\ UNCHANGED << call, phase, todo, stage, off, fd, ret, dirs, dest, data >>
    BY DEF Discard, Parts
  <1>2. /\ pc' = [pc EXCEPT ![e] = "tidy"] /\ file' = [file EXCEPT ![p] = None]
        /\ pc \in [Entries -> Early \union {"write", "discard"} \union Late]
        /\ file \in [Nodes -> Inodes \union {None}] /\ p \in Nodes
    BY NamesDiffer DEF Discard, GoTo, Types, Unlinked
  <1>3. /\ pc'[e] = "tidy" /\ file'[p] = None
        /\ \A f \in Entries : f # e => pc'[f] = pc[f]
        /\ \A n \in Nodes : n # p => file'[n] = file[n]
    BY <1>2
  <1>4. Types'
    BY <1>1, <1>2 DEF Types, Late
  <1>5. Shape'
    BY <1>1, <1>3 DEF Shape, Exists, IsDir
  <1>6. Places'
    BY <1>1, <1>3, PlacesKept DEF Making
  <1>7. Parts'
    BY <1>1, <1>3, NamesDiffer DEF Parts, Making, Late
  <1>8. Contents'
    BY <1>1, <1>3 DEF Contents, Making, Early, Late
  <1>9. InAll'
    <2>1. \A f \in Entries : Passed(f)' = Passed(f)
      BY <1>1 DEF Passed, Upto
    <2> QED
      BY <1>1, <1>3, <2>1 DEF InAll, Making
  <1>10. Over'
    BY <1>1 DEF Over, Active
  <1>11. Left'
    BY <1>1, <1>3, LeftKept, NamesDiffer
  <1> QED
    BY <1>4, <1>5, <1>6, <1>7, <1>8, <1>9, <1>10, <1>11

-----------------------------------------------------------------------------
(* Removing directories *)

\* What an entry tries to remove: its chain from the bottom up, without .zipy if
\* that belongs to the archive.
LEMMA RemovableIs ==
  ASSUME NEW e \in Entries
  PROVE  /\ Low \in 1 .. 2 /\ Low <= Len(Chain(e))
         /\ Removable(e) \in Seq(Nodes) /\ Len(Removable(e)) = Len(Chain(e)) + 1 - Low
         /\ \A i \in 1 .. Len(Removable(e)) :
              Removable(e)[i] = Chain(e)[Low + Len(Removable(e)) - i]
         /\ \A m \in ToSet(Chain(e)) :
              m \in ToSet(Removable(e)) \/ (call.rootZipy /\ Parent[m] = Target)
         /\ ToSet(Removable(e)) \subseteq Nodes \intersect Interior
  <1> DEFINE c == Chain(e)
             t == IF call.rootZipy THEN Tail(c) ELSE c
             r == Removable(e)
  <1>1. /\ c \in Seq(Nodes) /\ Len(c) \in Nat /\ Len(c) >= 2
        /\ \A k \in 1 .. Len(c) : c[k] \in Nodes \intersect Interior
        /\ Parent[c[1]] = Target
        /\ \A m : m \in ToSet(c) <=> \E k \in 1 .. Len(c) : m = c[k]
    BY ChainOf
  <1>2. r = [i \in 1 .. Len(t) |-> t[(Len(t) - i) + 1]]
    BY DEF Removable, Reverse
  <1> HIDE DEF c, r
  <1>3. Low \in 1 .. 2 /\ Low <= Len(c)
    BY <1>1 DEF Low
  <1>4. /\ Len(t) = Len(c) + 1 - Low
        /\ \A j \in 1 .. Len(t) : t[j] = c[j + Low - 1]
    <2>1. CASE call.rootZipy
      <3>1. Len(Tail(c)) = Len(c) - 1 /\ \A j \in 1 .. Len(c) - 1 : Tail(c)[j] = c[j + 1]
        BY <1>1
      <3> QED
        BY <1>1, <2>1, <3>1 DEF Low
    <2>2. CASE ~call.rootZipy
      BY <1>1, <2>2 DEF Low
    <2> QED
      BY <2>1, <2>2
  <1> HIDE DEF t
  <1>5. Len(t) \in Nat /\ Len(r) = Len(t) /\ DOMAIN r = 1 .. Len(t)
    BY <1>1, <1>2, <1>3, <1>4
  <1>6. ASSUME NEW i \in 1 .. Len(t)
        PROVE  r[i] = c[Low + Len(r) - i] /\ r[i] \in Nodes \intersect Interior
    <2>1. r[i] = t[(Len(t) - i) + 1] /\ (Len(t) - i) + 1 \in 1 .. Len(t)
      BY <1>2, <1>5
    <2>2. ((Len(t) - i) + 1) + Low - 1 = Low + Len(r) - i
      BY <1>3, <1>5
    <2>3. Low + Len(r) - i \in 1 .. Len(c)
      BY <1>1, <1>3, <1>4, <1>5
    <2> QED
      BY <1>1, <1>4, <2>1, <2>2, <2>3
  <1>7. r \in Seq(Nodes)
    BY <1>2, <1>5, <1>6
  <1>8. ASSUME NEW m \in ToSet(c), m \notin ToSet(r)
        PROVE  call.rootZipy /\ Parent[m] = Target
    <2>1. PICK k \in 1 .. Len(c) : m = c[k]
      BY <1>1
    <2>2. k < Low
      <3> SUFFICES ASSUME k >= Low
                   PROVE  FALSE
        BY <1>3
      <3> DEFINE i == Low + Len(r) - k
      <3>1. i \in 1 .. Len(t) /\ Low + Len(r) - i = k
        BY <1>1, <1>3, <1>4, <1>5
      <3>2. r[i] = c[k] /\ i \in DOMAIN r
        BY <1>5, <1>6, <3>1
      <3> QED
        BY <1>8, <2>1, <3>2 DEF ToSet
    <2>3. k = 1 /\ call.rootZipy
      BY <1>3, <2>2 DEF Low
    <2> QED
      BY <1>1, <2>1, <2>3
  <1>9. ToSet(r) \subseteq Nodes \intersect Interior
    BY <1>5, <1>6 DEF ToSet
  <1> QED
    BY <1>3, <1>4, <1>5, <1>6, <1>7, <1>8, <1>9 DEF c, r

LEMMA TidyHolds ==
  ASSUME IInv, NEW e \in Entries, Tidy(e)
  PROVE  IInv'
  <1> USE DEF IInv
  <1> DEFINE label == IF call.extractAll THEN "done" ELSE "rmdir"
             rest  == IF call.extractAll THEN << >> ELSE Removable(e)
  <1>1. /\ pc[e] = "tidy" /\ phase = "run"
        /\ UNCHANGED << call, phase, stage, off, fd, ret, dirs, file, dest, data >>
    BY DEF Tidy, Over, Active, Types
  <1>2. /\ pc' = [pc EXCEPT ![e] = label] /\ todo' = [todo EXCEPT ![e] = rest]
        /\ pc \in [Entries -> Early \union {"write", "discard"} \union Late]
        /\ todo \in [Entries -> Seq(Nodes)]
    BY DEF Tidy, GoTo, Types
  <1>3. rest \in Seq(Nodes)
    BY RemovableIs
  <1>4. /\ pc'[e] = label /\ todo'[e] = rest
        /\ \A f \in Entries : f # e => pc'[f] = pc[f] /\ todo'[f] = todo[f]
    BY <1>2
  <1>5. label \in {"rmdir", "done"}
    OBVIOUS
  <1>6. Types' /\ Shape'
    BY <1>1, <1>2, <1>3, <1>5 DEF Types, Late, Shape, Exists, IsDir
  <1>7. Places'
    <2>1. \A f \in Entries : f # e => Place(f)'
      BY <1>1, <1>4, PlaceKept
    <2>2. Place(e)'
      <3>1. Low' = Low
        BY <1>1 DEF Low
      <3>2. CASE call.extractAll
        BY <1>4, <3>2 DEF Place, Making
      <3>3. CASE ~call.extractAll
        <4>1. /\ Len(rest) = Len(Chain(e)) + 1 - Low
              /\ Len(Chain(e)) \in Nat /\ Low \in 1 .. 2 /\ Low <= Len(Chain(e))
              /\ \A i \in 1 .. Len(rest) : rest[i] = Chain(e)[Low + Len(rest) - i]
          BY <3>3, ChainOf, RemovableIs
        <4>2. Len(rest) \in 1 .. Len(Chain(e)) + 1 - Low
          BY <4>1
        <4> HIDE DEF rest
        <4> QED
          BY <1>4, <3>1, <3>3, <4>1, <4>2 DEF Place, Making
      <3> QED
        BY <3>2, <3>3
    <2> QED
      BY <2>1, <2>2 DEF Places
  <1>8. Parts' /\ Contents'
    BY <1>1, <1>4, <1>5 DEF Parts, Contents, Making, Early, Late
  <1>9. InAll'
    <2>1. \A f \in Entries : f # e => Passed(f)' = Passed(f)
      BY <1>1, <1>4 DEF Passed, Upto
    <2> QED
      BY <1>1, <1>4, <2>1 DEF InAll, Making
  <1>10. Over'
    BY <1>1 DEF Over
  <1>11. Left'
    <2> SUFFICES ASSUME ~Failed', NEW d \in dirs
                 PROVE  Excused(d)' \/ \E f \in Entries : Minds(f, d)'
      BY <1>1 DEF Left
    <2>1. ~Failed
      BY <1>1, <1>4 DEF Failed
    <2>2. Excused(d) => Excused(d)'
      BY <1>1 DEF Excused
    <2>3. \A f \in Entries : f # e /\ Minds(f, d) => Minds(f, d)'
      BY <1>1, <1>4 DEF Minds
    <2>4. Minds(e, d) => Minds(e, d)' \/ Excused(d)
      <3>1. CASE call.extractAll
        BY <1>1, <3>1 DEF Minds
      <3>2. CASE ~call.extractAll
        BY <1>1, <1>4, <3>2, RemovableIs DEF Minds, Excused
      <3> QED
        BY <3>1, <3>2
    <2> QED
      BY <2>1, <2>2, <2>3, <2>4 DEF Left
  <1> QED
    BY <1>6, <1>7, <1>8, <1>9, <1>10, <1>11

\* Whoever minds a directory minds the one it is in, next.
LEMMA MindsParent ==
  ASSUME Types, Places, NEW g \in Entries, NEW c, NEW d \in Nodes,
         Minds(g, c), Parent[c] = d, ~call.extractAll
  PROVE  \/ pc[g] \notin {"waiting", "rmdir", "done"} /\ d \in ToSet(Chain(g))
         \/ call.rootZipy /\ Parent[d] = Target
         \/ /\ pc[g] = "rmdir" /\ d \in ToSet(Chain(g))
            /\ d \in ToSet(todo[g]) /\ d # Head(todo[g])
  <1> DEFINE h == Chain(g)
             t == todo[g]
  <1>1. /\ Len(h) \in Nat /\ Parent[h[1]] = Target
        /\ \A k \in 2 .. Len(h) : Parent[h[k]] = h[k - 1]
        /\ \A j, k \in 1 .. Len(h) : h[j] = h[k] => j = k
        /\ \A m : m \in ToSet(h) <=> \E k \in 1 .. Len(h) : m = h[k]
    BY ChainOf
  <1>2. c \in ToSet(h) /\ Target \notin Nodes /\ t \in Seq(Nodes)
    BY PartsAssumption DEF Minds, Types, PartsAssumption
  <1>3. pc[g] = "rmdir" =>
          /\ Len(t) \in 1 .. Len(h) + 1 - Low
          /\ \A i \in 1 .. Len(t) : t[i] = h[Low + Len(t) - i]
          /\ c \in ToSet(t)
    BY DEF Places, Place, Minds
  <1>4. pc[g] = "rmdir" \/ pc[g] \notin {"waiting", "rmdir", "done"}
    BY DEF Minds
  <1>5. Low \in 1 .. 2 /\ (Low = 2 => call.rootZipy)
    BY DEF Low
  <1> HIDE DEF h, t
  <1>6. PICK k \in 1 .. Len(h) : c = h[k]
    BY <1>1, <1>2
  <1>7. k # 1
    BY <1>1, <1>2, <1>6
  <1>8. k - 1 \in 1 .. Len(h) /\ d = h[k - 1] /\ d \in ToSet(h)
    <2>1. k \in 2 .. Len(h) /\ k - 1 \in 1 .. Len(h)
      BY <1>1, <1>6, <1>7
    <2> QED
      BY <1>1, <1>6, <2>1
  <1>9. CASE pc[g] = "rmdir"
    <2>1. Len(t) \in Nat /\ DOMAIN t = 1 .. Len(t)
      BY <1>2
    <2>2. PICK i \in 1 .. Len(t) : c = t[i]
      BY <1>3, <1>9, <2>1 DEF ToSet
    <2>3. Low + Len(t) - i \in 1 .. Len(h) /\ k = Low + Len(t) - i
      <3>1. Low + Len(t) - i \in 1 .. Len(h)
        BY <1>1, <1>3, <1>5, <1>9, <2>1, <2>2
      <3>2. h[k] = h[Low + Len(t) - i]
        BY <1>3, <1>6, <1>9, <2>2
      <3> QED
        BY <1>1, <1>6, <3>1, <3>2
    <2>4. CASE i < Len(t)
      <3>1. i + 1 \in 1 .. Len(t) /\ Low + Len(t) - (i + 1) = k - 1
        BY <1>5, <2>1, <2>2, <2>3, <2>4
      <3>2. d = t[i + 1] /\ d \in ToSet(t)
        BY <1>3, <1>8, <1>9, <2>1, <3>1 DEF ToSet
      <3>3. d # Head(t)
        <4>1. 1 \in 1 .. Len(t) /\ Head(t) = h[Low + Len(t) - 1]
          <5>1. Head(t) = t[1] /\ 1 \in 1 .. Len(t)
            BY <1>2, <2>1, <2>2
          <5> QED
            BY <1>3, <1>9, <5>1
        <4>2. Low + Len(t) - 1 \in 1 .. Len(h) /\ Low + Len(t) - 1 # k - 1
          BY <1>1, <1>3, <1>5, <1>9, <2>1, <2>2, <2>3
        <4> QED
          BY <1>1, <1>8, <4>1, <4>2
      <3> QED
        BY <1>8, <1>9, <3>2, <3>3 DEF h, t
    <2>5. CASE i >= Len(t)
      <3>1. k = Low /\ k = 2 /\ k - 1 = 1
        BY <1>5, <1>6, <1>7, <2>1, <2>2, <2>3, <2>5
      <3> QED
        BY <1>1, <1>5, <1>8, <3>1
    <2> QED
      BY <2>1, <2>2, <2>4, <2>5
  <1> QED
    BY <1>4, <1>8, <1>9 DEF h

\* A directory that cannot be removed is excused, or another entry minds it.
LEMMA WhyItStays ==
  ASSUME IInv, NEW e \in Entries, pc[e] = "rmdir", ~Failed,
         Children(Head(todo[e])) # {}, Head(todo[e]) \in Nodes
  PROVE  LET d == Head(todo[e])
         IN \/ Excused(d)
            \/ \E g \in Entries : g # e /\ Minds(g, d)
  <1> USE DEF IInv
  <1> DEFINE d == Head(todo[e])
  <1>0. ~call.extractAll /\ Target \notin Nodes
    BY PartsAssumption DEF InAll, PartsAssumption
  <1>1. PICK c \in Nodes : Parent[c] = d /\ Exists(c)
    BY DEF Children
  <1>2. d \in Above(c) /\ c \in Above(c)
    BY <1>0, <1>1, AboveParent
  <1>3. CASE c \in dirs
    <2>1. CASE Excused(c)
      <3>1. PICK m \in Nodes : file[m] = Foreign /\ c \in Above(m)
        BY <1>0, <1>1, <2>1 DEF Excused
      <3>2. d \in Above(m)
        BY <1>2, <3>1, AboveTrans
      <3> QED
        BY <3>1, <3>2 DEF Excused
    <2>2. CASE \E g \in Entries : Minds(g, c)
      <3>1. PICK g \in Entries : Minds(g, c)
        BY <2>2
      <3>2. \/ pc[g] \notin {"waiting", "rmdir", "done"} /\ d \in ToSet(Chain(g))
            \/ call.rootZipy /\ Parent[d] = Target
            \/ /\ pc[g] = "rmdir" /\ d \in ToSet(Chain(g))
               /\ d \in ToSet(todo[g]) /\ d # Head(todo[g])
        BY <1>0, <1>1, <3>1, MindsParent
      <3> QED
        BY <3>2 DEF Minds, Excused
    <2> QED
      BY <1>3, <2>1, <2>2 DEF Left
  <1>4. CASE c \notin dirs
    <2>1. file[c] # None
      BY <1>0, <1>1, <1>4 DEF Exists, IsDir
    <2>2. CASE file[c] = Foreign
      BY <1>2, <2>2 DEF Excused
    <2>3. CASE file[c] # Foreign
      <3>1. PICK g \in Entries : c = PartOf[g]
        BY <2>1, <2>3 DEF Parts
      <3>2. pc[g] \in {"write", "discard"}
        BY <2>1, <2>3, <3>1 DEF Parts, Types, Early, Late, Making
      <3>3. d \in ToSet(Chain(g))
        <4>1. Chain(g)[Len(Chain(g))] = d /\ Len(Chain(g)) \in 1 .. Len(Chain(g))
          BY <1>1, <3>1, ChainOf
        <4> QED
          BY <4>1, ChainOf
      <3> QED
        BY <3>2, <3>3 DEF Minds
    <2> QED
      BY <2>2, <2>3
  <1> QED
    BY <1>3, <1>4

LEMMA RemoveDirHolds ==
  ASSUME IInv, NEW e \in Entries, RemoveDir(e)
  PROVE  IInv'
  <1> USE DEF IInv
  <1> DEFINE d == Head(todo[e])
             t == todo[e]
             label == IF Len(t) > 1 THEN "rmdir" ELSE "done"
  <1>1. /\ pc[e] = "rmdir" /\ ~call.extractAll
        /\ UNCHANGED << call, phase, stage, off, fd, ret, file, dest, data >>
    BY DEF RemoveDir, InAll
  <1>2. /\ pc' = [pc EXCEPT ![e] = label] /\ todo' = [todo EXCEPT ![e] = Tail(t)]
        /\ pc \in [Entries -> Early \union {"write", "discard"} \union Late]
        /\ todo \in [Entries -> Seq(Nodes)]
        /\ dirs' = IF Children(d) = {} THEN dirs \ {d} ELSE dirs
    BY DEF RemoveDir, GoTo, Types
  <1>3. /\ t \in Seq(Nodes) /\ Len(t) \in Nat /\ Len(t) >= 1
        /\ Len(t) \in 1 .. Len(Chain(e)) + 1 - Low
        /\ \A i \in 1 .. Len(t) : t[i] = Chain(e)[Low + Len(t) - i]
        /\ Len(Chain(e)) \in Nat /\ Low \in 1 .. 2
    BY <1>1, <1>2, ChainOf, RemovableIs DEF Places, Place
  <1>4. /\ Tail(t) \in Seq(Nodes) /\ Len(Tail(t)) = Len(t) - 1 /\ d = t[1] /\ d \in Nodes
        /\ \A i \in 1 .. Len(t) - 1 : Tail(t)[i] = t[i + 1]
    <2> HIDE DEF t
    <2>1. t # << >> /\ 1 \in 1 .. Len(t)
      BY <1>3
    <2> QED
      BY <1>3, <2>1 DEF t
  <1>5. /\ pc'[e] = label /\ todo'[e] = Tail(t)
        /\ \A f \in Entries : f # e => pc'[f] = pc[f] /\ todo'[f] = todo[f]
    BY <1>2
  <1>6. label \in {"rmdir", "done"} /\ dirs' \subseteq dirs
    BY <1>2
  <1>7. Types'
    BY <1>1, <1>2, <1>4, <1>6 DEF Types, Late
  <1>8. Shape'
    <2>1. ASSUME NEW n \in Nodes, Exists(n), Children(d) = {}
          PROVE  d \notin Above(n) \ {n}
      <3> SUFFICES ASSUME d \in Above(n), d # n
                   PROVE  FALSE
        OBVIOUS
      <3>1. PICK c \in Above(n) : c \in Nodes /\ Parent[c] = d
        BY ChildOnTheWay
      <3>2. Exists(c)
        BY <2>1, <3>1 DEF Shape, Exists, IsDir
      <3> QED
        BY <2>1, <3>1, <3>2 DEF Children
    <2>2. \A n \in Nodes : Exists(n)' => Exists(n)
      BY <1>1, <1>6 DEF Exists, IsDir
    <2>3. \A n \in Nodes : Exists(n) => Above(n) \ {n} \subseteq dirs'
      BY <1>2, <2>1 DEF Shape
    <2> QED
      BY <1>1, <1>6, <2>2, <2>3 DEF Shape
  <1>9. Places'
    <2>1. \A f \in Entries : f # e => Place(f)'
      BY <1>1, <1>5, PlaceKept
    <2>2. Place(e)'
      <3>1. Low' = Low
        BY <1>1 DEF Low
      <3>2. CASE label = "rmdir"
        <4>1. Len(t) > 1
          BY <3>2
        <4>2. Len(Tail(t)) \in 1 .. Len(Chain(e)) + 1 - Low
          BY <1>3, <1>4, <4>1
        <4>3. ASSUME NEW i \in 1 .. Len(Tail(t))
              PROVE  Tail(t)[i] = Chain(e)[Low + Len(Tail(t)) - i]
          <5>1. /\ i \in 1 .. Len(t) - 1 /\ i + 1 \in 1 .. Len(t)
                /\ Low + Len(t) - (i + 1) = Low + Len(Tail(t)) - i
            BY <1>3, <1>4
          <5> QED
            BY <1>3, <1>4, <5>1
        <4> QED
          BY <1>5, <3>1, <3>2, <4>2, <4>3 DEF Place, Making
      <3>3. CASE label # "rmdir"
        BY <1>5, <1>6, <3>3 DEF Place, Making
      <3> QED
        BY <3>2, <3>3
    <2> QED
      BY <2>1, <2>2 DEF Places
  <1>10. Parts' /\ Contents'
    BY <1>1, <1>5, <1>6 DEF Parts, Contents, Making, Early, Late
  <1>11. InAll'
    BY <1>1 DEF InAll
  <1>12. Over'
    BY <1>1 DEF Over, Active
  <1>13. Left'
    <2> SUFFICES ASSUME ~Failed', NEW x \in dirs'
                 PROVE  Excused(x)' \/ \E f \in Entries : Minds(f, x)'
      BY DEF Left
    <2>1. ~Failed
      BY <1>1, <1>5 DEF Failed
    <2>2. Excused(x) => Excused(x)'
      BY <1>1 DEF Excused
    <2>3. \A f \in Entries : f # e /\ Minds(f, x) => Minds(f, x)'
      BY <1>1, <1>5 DEF Minds
    <2>4. CASE x = d
      <3>1. Children(d) # {}
        BY <1>2, <2>4
      <3> QED
        BY <1>1, <1>4, <2>1, <2>2, <2>3, <2>4, <3>1, WhyItStays
    <2>5. CASE x # d
      <3>1. Minds(e, x) => Minds(e, x)'
        <4> SUFFICES ASSUME Minds(e, x)
                     PROVE  Minds(e, x)'
          OBVIOUS
        <4>1. x \in ToSet(t) /\ x \in ToSet(Chain(e))
          BY <1>1 DEF Minds
        <4>2. PICK i \in 1 .. Len(t) : x = t[i]
          BY <1>3, <4>1 DEF ToSet
        <4>3. i # 1
          BY <1>4, <2>5, <4>2
        <4>4. i - 1 \in 1 .. Len(t) - 1 /\ (i - 1) + 1 = i /\ Len(t) > 1
          BY <1>3, <4>2, <4>3
        <4>5. Tail(t)[i - 1] = x /\ DOMAIN Tail(t) = 1 .. Len(t) - 1
          BY <1>4, <4>2, <4>4
        <4>6. x \in ToSet(Tail(t))
          BY <4>4, <4>5 DEF ToSet
        <4> QED
          BY <1>5, <4>1, <4>4, <4>6 DEF Minds
      <3> QED
        BY <1>6, <2>1, <2>2, <2>3, <3>1 DEF Left
    <2> QED
      BY <2>4, <2>5
  <1> QED
    BY <1>7, <1>8, <1>9, <1>10, <1>11, <1>12, <1>13

-----------------------------------------------------------------------------
(* The call *)

\* When all entries are done, what is left is excused or will be removed now.
LEMMA LeftAtTheEnd ==
  ASSUME IInv, ~Failed, \A e \in Entries : pc[e] = "done", NEW d \in dirs,
         \A e \in Entries : d \notin ToSet(Removable(e))
  PROVE  Excused(d)
  <1> SUFFICES ASSUME NEW e \in Entries, Minds(e, d)
               PROVE  Excused(d)
    BY DEF IInv, Left
  <1> QED
    BY RemovableIs DEF Minds, Excused

LEMMA CleanUpHolds ==
  ASSUME IInv, ~Failed, \A e \in Entries : pc[e] = "done", dirs' = CleanedUp,
         UNCHANGED << call, pc, ret, file >>
  PROVE  Shape' /\ Left'
  <1> USE DEF IInv
  <1> DEFINE Ours == UNION { ToSet(Removable(e)) : e \in Entries }
             Kept == UNION { Above(n) : n \in { m \in Nodes : Exists(m) /\ m \notin Ours } }
  <1>1. dirs' = dirs \ (Ours \ Kept)
    BY DEF CleanedUp
  <1>2. \A m : m \in Ours <=> \E e \in Entries : m \in ToSet(Removable(e))
    OBVIOUS
  <1>3. \A a : a \in Kept <=> \E m \in Nodes : Exists(m) /\ m \notin Ours /\ a \in Above(m)
    OBVIOUS
  <1>4. Ours \subseteq Interior
    BY <1>2, RemovableIs
  <1>5. dirs \subseteq Nodes
    BY DEF Types
  <1> HIDE DEF Ours, Kept
  <1>6. ASSUME NEW n \in Nodes, Exists(n)'
        PROVE  Above(n) \ {n} \subseteq dirs'
    <2>1. Exists(n) /\ Above(n) \ {n} \subseteq dirs
      BY <1>1, <1>6 DEF Exists, IsDir, Shape
    <2>2. Above(n) \subseteq Kept
      <3>1. CASE n \notin Ours
        BY <1>3, <2>1, <3>1
      <3>2. CASE n \in Ours
        <4>1. n \in dirs'
          BY <1>4, <1>6, <3>2, NamesDiffer DEF Exists, IsDir, Shape
        <4>2. PICK m \in Nodes : Exists(m) /\ m \notin Ours /\ n \in Above(m)
          BY <1>1, <1>3, <3>2, <4>1
        <4> QED
          BY <1>3, <4>2, AboveTrans
      <3> QED
        BY <3>1, <3>2
    <2> QED
      BY <1>1, <2>1, <2>2
  <1>7. Shape'
    BY <1>1, <1>6 DEF Shape
  <1>8. ASSUME NEW d \in dirs'
        PROVE  Excused(d)
    <2>1. d \in dirs /\ d \in Nodes
      BY <1>1, <1>5
    <2>2. CASE d \notin Ours
      BY <1>2, <2>1, <2>2, LeftAtTheEnd
    <2>3. CASE d \in Ours
      <3>1. PICK m \in Nodes : Exists(m) /\ m \notin Ours /\ d \in Above(m)
        BY <1>1, <1>3, <2>3
      <3>2. CASE m \in dirs
        <4>1. Excused(m)
          BY <1>2, <3>1, <3>2, LeftAtTheEnd
        <4>2. CASE \E x \in Nodes : file[x] = Foreign /\ m \in Above(x)
          <5>1. PICK x \in Nodes : file[x] = Foreign /\ m \in Above(x)
            BY <4>2
          <5>2. d \in Above(x)
            BY <3>1, <5>1, AboveTrans
          <5> QED
            BY <5>1, <5>2 DEF Excused
        <4>3. CASE Parent[m] = Target
          BY <2>3, <3>1, <4>3, AboveParent
        <4> QED
          BY <4>1, <4>2, <4>3 DEF Excused
      <3>3. CASE m \notin dirs
        <4>1. file[m] # None
          BY <3>1, <3>3, NamesDiffer DEF Exists, IsDir
        <4>2. file[m] = Foreign
          BY <4>1 DEF Parts, Late
        <4> QED
          BY <3>1, <4>2 DEF Excused
      <3> QED
        BY <3>2, <3>3
    <2> QED
      BY <2>2, <2>3
  <1>9. \A d \in dirs' : Excused(d)'
    BY <1>8 DEF Excused
  <1> QED
    BY <1>7, <1>9 DEF Left

LEMMA ReturnHolds ==
  ASSUME IInv, ReturnToCaller
  PROVE  IInv'
  <1> USE DEF IInv
  <1>1. /\ Active = {} /\ phase' = "returned"
        /\ (call.extractAll /\ Failed) \/ \A e \in Entries : pc[e] = "done"
        /\ UNCHANGED << call, pc, todo, stage, off, fd, ret, file, dest, data >>
        /\ dirs' = IF call.extractAll /\ ~Failed THEN CleanedUp ELSE dirs
    BY DEF ReturnToCaller
  <1>2. dirs' \subseteq dirs /\ Failed' = Failed /\ Active' = Active
    BY <1>1 DEF CleanedUp, Failed, Active
  <1>3. Types'
    BY <1>1, <1>2 DEF Types
  <1>4. Shape' /\ Left'
    <2>1. CASE call.extractAll /\ ~Failed
      BY <1>1, <2>1, CleanUpHolds
    <2>2. CASE ~call.extractAll
      BY <1>1, <2>2 DEF Shape, Exists, IsDir, Left, Failed, Minds, Excused
    <2>3. CASE Failed
      BY <1>1, <2>3 DEF Shape, Exists, IsDir, Left, Failed
    <2> QED
      BY <2>1, <2>2, <2>3
  <1>5. Places'
    BY <1>1, PlaceKept DEF Places
  <1>6. Parts' /\ Contents'
    BY <1>1 DEF Parts, Contents, Making, Early, Late
  <1>7. InAll'
    BY <1>1 DEF InAll, Active, Making
  <1>8. Over'
    BY <1>1, <1>2 DEF Over
  <1> QED
    BY <1>3, <1>4, <1>5, <1>6, <1>7, <1>8

LEMMA InitHolds ==
  ASSUME Init
  PROVE  IInv
  <1>1. PICK left \in SUBSET Stale :
          /\ file = [n \in Nodes |-> IF n \in left THEN Foreign ELSE None]
          /\ dirs = (UNION { Above(n) : n \in left }) \ left
    BY DEF Init
  <1>2. /\ left \subseteq Nodes /\ \A n \in left : n \notin Interior
        /\ \A n \in Nodes : file[n] = IF n \in left THEN Foreign ELSE None
        /\ \A d : d \in dirs <=> d \notin left /\ \E n \in left : d \in Above(n)
    <2>1. left \subseteq Nodes /\ \A n \in left : n \notin Interior
      BY NamesDiffer
    <2>2. \A n \in Nodes : file[n] = IF n \in left THEN Foreign ELSE None
      BY <1>1
    <2>3. \A d : d \in dirs <=> d \notin left /\ \E n \in left : d \in Above(n)
      BY <1>1
    <2> QED
      BY <2>1, <2>2, <2>3
  <1>3. ASSUME NEW m \in left, NEW n \in Above(m), NEW a \in Above(n), a # n
        PROVE  a \in Interior /\ a \in dirs
    <2>1. n \in Nodes /\ m \in Nodes
      BY <1>2, AboveTrans
    <2>2. a \in Interior
      BY <1>3, <2>1, ChildOnTheWay DEF Interior
    <2>3. a \in Above(m)
      BY <2>1, AboveTrans
    <2> QED
      BY <1>2, <2>2, <2>3
  <1>4. \A m \in left : m \in Above(m)
    BY <1>2, AboveParent
  <1>5. dirs \subseteq Interior /\ dirs \subseteq Nodes
    <2> SUFFICES ASSUME NEW d \in dirs
                 PROVE  d \in Interior /\ d \in Nodes
      OBVIOUS
    <2>1. PICK m \in left : d \in Above(m) /\ d # m
      BY <1>2
    <2> QED
      BY <1>2, <1>3, <1>4, <2>1, AboveTrans
  <1>6. Shape
    <2>1. ASSUME NEW n \in Nodes, Exists(n)
          PROVE  Above(n) \ {n} \subseteq dirs
      <3>1. PICK m \in left : n \in Above(m)
        BY <1>2, <1>4, <2>1, NamesDiffer DEF Exists, IsDir
      <3> QED
        BY <1>3, <3>1
    <2> QED
      BY <1>2, <1>5, <2>1 DEF Shape
  <1>7. Types
    <2>1. file \in [Nodes -> Inodes \union {None}]
      BY <1>1, NamesDiffer DEF Inodes, Foreign
    <2>2. /\ off \in [Entries -> 0 .. Chunks]
          /\ data \in [Inodes -> [1 .. Chunks -> 0 .. Count]]
          /\ fd \in [Entries -> Inodes]
      BY PartsAssumption, NamesDiffer DEF Init, PartsAssumption
    <2> QED
      BY <1>5, <2>1, <2>2 DEF Init, Types, Early
  <1>8. Places
    BY DEF Init, Places, Place, Making
  <1>9. Parts
    BY <1>2, NamesDiffer DEF Init, Parts, Making, Late
  <1>10. Contents
    BY NamesDiffer DEF Init, Contents, Early, Late
  <1>11. InAll
    BY DEF Init, InAll, Making
  <1>12. Over
    BY DEF Init, Over
  <1>13. Left
    BY <1>2 DEF Left, Excused
  <1> QED
    BY <1>6, <1>7, <1>8, <1>9, <1>10, <1>11, <1>12, <1>13 DEF IInv

-----------------------------------------------------------------------------
(* The theorems *)

LEMMA StepHolds ==
  ASSUME IInv, [Next]_vars
  PROVE  IInv'
  <1>1. ASSUME NEW e \in Entries, Step(e)
        PROVE  IInv'
    BY <1>1, BeginHolds, StatHolds, MakeDirHolds, RecheckHolds, UnlinkOldHolds,
       OpenHolds, WriteHolds, WriteFailsHolds, PublishHolds, DiscardHolds,
       TidyHolds, RemoveDirHolds
    DEF Step
  <1>2. CASE UNCHANGED vars
    <2> USE <1>2 DEF vars, IInv
    <2>1. Types' /\ Shape' /\ Parts' /\ Contents' /\ Over'
      BY DEF Types, Shape, Parts, Contents, Over, Exists, IsDir, Active, Failed
    <2>2. Places'
      BY PlaceKept DEF Places
    <2>3. InAll'
      <3>1. \A f \in Entries : Passed(f)' = Passed(f)
        BY DEF Passed, Upto
      <3> QED
        BY <3>1 DEF InAll
    <2>4. Left'
      BY DEF Left, Failed, Minds, Excused
    <2> QED
      BY <2>1, <2>2, <2>3, <2>4
  <1> QED
    BY <1>1, <1>2, ReturnHolds DEF Next

\* The inductive invariant holds: places, parts, contents and directories fit
\* together after every system call of every entry (extract_entry).
THEOREM Invariance == Spec => []IInv
  <1>1. Init => IInv
    BY InitHolds
  <1>2. IInv /\ [Next]_vars => IInv'
    BY StepHolds
  <1> QED
    BY <1>1, <1>2, PTL DEF Spec

\* The variables keep their types, and what exists is in a directory (mkdirs,
\* remove_empty_dir).
THEOREM TypeCorrect == Spec => []TypeOK
  <1>1. IInv => TypeOK
    <2> SUFFICES ASSUME IInv
                 PROVE  TypeOK
      OBVIOUS
    <2>1. \A n \in Nodes : Exists(n) => IsDir(Parent[n])
      BY HasItsParent DEF IInv
    <2>2. \A e \in Entries : Range(todo[e]) \subseteq Nodes
      <3> SUFFICES ASSUME NEW e \in Entries
                   PROVE  Range(todo[e]) \subseteq Nodes
        OBVIOUS
      <3>1. todo[e] \in Seq(Nodes)
        BY DEF IInv, Types
      <3> QED
        BY <3>1 DEF Range
    <2> QED
      BY <2>1, <2>2 DEF IInv, Types, TypeOK, Early, Making, Late
  <1> QED
    BY <1>1, Invariance, PTL

\* No destination ever holds a partial or a mixed file (replace_file in
\* extract_entry), whoever else writes at the same time.
THEOREM DestinationIsWhole == Spec => []DestWhole
  <1>1. IInv => DestWhole
    <2> SUFFICES ASSUME IInv, NEW d \in Dests, dest[d] # None
                 PROVE  \E e \in Entries :
                          DestOf[e] = d /\ \A k \in 1 .. Chunks : data[dest[d]][k] = e
      BY DEF DestWhole
    <2>1. PICK e \in Entries : DestOf[e] = d
      BY DEF Dests
    <2>2. dest[d] = e /\ \A k \in 1 .. Chunks : data[e][k] = e
      BY <2>1 DEF IInv, Contents
    <2> QED
      BY <2>1, <2>2
  <1> QED
    BY <1>1, Invariance, PTL

\* A file is in place exactly if its entry returned OK (extract_entry).
THEOREM ResultTellsDest == Spec => []DestFollowsResult
  <1>1. IInv => DestFollowsResult
    BY NamesDiffer DEF IInv, Contents, DestFollowsResult, Late
  <1> QED
    BY <1>1, Invariance, PTL

\* No entry that is done leaves its part (extract_entry, remove_file).
THEOREM PartsAreShed == Spec => []NoPartLeft
  <1>1. IInv => NoPartLeft
    BY NamesDiffer DEF IInv, Parts, Shape, NoPartLeft, Late, Exists, IsDir
  <1> QED
    BY <1>1, Invariance, PTL

\* With EXTRACT_DELAY_PARTS_CLEANUP entries do not fail each other
\* (zipy_extract_all).
THEOREM NeighboursDoNoHarm == Spec => []NoSpuriousFailureInAll
  <1>1. IInv => NoSpuriousFailureInAll
    BY DEF IInv, InAll, NoSpuriousFailureInAll, NoSpuriousFailure
  <1> QED
    BY <1>1, Invariance, PTL

\* A successful call takes its parts tree with it (cleanup_extract_all_parts,
\* cleanup_empty_parts_dirs).
THEOREM TreeIsGone == Spec => []TreeGone
  <1>1. IInv => TreeGone
    <2> SUFFICES ASSUME IInv, phase = "returned", ~Failed, NEW n \in Nodes, Exists(n)
                 PROVE  file[n] = Foreign \/ Excused(n)
      BY DEF TreeGone, Excused
    <2>1. \A e \in Entries : pc[e] = "done"
      BY DEF IInv, Over
    <2>2. CASE n \in dirs
      <3>1. \A e \in Entries : ~Minds(e, n)
        BY <2>1 DEF Minds
      <3> QED
        BY <2>2, <3>1 DEF IInv, Left
    <2>3. CASE n \notin dirs
      BY <2>1, <2>3, NamesDiffer DEF IInv, Parts, Late, Exists, IsDir
    <2> QED
      BY <2>2, <2>3
  <1> QED
    BY <1>1, Invariance, PTL

=============================================================================
