----------------------------- MODULE NatRecursion -----------------------------
(***************************************************************************)
(* Induction and definition by recursion over the natural numbers, stated  *)
(* with sets and functions in place of operators, so that proofs about     *)
(* what the code does in a loop can use them, and what a loop over a list  *)
(* collects.                                                               *)
(***************************************************************************)
EXTENDS Lists, FiniteSetTheorems, SequenceTheorems, WellFoundedInduction, TLAPS

(* Induction: a set that holds 0, and with each number the next, holds     *)
(* them all (the loops of index.rs, scanner.rs and music_library.rs, which *)
(* go on from what the turn before left).                                  *)
LEMMA NatInduct ==
  ASSUME NEW S, 0 \in S, \A n \in Nat : n \in S => n + 1 \in S
  PROVE  \A n \in Nat : n \in S
<1> DEFINE T == {1 .. n : n \in Nat \ S}
<1> SUFFICES ASSUME NEW k \in Nat, k \notin S PROVE FALSE
  OBVIOUS
<1>0. T \subseteq FiniteSubsetsOf(Nat) /\ T # {}
  <2>1. \A n \in Nat : IsFiniteSet(1 .. n) /\ 1 .. n \subseteq Nat
    BY FS_Interval
  <2> QED BY <2>1 DEF FiniteSubsetsOf
<1> HIDE DEF T
<1>1. PICK m \in T : \A y \in T : ~(<<y, m>> \in StrictSubsetOrdering(Nat))
  <2>1. IsWellFoundedOn(StrictSubsetOrdering(Nat), FiniteSubsetsOf(Nat))
    BY FS_StrictSubsetOrderingWellFounded
  <2> QED BY <1>0, <2>1, WFMin
<1>2. PICK n \in Nat \ S : m = 1 .. n
  BY DEF T
<1>3. n # 0
  BY <1>2
<1>4. n - 1 \in Nat /\ 1 .. (n - 1) \subseteq 1 .. n /\ n \in 1 .. n /\ n \notin 1 .. (n - 1)
  BY <1>3
<1>5. n - 1 \notin S
  BY <1>4, <1>2
<1>6. 1 .. (n - 1) \in T
  BY <1>5, <1>4 DEF T
<1>7. <<1 .. (n - 1), m>> \in StrictSubsetOrdering(Nat)
  BY <1>4, <1>2 DEF StrictSubsetOrdering
<1> QED BY <1>7, <1>6, <1>1

(* Course-of-values induction.                                             *)
LEMMA NatInductBelow ==
  ASSUME NEW S, \A n \in Nat : (\A m \in Nat : m < n => m \in S) => n \in S
  PROVE  \A n \in Nat : n \in S
<1> DEFINE T == {n \in Nat : \A m \in Nat : m < n => m \in S}
<1>1. 0 \in T
  OBVIOUS
<1>2. ASSUME NEW n \in Nat, n \in T PROVE n + 1 \in T
  BY <1>2
<1> HIDE DEF T
<1>3. \A n \in Nat : n \in T
  BY <1>1, <1>2, NatInduct
<1> QED BY <1>3 DEF T

(* As far as n, a function that starts with a and goes on as h says.       *)
Runs(f, n, a, h) == f[0] = a /\ \A i \in 1 .. n : f[i] = h[<<f[i - 1], i>>]

LEMMA RunsUnique ==
  ASSUME NEW a, NEW h, NEW f, NEW g, NEW m \in Nat, NEW n \in Nat,
         Runs(f, m, a, h), Runs(g, n, a, h)
  PROVE  \A i \in Nat : i <= m /\ i <= n => f[i] = g[i]
<1> DEFINE S == {i \in Nat : i <= m /\ i <= n => f[i] = g[i]}
<1>1. 0 \in S
  BY DEF Runs
<1>2. ASSUME NEW i \in Nat, i \in S PROVE i + 1 \in S
  <2> SUFFICES ASSUME i + 1 <= m, i + 1 <= n PROVE f[i + 1] = g[i + 1]
    OBVIOUS
  <2>1. f[i] = g[i]
    BY <1>2
  <2>2. i + 1 \in 1 .. m /\ i + 1 \in 1 .. n /\ (i + 1) - 1 = i
    OBVIOUS
  <2>3. f[i + 1] = h[<<f[i], i + 1>>] /\ g[i + 1] = h[<<g[i], i + 1>>]
    BY <2>2 DEF Runs
  <2> QED BY <2>1, <2>3
<1> HIDE DEF S
<1>3. \A i \in Nat : i \in S
  BY <1>1, <1>2, NatInduct
<1> QED BY <1>3 DEF S

(* There is such a function on every interval, ...                         *)
LEMMA RunExists ==
  ASSUME NEW A, NEW a \in A, NEW h \in [A \X Nat -> A], NEW n \in Nat
  PROVE  \E f \in [0 .. n -> A] : Runs(f, n, a, h)
<1> DEFINE S == {k \in Nat : \E f \in [0 .. k -> A] : Runs(f, k, a, h)}
<1>1. 0 \in S
  <2>1. [i \in 0 .. 0 |-> a] \in [0 .. 0 -> A] /\ Runs([i \in 0 .. 0 |-> a], 0, a, h)
    BY DEF Runs
  <2> QED BY <2>1
<1>2. ASSUME NEW k \in Nat, k \in S PROVE k + 1 \in S
  <2>1. PICK f \in [0 .. k -> A] : Runs(f, k, a, h)
    BY <1>2
  <2> DEFINE g == [i \in 0 .. k + 1 |-> IF i = k + 1 THEN h[<<f[k], k + 1>>] ELSE f[i]]
  <2>2. h[<<f[k], k + 1>>] \in A
    OBVIOUS
  <2>3. g \in [0 .. k + 1 -> A]
    BY <2>2
  <2>4. g[0] = a
    BY <2>1 DEF Runs
  <2>5. ASSUME NEW i \in 1 .. k + 1 PROVE g[i] = h[<<g[i - 1], i>>]
    <3>1. CASE i = k + 1
      <4>1. i - 1 = k /\ k \in 0 .. k + 1 /\ k # k + 1 /\ k + 1 \in 0 .. k + 1
        BY <3>1
      <4>2. g[k] = f[k] /\ g[k + 1] = h[<<f[k], k + 1>>]
        BY <4>1
      <4> QED BY <3>1, <4>1, <4>2
    <3>2. CASE i # k + 1
      <4>1. i \in 1 .. k /\ i - 1 \in 0 .. k /\ i - 1 # k + 1
        BY <3>2
      <4>2. g[i] = f[i] /\ g[i - 1] = f[i - 1]
        BY <4>1
      <4> QED BY <2>1, <4>1, <4>2 DEF Runs
    <3> QED BY <3>1, <3>2
  <2> HIDE DEF g
  <2>6. Runs(g, k + 1, a, h)
    BY <2>4, <2>5 DEF Runs
  <2> QED BY <2>3, <2>6
<1> HIDE DEF S
<1>3. \A k \in Nat : k \in S
  BY <1>1, <1>2, NatInduct
<1> QED BY <1>3 DEF S

(* ... and one on all of Nat.                                              *)
LEMMA RunExistsOnNat ==
  ASSUME NEW A, NEW a \in A, NEW h \in [A \X Nat -> A]
  PROVE  \E f \in [Nat -> A] : \A n \in Nat : Runs(f, n, a, h)
<1> DEFINE g == [n \in Nat |-> CHOOSE r \in [0 .. n -> A] : Runs(r, n, a, h)]
           f == [n \in Nat |-> g[n][n]]
<1>1. ASSUME NEW n \in Nat PROVE g[n] \in [0 .. n -> A] /\ Runs(g[n], n, a, h)
  BY RunExists
<1> HIDE DEF g
<1>2. f \in [Nat -> A]
  BY <1>1
<1>3. ASSUME NEW n \in Nat, NEW i \in Nat, i <= n PROVE g[n][i] = f[i]
  BY <1>1, <1>3, RunsUnique
<1>4. ASSUME NEW n \in Nat PROVE Runs(f, n, a, h)
  <2>1. f[0] = a
    BY <1>1 DEF Runs
  <2>2. ASSUME NEW i \in 1 .. n PROVE f[i] = h[<<f[i - 1], i>>]
    <3>1. i \in Nat /\ i - 1 \in Nat /\ i <= n /\ i - 1 <= n
      OBVIOUS
    <3>2. g[n][i] = f[i] /\ g[n][i - 1] = f[i - 1]
      BY <1>3, <3>1
    <3>3. g[n][i] = h[<<g[n][i - 1], i>>]
      BY <1>1 DEF Runs
    <3> QED BY <3>2, <3>3
  <2> QED BY <2>1, <2>2 DEF Runs
<1> QED BY <1>2, <1>4
(* What is not empty has a least member, and below a bound a greatest.     *)
LEMMA LeastExists ==
  ASSUME NEW S \in SUBSET Nat, S # {}
  PROVE  \E m \in S : \A k \in S : m <= k
<1> SUFFICES ASSUME \A m \in S : \E k \in S : k < m PROVE FALSE
  OBVIOUS
<1> DEFINE N == {n \in Nat : n \notin S}
<1>1. \A n \in Nat : (\A m \in Nat : m < n => m \in N) => n \in N
  OBVIOUS
<1> HIDE DEF N
<1>2. \A n \in Nat : n \in N
  BY <1>1, NatInductBelow
<1> QED BY <1>2 DEF N

LEMMA GreatestExists ==
  ASSUME NEW n \in Nat, NEW S \in SUBSET (0 .. n), S # {}
  PROVE  \E m \in S : \A k \in S : k <= m
<1> DEFINE T == {n - k : k \in S}
<1>1. \A k \in S : n - k \in Nat /\ k \in Nat
  OBVIOUS
<1>2. T \in SUBSET Nat /\ T # {} /\ \A k \in S : n - k \in T
  BY <1>1
<1>3. \A m \in T : \E g \in S : m = n - g
  OBVIOUS
<1> HIDE DEF T
<1>4. PICK m \in T : \A k \in T : m <= k
  BY <1>2, LeastExists
<1>5. PICK g \in S : m = n - g
  BY <1>3
<1>6. \A k \in S : n - g <= n - k
  BY <1>2, <1>4, <1>5
<1>7. \A k \in S : k <= g
  BY <1>1, <1>6
<1> QED BY <1>7

-----------------------------------------------------------------------------
(* What is in a sequence.                                                  *)

LEMMA ToSetIn == ASSUME NEW X, NEW seq \in Seq(X) PROVE ToSet(seq) \subseteq X
  BY ElementOfSeq, LenProperties DEF ToSet

LEMMA ToSetEmpty == ToSet(<<>>) = {} /\ IsInjective(<<>>)
  BY DEF ToSet, IsInjective

LEMMA ToSetAppend ==
  ASSUME NEW X, NEW seq \in Seq(X), NEW e \in X
  PROVE  /\ ToSet(Append(seq, e)) = ToSet(seq) \cup {e}
         /\ IsInjective(seq) /\ e \notin ToSet(seq) => IsInjective(Append(seq, e))
<1> DEFINE both == Append(seq, e)
<1>1. /\ Len(seq) \in Nat /\ DOMAIN seq = 1 .. Len(seq) /\ DOMAIN both = 1 .. Len(seq) + 1
      /\ \A i \in 1 .. Len(seq) : both[i] = seq[i]
      /\ both[Len(seq) + 1] = e
  BY AppendProperties, LenProperties
<1> HIDE DEF both
<1>2. \A i \in 1 .. Len(seq) + 1 : i \in 1 .. Len(seq) \/ i = Len(seq) + 1
  BY <1>1
<1>3. ToSet(both) = ToSet(seq) \cup {e}
  <2>1. ASSUME NEW x \in ToSet(both) PROVE x \in ToSet(seq) \cup {e}
    BY <1>1, <1>2 DEF ToSet
  <2>2. ASSUME NEW x \in ToSet(seq) PROVE x \in ToSet(both)
    BY <1>1 DEF ToSet
  <2>3. e \in ToSet(both)
    BY <1>1 DEF ToSet
  <2> QED BY <2>1, <2>2, <2>3
<1>4. ASSUME IsInjective(seq), e \notin ToSet(seq) PROVE IsInjective(both)
  <2>1. \A i \in 1 .. Len(seq) : seq[i] # e
    BY <1>1, <1>4 DEF ToSet
  <2> QED BY <1>1, <1>2, <1>4, <2>1 DEF IsInjective
<1> QED BY <1>3, <1>4 DEF both

LEMMA ToSetConcat ==
  ASSUME NEW X, NEW s \in Seq(X), NEW t \in Seq(X)
  PROVE  /\ ToSet(s \o t) = ToSet(s) \cup ToSet(t)
         /\ IsInjective(s) /\ IsInjective(t) /\ ToSet(s) \cap ToSet(t) = {} => IsInjective(s \o t)
<1> DEFINE st == s \o t
<1>1. /\ Len(s) \in Nat /\ Len(t) \in Nat
      /\ DOMAIN s = 1 .. Len(s) /\ DOMAIN t = 1 .. Len(t)
      /\ DOMAIN st = 1 .. Len(s) + Len(t)
      /\ \A i \in 1 .. Len(s) : st[i] = s[i]
      /\ \A i \in 1 .. Len(s) + Len(t) : i > Len(s) => st[i] = t[i - Len(s)]
  BY ConcatProperties, LenProperties
<1> HIDE DEF st
<1>2. \A i \in 1 .. Len(t) : i + Len(s) \in 1 .. Len(s) + Len(t) /\ st[i + Len(s)] = t[i]
  BY <1>1
<1>3. \A i \in 1 .. Len(s) + Len(t) : i \in 1 .. Len(s) \/ (i > Len(s) /\ i - Len(s) \in 1 .. Len(t))
  BY <1>1
<1>4. ToSet(st) = ToSet(s) \cup ToSet(t)
  <2>1. ASSUME NEW x \in ToSet(st) PROVE x \in ToSet(s) \cup ToSet(t)
    BY <1>1, <1>3 DEF ToSet
  <2>2. ASSUME NEW x \in ToSet(s) PROVE x \in ToSet(st)
    BY <1>1 DEF ToSet
  <2>3. ASSUME NEW x \in ToSet(t) PROVE x \in ToSet(st)
    BY <1>1, <1>2 DEF ToSet
  <2> QED BY <2>1, <2>2, <2>3
<1>5. ASSUME IsInjective(s), IsInjective(t), ToSet(s) \cap ToSet(t) = {},
             NEW i \in DOMAIN st, NEW j \in DOMAIN st, st[i] = st[j]
      PROVE  i = j
  <2>1. \A m \in 1 .. Len(s), n \in 1 .. Len(t) : s[m] # t[n]
    BY <1>1, <1>5 DEF ToSet
  <2>2. CASE i \in 1 .. Len(s) /\ j \in 1 .. Len(s)
    BY <1>1, <1>5, <2>2 DEF IsInjective
  <2>3. CASE i > Len(s) /\ j > Len(s)
    <3>1. t[i - Len(s)] = t[j - Len(s)]
      BY <1>1, <1>5, <2>3
    <3>2. i - Len(s) = j - Len(s)
      BY <1>1, <1>3, <1>5, <2>3, <3>1 DEF IsInjective
    <3> QED BY <1>1, <3>2
  <2>4. CASE i \in 1 .. Len(s) /\ j > Len(s)
    BY <1>1, <1>3, <1>5, <2>1, <2>4
  <2>5. CASE i > Len(s) /\ j \in 1 .. Len(s)
    BY <1>1, <1>3, <1>5, <2>1, <2>5
  <2> QED BY <1>1, <1>3, <2>2, <2>3, <2>4, <2>5
<1> QED BY <1>4, <1>5 DEF st, IsInjective

(* The loop over a container's children, turn by turn.                     *)
OnlyRun(g, ids, set) ==
  /\ g[0] = <<>> /\ Only(ids, set) = g[Len(ids)]
  /\ \A n \in Nat : n + 1 <= Len(ids) =>
       g[n + 1] = IF ids[n + 1] \in set THEN Append(g[n], ids[n + 1]) ELSE g[n]

LEMMA OnlyRuns ==
  ASSUME NEW X, NEW ids \in Seq(X), NEW set
  PROVE  \E g : OnlyRun(g, ids, set)
<1> DEFINE a == <<>>
           A == Seq(X \cap set)
           len == Len(ids)
           Turn(seq, n) == IF ids[n] \in set THEN Append(seq, ids[n]) ELSE seq
           h == [p \in A \X Nat |-> IF p[2] \in 1 .. len THEN Turn(p[1], p[2]) ELSE p[1]]
<1>1. len \in Nat /\ DOMAIN ids = 1 .. len /\ \A n \in 1 .. len : ids[n] \in X
  BY LenProperties, ElementOfSeq
<1>2. a \in A
  BY EmptySeq
<1>3. h \in [A \X Nat -> A]
  <2>1. ASSUME NEW p \in A \X Nat PROVE (IF p[2] \in 1 .. len THEN Turn(p[1], p[2]) ELSE p[1]) \in A
    <3>1. p[1] \in A /\ p[2] \in Nat
      OBVIOUS
    <3>2. CASE p[2] \in 1 .. len /\ ids[p[2]] \in set
      <4>1. ids[p[2]] \in X \cap set
        BY <1>1, <3>2
      <4>2. Append(p[1], ids[p[2]]) \in A
        BY <3>1, <4>1, AppendProperties
      <4> QED BY <3>2, <4>2
    <3> QED BY <3>1, <3>2
  <2> QED BY <2>1
<1> HIDE DEF h
<1>4. PICK f \in [0 .. len -> A] : Runs(f, len, a, h)
  BY <1>1, <1>2, <1>3, RunExists
<1>5. \A n \in 1 .. len : f[n] = Turn(f[n - 1], n)
  <2> SUFFICES ASSUME NEW n \in 1 .. len PROVE f[n] = Turn(f[n - 1], n)
    OBVIOUS
  <2>1. n - 1 \in 0 .. len /\ n \in Nat
    BY <1>1
  <2>2. f[n - 1] \in A
    BY <2>1
  <2>3. f[n] = h[<<f[n - 1], n>>]
    BY <1>4 DEF Runs
  <2> QED BY <2>1, <2>2, <2>3 DEF h
<1>6. f = [n \in 0 .. len |-> IF n = 0 THEN <<>>
                              ELSE IF ids[n] \in set THEN Append(f[n - 1], ids[n]) ELSE f[n - 1]]
  <2>1. f[0] = <<>>
    BY <1>4 DEF Runs
  <2>2. \A n \in 0 .. len : n = 0 \/ n \in 1 .. len
    BY <1>1
  <2> QED BY <1>5, <2>1, <2>2
<1> DEFINE g == CHOOSE only : only = [n \in 0 .. Len(ids) |->
                    IF n = 0 THEN <<>>
                    ELSE IF ids[n] \in set THEN Append(only[n - 1], ids[n]) ELSE only[n - 1]]
<1>7. Only(ids, set) = g[len]
  BY Zenon DEF Only
<1>8. g = [n \in 0 .. len |-> IF n = 0 THEN <<>>
                              ELSE IF ids[n] \in set THEN Append(g[n - 1], ids[n]) ELSE g[n - 1]]
  BY <1>6
<1> HIDE DEF g
<1>8a. g[0] = <<>>
  BY <1>1, <1>8
<1>8b. ASSUME NEW n \in Nat, n + 1 <= len
       PROVE  g[n + 1] = IF ids[n + 1] \in set THEN Append(g[n], ids[n + 1]) ELSE g[n]
  <2>1. n + 1 \in 0 .. len /\ n + 1 # 0 /\ (n + 1) - 1 = n
    BY <1>1, <1>8b
  <2> QED BY <1>8, <2>1
<1> QED BY <1>7, <1>8a, <1>8b DEF OnlyRun

(* It collects those in a set, each as often as it is there,               *)
LEMMA OnlyCollects ==
  ASSUME NEW X, NEW ids \in Seq(X), NEW set
  PROVE  /\ Only(ids, set) \in Seq(X \cap set)
         /\ ToSet(Only(ids, set)) = ToSet(ids) \cap set
         /\ IsInjective(ids) => IsInjective(Only(ids, set))
<1>1. PICK len : len = Len(ids)
  OBVIOUS
<1>2. len \in Nat /\ DOMAIN ids = 1 .. len /\ \A n \in 1 .. len : ids[n] \in X
  BY <1>1, LenProperties, ElementOfSeq
<1>3. PICK g : OnlyRun(g, ids, set)
  BY OnlyRuns
<1>4. ASSUME NEW n \in Nat, n + 1 <= len
      PROVE  g[n + 1] = IF ids[n + 1] \in set THEN Append(g[n], ids[n + 1]) ELSE g[n]
  BY <1>1, <1>3, <1>4 DEF OnlyRun
<1> DEFINE Good(n) == /\ g[n] \in Seq(X \cap set)
                      /\ ToSet(g[n]) = {ids[i] : i \in 1 .. n} \cap set
                      /\ IsInjective(ids) => IsInjective(g[n])
           S == {n \in Nat : n <= len => Good(n)}
<1>9. 0 \in S
  <2>1. {ids[i] : i \in 1 .. 0} = {}
    OBVIOUS
  <2> QED BY <1>3, <2>1, ToSetEmpty, EmptySeq DEF OnlyRun
<1>10. ASSUME NEW n \in Nat, n \in S PROVE n + 1 \in S
  <2> SUFFICES ASSUME n + 1 <= len PROVE Good(n + 1)
    OBVIOUS
  <2>1. Good(n) /\ n + 1 <= len /\ n \in 0 .. len /\ n + 1 \in 1 .. len /\ n + 1 \in 0 .. len /\ (n + 1) - 1 = n
    BY <1>2, <1>10
  <2>2. {ids[i] : i \in 1 .. n + 1} = {ids[i] : i \in 1 .. n} \cup {ids[n + 1]}
    BY <1>2, <2>1
  <2>3. CASE ids[n + 1] \notin set
    <3>1. g[n + 1] = g[n]
      BY <1>4, <2>1, <2>3
    <3> QED BY <2>1, <2>2, <2>3, <3>1
  <2>4. CASE ids[n + 1] \in set
    <3>1. g[n + 1] = Append(g[n], ids[n + 1])
      BY <1>4, <2>1, <2>4
    <3>2. ids[n + 1] \in X \cap set
      BY <1>2, <2>1, <2>4
    <3>3. IsInjective(ids) => ids[n + 1] \notin {ids[i] : i \in 1 .. n}
      BY <1>2, <2>1 DEF IsInjective
    <3>4. /\ Append(g[n], ids[n + 1]) \in Seq(X \cap set)
          /\ ToSet(Append(g[n], ids[n + 1])) = ToSet(g[n]) \cup {ids[n + 1]}
          /\ IsInjective(g[n]) /\ ids[n + 1] \notin ToSet(g[n]) => IsInjective(Append(g[n], ids[n + 1]))
      BY <2>1, <3>2, ToSetAppend, AppendProperties
    <3> QED BY <2>1, <2>2, <2>4, <3>1, <3>3, <3>4
  <2> QED BY <2>3, <2>4
<1> HIDE DEF S
<1>11. len \in S
  BY <1>2, <1>9, <1>10, NatInduct
<1>12. Good(len)
  BY <1>2, <1>11 DEF S
<1>13. ToSet(ids) = {ids[i] : i \in 1 .. len}
  BY <1>2 DEF ToSet
<1> QED BY <1>1, <1>3, <1>12, <1>13 DEF OnlyRun

(* and in the order they are in.                                           *)
InOrderOf(picked, ids, n) ==
  /\ \A i \in 1 .. Len(picked) : \E a \in 1 .. n : picked[i] = ids[a]
  /\ \A i, j \in 1 .. Len(picked) : i < j =>
       \E a, b \in 1 .. n : a < b /\ picked[i] = ids[a] /\ picked[j] = ids[b]

LEMMA OrderGrows ==
  ASSUME NEW X, NEW picked \in Seq(X), NEW n \in Nat, NEW ids, ids[n + 1] \in X,
         InOrderOf(picked, ids, n)
  PROVE  InOrderOf(picked, ids, n + 1) /\ InOrderOf(Append(picked, ids[n + 1]), ids, n + 1)
<1>1. PICK k, more : k = Len(picked) /\ more = Append(picked, ids[n + 1])
  OBVIOUS
<1>2. /\ k \in Nat /\ Len(more) = k + 1 /\ more[k + 1] = ids[n + 1]
      /\ \A i \in 1 .. k : more[i] = picked[i]
  BY <1>1, AppendProperties, LenProperties
<1>3. \A a \in 1 .. n : a \in 1 .. n + 1 /\ a < n + 1
  OBVIOUS
<1>4. /\ \A i \in 1 .. k : \E a \in 1 .. n : picked[i] = ids[a]
      /\ \A i, j \in 1 .. k : i < j =>
           \E a, b \in 1 .. n : a < b /\ picked[i] = ids[a] /\ picked[j] = ids[b]
  BY <1>1 DEF InOrderOf
<1>5. InOrderOf(picked, ids, n + 1)
  BY <1>1, <1>3, <1>4 DEF InOrderOf
<1>6. \A i \in 1 .. k + 1 : i \in 1 .. k \/ i = k + 1
  BY <1>2
<1>7. \A i \in 1 .. k + 1 : \E a \in 1 .. n + 1 : more[i] = ids[a]
  <2> SUFFICES ASSUME NEW i \in 1 .. k + 1 PROVE \E a \in 1 .. n + 1 : more[i] = ids[a]
    OBVIOUS
  <2>1. CASE i \in 1 .. k
    <3>1. PICK a \in 1 .. n : picked[i] = ids[a]
      BY <1>4, <2>1
    <3>2. a \in 1 .. n + 1 /\ more[i] = ids[a]
      BY <1>2, <2>1, <3>1
    <3> QED BY <3>2
  <2>2. CASE i = k + 1
    <3>1. n + 1 \in 1 .. n + 1
      OBVIOUS
    <3> QED BY <1>2, <2>2, <3>1
  <2> QED BY <1>6, <2>1, <2>2
<1>8. ASSUME NEW i \in 1 .. k + 1, NEW j \in 1 .. k + 1, i < j
      PROVE  \E a, b \in 1 .. n + 1 : a < b /\ more[i] = ids[a] /\ more[j] = ids[b]
  <2>1. i \in 1 .. k
    BY <1>2, <1>8
  <2>2. CASE j \in 1 .. k
    <3>1. PICK a, b \in 1 .. n : a < b /\ picked[i] = ids[a] /\ picked[j] = ids[b]
      BY <1>4, <1>8, <2>1, <2>2
    <3>2. a \in 1 .. n + 1 /\ b \in 1 .. n + 1 /\ more[i] = ids[a] /\ more[j] = ids[b]
      BY <1>2, <2>1, <2>2, <3>1
    <3> QED BY <3>1, <3>2
  <2>3. CASE j = k + 1
    <3>1. PICK a \in 1 .. n : picked[i] = ids[a]
      BY <1>4, <2>1
    <3>2. a \in 1 .. n + 1 /\ n + 1 \in 1 .. n + 1 /\ a < n + 1
      OBVIOUS
    <3> QED BY <1>2, <2>1, <2>3, <3>1, <3>2
  <2> QED BY <1>6, <2>2, <2>3
<1>9. InOrderOf(more, ids, n + 1)
  BY <1>2, <1>7, <1>8 DEF InOrderOf
<1> QED BY <1>1, <1>5, <1>9

LEMMA OnlyOrders ==
  ASSUME NEW X, NEW ids \in Seq(X), NEW set
  PROVE  InOrderOf(Only(ids, set), ids, Len(ids))
<1>1. PICK len : len = Len(ids)
  OBVIOUS
<1>2. len \in Nat /\ \A n \in 1 .. len : ids[n] \in X
  BY <1>1, LenProperties, ElementOfSeq
<1>3. PICK g : OnlyRun(g, ids, set)
  BY OnlyRuns
<1> DEFINE Good(n) == g[n] \in Seq(X) /\ InOrderOf(g[n], ids, n)
           S == {n \in Nat : n <= len => Good(n)}
<1>4. 0 \in S
  <2>1. g[0] = <<>>
    BY <1>3 DEF OnlyRun
  <2>2. Len(g[0]) = 0 /\ g[0] \in Seq(X)
    BY <2>1, EmptySeq
  <2>3. InOrderOf(g[0], ids, 0)
    BY <2>2 DEF InOrderOf
  <2> QED BY <2>2, <2>3
<1>5. ASSUME NEW n \in Nat, n \in S PROVE n + 1 \in S
  <2> SUFFICES ASSUME n + 1 <= len PROVE Good(n + 1)
    OBVIOUS
  <2>1. g[n] \in Seq(X) /\ InOrderOf(g[n], ids, n) /\ n + 1 \in 1 .. len
    BY <1>2, <1>5
  <2>2. ids[n + 1] \in X
    BY <1>2, <2>1
  <2>3. InOrderOf(g[n], ids, n + 1) /\ InOrderOf(Append(g[n], ids[n + 1]), ids, n + 1)
    BY <2>1, <2>2, OrderGrows
  <2>4. Append(g[n], ids[n + 1]) \in Seq(X)
    BY <2>1, <2>2, AppendProperties
  <2>5. g[n + 1] = IF ids[n + 1] \in set THEN Append(g[n], ids[n + 1]) ELSE g[n]
    BY <1>1, <1>3 DEF OnlyRun
  <2> QED BY <2>1, <2>3, <2>4, <2>5
<1> HIDE DEF S
<1>6. len \in S
  BY <1>2, <1>4, <1>5, NatInduct
<1>7. InOrderOf(g[len], ids, len)
  BY <1>2, <1>6 DEF S
<1> QED BY <1>1, <1>3, <1>7 DEF OnlyRun

-----------------------------------------------------------------------------
(* Positions in a sequence.                                                *)

LEMMA MinIs ==
  ASSUME NEW S \in SUBSET Nat, NEW j \in S, \A k \in S : j <= k
  PROVE  S # {} /\ Min(S) = j
<1>1. \A m \in S : (\A k \in S : m <= k) => m = j
  OBVIOUS
<1>2. Min(S) \in S /\ \A k \in S : Min(S) <= k
  <2>1. \E m \in S : \A k \in S : m <= k
    OBVIOUS
  <2> QED BY <2>1 DEF Min
<1> QED BY <1>1, <1>2

LEMMA MaxIs ==
  ASSUME NEW S \in SUBSET Nat, NEW j \in S, \A k \in S : k <= j
  PROVE  S # {} /\ Max(S) = j
<1>1. \A m \in S : (\A k \in S : k <= m) => m = j
  OBVIOUS
<1>2. Max(S) \in S /\ \A k \in S : k <= Max(S)
  <2>1. \E m \in S : \A k \in S : k <= m
    OBVIOUS
  <2> QED BY <2>1 DEF Max
<1> QED BY <1>1, <1>2

LEMMA ConcatIs ==
  ASSUME NEW X, NEW s \in Seq(X), NEW t \in Seq(X)
  PROVE  /\ s \o t \in Seq(X) /\ Len(s \o t) = Len(s) + Len(t)
         /\ Len(s) \in Nat /\ Len(t) \in Nat
         /\ \A i \in 1 .. Len(s) : (s \o t)[i] = s[i]
         /\ \A i \in 1 .. Len(t) : (s \o t)[Len(s) + i] = t[i]
<1>1. Len(s) \in Nat /\ Len(t) \in Nat
  BY LenProperties
<1>2. /\ s \o t \in Seq(X) /\ Len(s \o t) = Len(s) + Len(t)
      /\ \A i \in 1 .. Len(s) + Len(t) :
           (s \o t)[i] = IF i <= Len(s) THEN s[i] ELSE t[i - Len(s)]
  BY ConcatProperties
<1> DEFINE st == s \o t
<1> HIDE DEF st
<1>3. \A i \in 1 .. Len(s) : st[i] = s[i]
  BY <1>1, <1>2 DEF st
<1>4. ASSUME NEW i \in 1 .. Len(t) PROVE st[Len(s) + i] = t[i]
  <2>1. Len(s) + i \in 1 .. Len(s) + Len(t) /\ ~(Len(s) + i <= Len(s)) /\ Len(s) + i - Len(s) = i
    BY <1>1
  <2> QED BY <1>2, <2>1 DEF st
<1> QED BY <1>1, <1>2, <1>3, <1>4 DEF st

LEMMA Between ==
  ASSUME NEW o \in Nat, NEW p \in Nat, NEW j, j = o + p + 1, NEW k \in o + 1 .. j - 1
  PROVE  k - o \in 1 .. p /\ o + (k - o) = k
  OBVIOUS

LEMMA TupleIs ==
  ASSUME NEW n \in Nat, NEW S, NEW s \in [1 .. n -> S]
  PROVE  s \in Seq(S) /\ Len(s) = n
  OBVIOUS

LEMMA SeqsEqual ==
  ASSUME NEW X, NEW s \in Seq(X), NEW Y, NEW t \in Seq(Y), Len(s) = Len(t),
         \A i \in 1 .. Len(s) : s[i] = t[i]
  PROVE  s = t
<1>1. s \in [1 .. Len(s) -> X] /\ t \in [1 .. Len(s) -> Y]
  BY LenProperties
<1> QED BY <1>1

-----------------------------------------------------------------------------
(* Joining.                                                                *)

(* What is joined of the first i pieces.                                   *)
Joins(F, seqs, X) ==
  /\ F[0] = <<>>
  /\ \A i \in 1 .. Len(seqs) : F[i] = F[i - 1] \o seqs[i]
  /\ \A i \in 0 .. Len(seqs) : F[i] \in Seq(X)
  /\ FlattenSeq(seqs) = F[Len(seqs)]

LEMMA FlattenJoins ==
  ASSUME NEW X, NEW seqs \in Seq(Seq(X))
  PROVE  \E F : Joins(F, seqs, X)
<1> DEFINE len == Len(seqs)
           A == Seq(X)
           a == <<>>
           h == [p \in A \X Nat |-> IF p[2] \in 1 .. len THEN p[1] \o seqs[p[2]] ELSE p[1]]
<1>1. len \in Nat /\ \A i \in 1 .. len : seqs[i] \in A
  BY LenProperties, ElementOfSeq
<1>2. a \in A
  BY EmptySeq
<1>3. h \in [A \X Nat -> A]
  <2>1. ASSUME NEW p \in A \X Nat
        PROVE  (IF p[2] \in 1 .. len THEN p[1] \o seqs[p[2]] ELSE p[1]) \in A
    <3>1. p[1] \in A
      OBVIOUS
    <3>2. CASE p[2] \in 1 .. len
      <4>1. seqs[p[2]] \in A
        BY <1>1, <3>2
      <4>2. p[1] \o seqs[p[2]] \in A
        BY <3>1, <4>1, ConcatProperties
      <4> QED BY <3>2, <4>2
    <3> QED BY <3>1, <3>2
  <2> QED BY <2>1
<1> HIDE DEF h
<1>4. PICK F \in [0 .. len -> A] : Runs(F, len, a, h)
  BY <1>1, <1>2, <1>3, RunExists
<1>5. ASSUME NEW i \in 1 .. len PROVE F[i] = F[i - 1] \o seqs[i]
  <2>1. i - 1 \in 0 .. len /\ i \in Nat
    BY <1>1
  <2>2. F[i - 1] \in A
    BY <2>1
  <2>3. F[i] = h[<<F[i - 1], i>>]
    BY <1>4 DEF Runs
  <2> QED BY <2>1, <2>2, <2>3 DEF h
<1>6. F[0] = <<>> /\ \A i \in 0 .. len : F[i] \in A
  BY <1>4 DEF Runs
<1>7. FlattenSeq(seqs) = F[len]
  <2>1. CASE len = 0
    <3>1. seqs = <<>>
      BY <2>1, EmptySeq
    <3> QED BY <1>6, <2>1, <3>1 DEF FlattenSeq
  <2>2. CASE len # 0
    <3> DEFINE g == CHOOSE flatten : flatten = [i \in 1 .. Len(seqs) |->
                      IF i = 1 THEN seqs[i] ELSE flatten[i - 1] \o seqs[i]]
               f == [i \in 1 .. len |-> F[i]]
    <3>1. FlattenSeq(seqs) = g[len]
      BY <2>2 DEF FlattenSeq
    <3>2. f = [i \in 1 .. len |-> IF i = 1 THEN seqs[i] ELSE f[i - 1] \o seqs[i]]
      <4>1. ASSUME NEW i \in 1 .. len
            PROVE  f[i] = IF i = 1 THEN seqs[i] ELSE f[i - 1] \o seqs[i]
        <5>1. CASE i = 1
          <6>0. i - 1 = 0 /\ f[i] = F[i]
            BY <5>1
          <6>1. seqs[1] \in A /\ f[i] = F[0] \o seqs[1]
            BY <1>1, <1>5, <5>1, <6>0
          <6>2. <<>> \o seqs[1] = seqs[1]
            BY <6>1, ConcatEmptySeq
          <6> QED BY <1>6, <5>1, <6>1, <6>2
        <5>2. CASE i # 1
          <6>1. i - 1 \in 1 .. len
            BY <1>1, <5>2
          <6> QED BY <1>5, <5>2, <6>1
        <5> QED BY <5>1, <5>2
      <4> QED BY <4>1
    <3> HIDE DEF f
    <3>3. g = [i \in 1 .. len |-> IF i = 1 THEN seqs[i] ELSE g[i - 1] \o seqs[i]]
      BY <3>2
    <3> HIDE DEF g
    <3> DEFINE S == {i \in Nat : i + 1 <= len => g[i + 1] = F[i + 1]}
    <3>4. 0 \in S
      <4> SUFFICES ASSUME 1 <= len PROVE g[1] = F[1]
        OBVIOUS
      <4>1. 1 \in 1 .. len /\ 1 - 1 = 0
        BY <1>1
      <4>2. seqs[1] \in A /\ F[1] = F[0] \o seqs[1] /\ g[1] = seqs[1]
        BY <1>1, <1>5, <3>3, <4>1
      <4>3. <<>> \o seqs[1] = seqs[1]
        BY <4>2, ConcatEmptySeq
      <4> QED BY <1>6, <4>2, <4>3
    <3>5. ASSUME NEW i \in Nat, i \in S PROVE i + 1 \in S
      <4> SUFFICES ASSUME (i + 1) + 1 <= len PROVE g[(i + 1) + 1] = F[(i + 1) + 1]
        OBVIOUS
      <4>1. /\ (i + 1) + 1 \in 1 .. len /\ (i + 1) + 1 # 1 /\ ((i + 1) + 1) - 1 = i + 1
            /\ i + 1 <= len
        BY <1>1
      <4>2. g[i + 1] = F[i + 1]
        BY <3>5, <4>1
      <4>3. PICK j : j = (i + 1) + 1
        OBVIOUS
      <4>4. j \in 1 .. len /\ j # 1 /\ j - 1 = i + 1
        BY <4>1, <4>3
      <4>5. g[j] = g[j - 1] \o seqs[j] /\ F[j] = F[j - 1] \o seqs[j]
        BY <1>5, <3>3, <4>4
      <4> QED BY <4>2, <4>3, <4>4, <4>5
    <3> HIDE DEF S
    <3>6. len - 1 \in Nat
      BY <1>1, <2>2
    <3>7. len - 1 \in S
      BY <3>4, <3>5, <3>6, NatInduct
    <3>8. (len - 1) + 1 = len /\ len <= len
      BY <1>1
    <3> QED BY <3>1, <3>6, <3>7, <3>8 DEF S
  <2> QED BY <2>1, <2>2
<1> QED BY <1>5, <1>6, <1>7 DEF Joins
=============================================================================
