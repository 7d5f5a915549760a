------------------------- MODULE LibraryViewsProofs -------------------------
(***************************************************************************)
(* What the views list, whatever index a scan has left: every container a  *)
(* view lists can be opened and has as many children as it was listed      *)
(* with, each child names the container it is listed in as its parent, and *)
(* every track listed can be asked for by its own id.                      *)
(***************************************************************************)
EXTENDS LibraryViews, NatRecursion, SequenceTheorems, FiniteSetTheorems, TLAPS

-----------------------------------------------------------------------------
(* Sorting.  Keys of one length are ordered, part by part.                 *)

KeysOf(n) == [1 .. n -> Int]

LEMMA LessIrreflexive ==
  ASSUME NEW n \in Nat, NEW k \in KeysOf(n)
  PROVE  ~Less(k, k)
<1>1. \A m \in DOMAIN k : k[m] \in Int
  BY DEF KeysOf
<1> QED BY <1>1 DEF Less

LEMMA LessTransitive ==
  ASSUME NEW n \in Nat, NEW k \in KeysOf(n), NEW l \in KeysOf(n), NEW p \in KeysOf(n),
         Less(k, l), Less(l, p)
  PROVE  Less(k, p)
<1>0. /\ DOMAIN k = 1 .. n /\ DOMAIN l = 1 .. n /\ DOMAIN p = 1 .. n
      /\ \A m \in 1 .. n : k[m] \in Int /\ l[m] \in Int /\ p[m] \in Int
  BY DEF KeysOf
<1>1. PICK a \in 1 .. n : k[a] < l[a] /\ \A m \in 1 .. a - 1 : k[m] = l[m]
  BY <1>0 DEF Less
<1>2. PICK b \in 1 .. n : l[b] < p[b] /\ \A m \in 1 .. b - 1 : l[m] = p[m]
  BY <1>0 DEF Less
<1>3. CASE a < b
  <2>1. a \in 1 .. b - 1 /\ \A m \in 1 .. a - 1 : m \in 1 .. b - 1
    BY <1>3
  <2>2. k[a] < p[a] /\ \A m \in 1 .. a - 1 : k[m] = p[m]
    BY <1>0, <1>1, <1>2, <2>1
  <2> QED BY <1>0, <2>2 DEF Less
<1>4. CASE b < a
  <2>1. b \in 1 .. a - 1 /\ \A m \in 1 .. b - 1 : m \in 1 .. a - 1
    BY <1>4
  <2>2. k[b] < p[b] /\ \A m \in 1 .. b - 1 : k[m] = p[m]
    BY <1>0, <1>1, <1>2, <2>1
  <2> QED BY <1>0, <2>2 DEF Less
<1>5. CASE a = b
  <2>1. k[a] < p[a] /\ \A m \in 1 .. a - 1 : k[m] = p[m]
    BY <1>0, <1>1, <1>2, <1>5
  <2> QED BY <1>0, <2>1 DEF Less
<1> QED BY <1>3, <1>4, <1>5

LEMMA LessTotal ==
  ASSUME NEW n \in Nat, NEW k \in KeysOf(n), NEW l \in KeysOf(n)
  PROVE  k = l \/ Less(k, l) \/ Less(l, k)
<1> SUFFICES ASSUME k # l PROVE Less(k, l) \/ Less(l, k)
  OBVIOUS
<1>0. /\ k \in [1 .. n -> Int] /\ l \in [1 .. n -> Int]
      /\ \A m \in 1 .. n : k[m] \in Int /\ l[m] \in Int
  BY DEF KeysOf
<1> DEFINE D == {m \in 1 .. n : k[m] # l[m]}
<1>1. D \in SUBSET Nat /\ D # {}
  <2>1. \E m \in 1 .. n : k[m] # l[m]
    <3> SUFFICES ASSUME \A m \in 1 .. n : k[m] = l[m] PROVE k = l
      OBVIOUS
    <3> QED BY <1>0
  <2> QED BY <2>1
<1>2. PICK a \in D : \A m \in D : a <= m
  BY <1>1, LeastExists
<1>3. a \in 1 .. n /\ \A m \in 1 .. a - 1 : k[m] = l[m]
  <2>1. a \in 1 .. n
    OBVIOUS
  <2>2. ASSUME NEW m \in 1 .. a - 1 PROVE k[m] = l[m]
    <3>1. m \in 1 .. n /\ ~(a <= m)
      BY <2>1
    <3> QED BY <1>2, <3>1
  <2> QED BY <2>1, <2>2
<1>4. k[a] < l[a] \/ l[a] < k[a]
  BY <1>0, <1>3
<1>5. DOMAIN k = 1 .. n /\ DOMAIN l = 1 .. n
  BY <1>0
<1> HIDE DEF D
<1> QED BY <1>3, <1>4, <1>5 DEF Less

(* What stands before nothing: no key is less than its.                    *)
LEMMA MinimalExists ==
  ASSUME NEW n \in Nat, NEW S, IsFiniteSet(S), S # {}, NEW key \in [S -> KeysOf(n)]
  PROVE  \E m \in S : \A x \in S : ~Less(key[x], key[m])
<1> DEFINE Has(A) == \E m \in A : \A x \in A : ~Less(key[x], key[m])
           T == {c \in Nat : \A A \in SUBSET S : Cardinality(A) = c + 1 => Has(A)}
<1>0. \A A \in SUBSET S : IsFiniteSet(A) /\ Cardinality(A) \in Nat
  BY FS_Subset, FS_CardinalityType
<1>1. 0 \in T
  <2> SUFFICES ASSUME NEW A \in SUBSET S, Cardinality(A) = 1 PROVE Has(A)
    OBVIOUS
  <2>1. PICK m : A = {m}
    BY <1>0, FS_Singleton
  <2>2. m \in S /\ key[m] \in KeysOf(n)
    BY <2>1
  <2>3. ~Less(key[m], key[m])
    BY <2>2, LessIrreflexive
  <2> QED BY <2>1, <2>3
<1>2. ASSUME NEW c \in Nat, c \in T PROVE c + 1 \in T
  <2> SUFFICES ASSUME NEW A \in SUBSET S, Cardinality(A) = (c + 1) + 1 PROVE Has(A)
    OBVIOUS
  <2>1. A # {}
    BY <1>0, FS_EmptySet
  <2>2. PICK y \in A : TRUE
    BY <2>1
  <2>3. A \ {y} \in SUBSET S /\ Cardinality(A \ {y}) = c + 1
    BY <1>0, <2>2, FS_RemoveElement
  <2>4. Has(A \ {y})
    BY <1>2, <2>3
  <2>5. PICK m \in A \ {y} : \A x \in A \ {y} : ~Less(key[x], key[m])
    BY <2>4
  <2>6. /\ key[m] \in KeysOf(n) /\ key[y] \in KeysOf(n)
        /\ \A x \in A : key[x] \in KeysOf(n)
    BY <2>2, <2>5
  <2>7. CASE ~Less(key[y], key[m])
    BY <2>5, <2>7
  <2>8. CASE Less(key[y], key[m])
    <3>1. ASSUME NEW x \in A, Less(key[x], key[y]) PROVE FALSE
      <4>1. x # y
        BY <2>6, <3>1, LessIrreflexive
      <4>2. Less(key[x], key[m])
        BY <2>6, <2>8, <3>1, LessTransitive
      <4> QED BY <2>5, <4>1, <4>2
    <3> QED BY <2>2, <3>1
  <2> QED BY <2>7, <2>8
<1> HIDE DEF T
<1>3. \A c \in Nat : c \in T
  BY <1>1, <1>2, NatInduct
<1>4. Cardinality(S) - 1 \in Nat /\ (Cardinality(S) - 1) + 1 = Cardinality(S)
  BY <1>0, FS_EmptySet
<1>5. Cardinality(S) - 1 \in T
  BY <1>3, <1>4
<1> QED BY <1>4, <1>5 DEF T

(* Entries out of a map come out sorted, each once; there is such an order.*)
LEMMA SortedIs ==
  ASSUME NEW S, IsFiniteSet(S), NEW K, NEW key \in [S -> K],
         NEW seq \in SortedAnyhow(key)
  PROVE  /\ seq \in Seq(S) /\ Len(seq) = Cardinality(S)
         /\ \A i, j \in 1 .. Len(seq) : i # j => seq[i] # seq[j]
<1>1. DOMAIN key = S
  OBVIOUS
<1>2. /\ seq \in [1 .. Cardinality(S) -> S]
      /\ \A i, j \in 1 .. Cardinality(S) : i # j => seq[i] # seq[j]
  BY <1>1 DEF SortedAnyhow, SetToSeqs
<1>3. Cardinality(S) \in Nat
  BY FS_CardinalityType
<1>4. seq \in Seq(S) /\ Len(seq) = Cardinality(S)
  BY <1>2, <1>3, TupleIs
<1> QED BY <1>2, <1>4

(* Nothing is left out.                                                    *)
LEMMA SortedAll ==
  ASSUME NEW S, IsFiniteSet(S), NEW n, NEW key \in [S -> KeysOf(n)],
         NEW seq \in SortedAnyhow(key), NEW e \in S
  PROVE  \E i \in 1 .. Len(seq) : seq[i] = e
<1>1. PICK K, c, D : K = KeysOf(n) /\ c = Cardinality(S) /\ D = 1 .. c
  OBVIOUS
<1>2. seq \in Seq(S) /\ Len(seq) = c /\ \A i, j \in 1 .. Len(seq) : i # j => seq[i] # seq[j]
  BY <1>1, SortedIs
<1>3. c \in Nat /\ IsFiniteSet(D) /\ Cardinality(D) = c
  <2>1. c \in Nat
    BY <1>1, FS_CardinalityType
  <2>2. PICK one : one = 1
    OBVIOUS
  <2>3. IsFiniteSet(one .. c) /\ Cardinality(one .. c) = IF one > c THEN 0 ELSE c - one + 1
    BY <2>1, <2>2, FS_Interval
  <2> QED BY <1>1, <2>1, <2>2, <2>3
<1>4. seq \in Injection(D, S)
  <2>1. seq \in [D -> S]
    BY <1>1, <1>2, LenProperties
  <2> QED BY <1>1, <1>2, <2>1 DEF Injection, IsInjective
<1>5. seq \in Surjection(D, S)
  BY <1>1, <1>3, <1>4, FS_Injection
<1>6. \E i \in D : seq[i] = e
  BY <1>5 DEF Surjection
<1> QED BY <1>1, <1>2, <1>6

SortedBy(seq, key, A) ==
  /\ seq \in [1 .. Cardinality(A) -> A]
  /\ \A i, j \in 1 .. Cardinality(A) : i # j => seq[i] # seq[j]
  /\ \A i \in 2 .. Cardinality(A) : ~Less(key[seq[i]], key[seq[i - 1]])

LEMMA SortedExists ==
  ASSUME NEW n \in Nat, NEW S, IsFiniteSet(S), NEW key \in [S -> KeysOf(n)]
  PROVE  SortedAnyhow(key) # {}
<1> DEFINE T == {c \in Nat : \A A \in SUBSET S : Cardinality(A) = c => \E seq : SortedBy(seq, key, A)}
<1>0. \A A \in SUBSET S : IsFiniteSet(A) /\ Cardinality(A) \in Nat
  BY FS_Subset, FS_CardinalityType
<1>1. 0 \in T
  <2> SUFFICES ASSUME NEW A \in SUBSET S, Cardinality(A) = 0 PROVE \E seq : SortedBy(seq, key, A)
    OBVIOUS
  <2>1. [i \in 1 .. 0 |-> i] \in [1 .. 0 -> A]
    OBVIOUS
  <2>2. SortedBy([i \in 1 .. 0 |-> i], key, A)
    BY <2>1 DEF SortedBy
  <2> QED BY <2>2
<1>2. ASSUME NEW c \in Nat, c \in T PROVE c + 1 \in T
  <2> SUFFICES ASSUME NEW A \in SUBSET S, Cardinality(A) = c + 1
               PROVE  \E seq : SortedBy(seq, key, A)
    OBVIOUS
  <2>1. A # {}
    BY <1>0, FS_EmptySet
  <2>2. PICK m \in A : \A x \in A : ~Less(key[x], key[m])
    <3>1. [x \in A |-> key[x]] \in [A -> KeysOf(n)]
      OBVIOUS
    <3>2. \E m \in A : \A x \in A : ~Less([y \in A |-> key[y]][x], [y \in A |-> key[y]][m])
      BY <1>0, <2>1, <3>1, MinimalExists
    <3> QED BY <3>2
  <2> DEFINE B == A \ {m}
  <2>3. B \in SUBSET S /\ Cardinality(B) = c
    <3>1. m \in A /\ IsFiniteSet(A)
      BY <1>0, <2>2
    <3>2. Cardinality(B) = Cardinality(A) - 1
      BY <3>1, FS_RemoveElement
    <3> QED BY <3>2
  <2> HIDE DEF B
  <2>4. PICK t : SortedBy(t, key, B)
    BY <1>2, <2>3
  <2> DEFINE seq == [i \in 1 .. c + 1 |-> IF i = 1 THEN m ELSE t[i - 1]]
  <2>5. ASSUME NEW i \in 2 .. c + 1 PROVE i - 1 \in 1 .. c /\ seq[i] = t[i - 1] /\ seq[i] \in B
    <3>1. i - 1 \in 1 .. c /\ i \in 1 .. c + 1 /\ i # 1
      OBVIOUS
    <3> QED BY <2>3, <2>4, <3>1 DEF SortedBy
  <2>6. seq[1] = m /\ \A i \in 1 .. c + 1 : i = 1 \/ i \in 2 .. c + 1
    OBVIOUS
  <2>7. seq \in [1 .. c + 1 -> A]
    <3>1. ASSUME NEW i \in 1 .. c + 1 PROVE seq[i] \in A
      BY <2>2, <2>5, <2>6 DEF B
    <3> QED BY <3>1
  <2> HIDE DEF seq
  <2>8. ASSUME NEW i \in 1 .. c + 1, NEW j \in 1 .. c + 1, i # j PROVE seq[i] # seq[j]
    <3>1. m \notin B
      BY DEF B
    <3>2. CASE i = 1
      BY <2>5, <2>6, <2>8, <3>1, <3>2
    <3>3. CASE j = 1
      BY <2>5, <2>6, <2>8, <3>1, <3>3
    <3>4. CASE i # 1 /\ j # 1
      <4>1. i - 1 \in 1 .. c /\ j - 1 \in 1 .. c /\ i - 1 # j - 1
        BY <2>6, <2>8, <3>4
      <4> QED BY <2>3, <2>4, <2>5, <2>6, <3>4, <4>1 DEF SortedBy
    <3> QED BY <3>2, <3>3, <3>4
  <2>9. ASSUME NEW i \in 2 .. c + 1 PROVE ~Less(key[seq[i]], key[seq[i - 1]])
    <3>1. CASE i = 2
      <4>1. seq[i - 1] = m /\ seq[i] \in A
        BY <2>5, <2>6, <3>1 DEF B
      <4> QED BY <2>2, <4>1
    <3>2. CASE i # 2
      <4>1. i - 1 \in 2 .. c /\ i - 1 \in 2 .. c + 1
        BY <3>2
      <4>2. seq[i] = t[i - 1] /\ seq[i - 1] = t[(i - 1) - 1]
        BY <2>5, <4>1
      <4>3. ~Less(key[t[i - 1]], key[t[(i - 1) - 1]])
        BY <2>3, <2>4, <4>1 DEF SortedBy
      <4> QED BY <4>2, <4>3
    <3> QED BY <3>1, <3>2
  <2> QED BY <2>7, <2>8, <2>9 DEF SortedBy
<1> HIDE DEF T
<1>3. \A c \in Nat : c \in T
  BY <1>1, <1>2, NatInduct
<1>4. PICK seq : SortedBy(seq, key, S)
  BY <1>0, <1>3 DEF T
<1>5. DOMAIN key = S /\ Cardinality(S) \in Nat
  BY <1>0
<1>6. Len(seq) = Cardinality(S)
  BY <1>4, <1>5, TupleIs DEF SortedBy
<1>7. seq \in SortedAnyhow(key)
  BY <1>4, <1>5, <1>6 DEF SortedAnyhow, SetToSeqs, SortedBy
<1> QED BY <1>7

(* Equal keys keep their order: each place is somebody's, and nobody gets  *)
(* lost.                                                                   *)
LEMMA EarlierGrows ==
  ASSUME NEW n \in Nat, NEW len \in Nat, NEW keys \in [1 .. len -> KeysOf(n)],
         NEW i \in 1 .. len, NEW j \in 1 .. len, i \in Earlier(keys, j)
  PROVE  /\ Earlier(keys, i) \subseteq Earlier(keys, j)
         /\ i \notin Earlier(keys, i)
<1>0. DOMAIN keys = 1 .. len /\ \A m \in 1 .. len : keys[m] \in KeysOf(n)
  OBVIOUS
<1>1. i \notin Earlier(keys, i)
  <2>1. ~Less(keys[i], keys[i])
    BY <1>0, LessIrreflexive
  <2> QED BY <2>1 DEF Earlier
<1>2. ASSUME NEW m \in Earlier(keys, i) PROVE m \in Earlier(keys, j)
  <2>1. m \in 1 .. len /\ (Less(keys[m], keys[i]) \/ (keys[m] = keys[i] /\ m < i))
    BY <1>0 DEF Earlier
  <2>2. Less(keys[i], keys[j]) \/ (keys[i] = keys[j] /\ i < j)
    BY DEF Earlier
  <2>3. Less(keys[m], keys[i]) /\ Less(keys[i], keys[j]) => Less(keys[m], keys[j])
    BY <1>0, <2>1, LessTransitive
  <2>4. Less(keys[m], keys[j]) \/ (keys[m] = keys[j] /\ m < j)
    BY <2>1, <2>2, <2>3
  <2> QED BY <1>0, <2>1, <2>4 DEF Earlier
<1> QED BY <1>1, <1>2

LEMMA PlacesTaken ==
  ASSUME NEW n \in Nat, NEW len \in Nat, NEW keys \in [1 .. len -> KeysOf(n)],
         NEW i \in 1 .. len
  PROVE  \E j \in 1 .. len : Cardinality(Earlier(keys, j)) = i - 1
<1> DEFINE D == 1 .. len
           R == 0 .. len - 1
           rank == [j \in D |-> Cardinality(Earlier(keys, j))]
<1>0. DOMAIN keys = D /\ (\A m \in D : keys[m] \in KeysOf(n)) /\ len \in Nat \ {0}
  OBVIOUS
<1>1. IsFiniteSet(D) /\ Cardinality(D) = len /\ IsFiniteSet(R) /\ Cardinality(R) = len
  BY <1>0, FS_Interval
<1>2. ASSUME NEW j \in D
      PROVE  Earlier(keys, j) \in SUBSET D /\ j \notin Earlier(keys, j)
  <2>1. ~Less(keys[j], keys[j])
    BY <1>0, LessIrreflexive
  <2> QED BY <1>0, <2>1 DEF Earlier
<1>3. ASSUME NEW j \in D PROVE IsFiniteSet(Earlier(keys, j)) /\ rank[j] \in R
  <2>1. /\ IsFiniteSet(Earlier(keys, j)) /\ Cardinality(Earlier(keys, j)) <= len
        /\ Cardinality(D) = Cardinality(Earlier(keys, j)) => D = Earlier(keys, j)
    BY <1>1, <1>2, FS_Subset
  <2>2. Cardinality(Earlier(keys, j)) \in Nat
    BY <2>1, FS_CardinalityType
  <2>3. Cardinality(Earlier(keys, j)) # len
    BY <1>1, <1>2, <2>1
  <2> QED BY <2>1, <2>2, <2>3
<1>4. ASSUME NEW a \in D, NEW b \in D, a \in Earlier(keys, b) PROVE rank[a] < rank[b]
  <2>1. Earlier(keys, a) \in SUBSET Earlier(keys, b) /\ a \notin Earlier(keys, a)
    BY <1>4, EarlierGrows
  <2>2. /\ Cardinality(Earlier(keys, a)) <= Cardinality(Earlier(keys, b))
        /\ Cardinality(Earlier(keys, a)) # Cardinality(Earlier(keys, b))
    BY <1>3, <1>4, <2>1, FS_Subset
  <2>3. rank[a] \in R /\ rank[b] \in R
    BY <1>3
  <2> QED BY <2>2, <2>3
<1>5. ASSUME NEW a \in D, NEW b \in D, a # b PROVE rank[a] # rank[b]
  <2>1. keys[a] = keys[b] \/ Less(keys[a], keys[b]) \/ Less(keys[b], keys[a])
    BY <1>0, LessTotal
  <2>2. a \in Earlier(keys, b) \/ b \in Earlier(keys, a)
    BY <1>0, <1>5, <2>1 DEF Earlier
  <2>3. rank[a] \in R /\ rank[b] \in R
    BY <1>3
  <2> QED BY <1>4, <2>2, <2>3
<1>6. rank \in [D -> R]
  BY <1>3
<1> HIDE DEF rank
<1>7. rank \in Injection(D, R)
  BY <1>5, <1>6 DEF Injection, IsInjective
<1>8. rank \in Surjection(D, R)
  BY <1>1, <1>7, FS_Injection
<1>9. i - 1 \in R
  BY <1>0
<1>10. PICK j \in D : rank[j] = i - 1
  BY <1>8, <1>9 DEF Surjection
<1> QED BY <1>10 DEF rank

LEMMA StableSortIs ==
  ASSUME NEW n \in Nat, NEW X, NEW seq \in Seq(X), NEW keys \in [1 .. Len(seq) -> KeysOf(n)]
  PROVE  /\ StableSort(seq, keys) \in Seq(X) /\ Len(StableSort(seq, keys)) = Len(seq)
         /\ \A i \in 1 .. Len(seq) : \E j \in 1 .. Len(seq) : StableSort(seq, keys)[i] = seq[j]
<1> DEFINE len == Len(seq)
           place(i) == CHOOSE j \in DOMAIN keys : Cardinality(Earlier(keys, j)) = i - 1
           sorted == [i \in 1 .. len |-> seq[place(i)]]
<1>0. len \in Nat /\ DOMAIN keys = 1 .. len /\ \A j \in 1 .. len : seq[j] \in X
  BY LenProperties, ElementOfSeq
<1>1. StableSort(seq, keys) = sorted
  BY <1>0 DEF StableSort
<1>2. ASSUME NEW i \in 1 .. len PROVE place(i) \in 1 .. len
  <2>1. \E j \in 1 .. len : Cardinality(Earlier(keys, j)) = i - 1
    BY <1>0, PlacesTaken
  <2> QED BY <1>0, <2>1
<1> HIDE DEF place
<1>3. sorted \in [1 .. len -> X]
  BY <1>0, <1>2
<1>4. \A i \in 1 .. len : \E j \in 1 .. len : sorted[i] = seq[j]
  BY <1>2
<1>5. sorted \in Seq(X) /\ Len(sorted) = len
  BY <1>0, <1>3, TupleIs
<1> HIDE DEF sorted
<1> QED BY <1>1, <1>4, <1>5

-----------------------------------------------------------------------------
(* The index.                                                              *)

(* What is listed in a folder hangs below it.                              *)
ChildOf(child, id) ==
  \/ child \in Containers \ {Root} /\ lib.containers[child].parent = id
  \/ child \in Items /\ lib.items[child].parent = id

ChildrenOf(id) == lib.containers[id].children

LEMMA FoldersAre ==
  ASSUME IndexBuilt(lib)
  PROVE  /\ Containers \cap Items = {} /\ IsFiniteSet(Containers) /\ IsFiniteSet(Items)
         /\ Root \in Containers /\ lib.containers[Root].parent = None
         /\ \A id \in Containers \ {Root} :
              lib.containers[id].parent \in Containers /\ lib.containers[id].title \in Names
         /\ \A id \in Containers :
              /\ ChildrenOf(id) \in Seq(Containers \cup Items)
              /\ \A i \in DOMAIN ChildrenOf(id) : ChildOf(ChildrenOf(id)[i], id)
<1>1. IsFiniteSet(Containers) /\ IsFiniteSet(Items)
  <2>1. IsFiniteSet(Containers \cup Items)
    BY DEF IndexBuilt, Containers, Items
  <2> QED BY <2>1, FS_Subset
<1>2. Containers \cap Items = {}
  BY DEF IndexBuilt, Containers, Items
<1>3. FoldersNest(lib.containers, Containers \cup Items) /\ ChildrenAgree(lib)
  BY DEF IndexBuilt, Containers, Items
<1>4. /\ Root \in Containers /\ lib.containers[Root].parent = None
      /\ \A id \in Containers \ {Root} :
           lib.containers[id].parent \in Containers /\ lib.containers[id].title \in Names
      /\ \A id \in Containers : ChildrenOf(id) \in Seq(Containers \cup Items)
  BY <1>3 DEF FoldersNest, Containers, ChildrenOf
<1>5. \A id \in Containers : \A i \in DOMAIN ChildrenOf(id) : ChildOf(ChildrenOf(id)[i], id)
  BY <1>3 DEF ChildrenAgree, Containers, Items, ChildOf, ChildrenOf
<1> QED BY <1>1, <1>2, <1>4, <1>5

LEMMA ItemsAre ==
  ASSUME IndexBuilt(lib), NEW id \in Items
  PROVE  /\ lib.items[id].parent \in Containers \ {Root} /\ lib.items[id].path # None
         /\ lib.items[id].title \in Names /\ lib.items[id].number \in Nat \cup {None}
         /\ lib.items[id].artist \in Names \cup {None}
         /\ lib.items[id].album \in Names \cup {None}
         /\ lib.items[id].modified \in Nat
  BY DEF IndexBuilt, ItemsTyped, Containers, Items

LEMMA IdsAre ==
  ASSUME IndexBuilt(lib), NEW id \in Containers \cup Items
  PROVE  /\ id \in Seq(STRING) /\ id # <<>> /\ id # None
         /\ ToSet(id) \cap DOMAIN Escapes = {} /\ id[1] # "tag-artist:"
  BY DEF IndexBuilt, NumberedIds, Containers, Items

LEMMA HeightExists ==
  ASSUME IndexBuilt(lib)
  PROVE  /\ Cardinality(Containers) \in Nat
         /\ \E height \in [Containers -> 0 .. Cardinality(Containers)] :
              \A id \in Containers \ {Root} : height[id] < height[lib.containers[id].parent]
<1>1. IsFiniteSet(Containers)
  BY FoldersAre
<1> QED BY <1>1, FS_CardinalityType DEF IndexBuilt, FoldersNest, Containers

-----------------------------------------------------------------------------
(* All items: a walk through the folders from the root.                    *)

Subfolders(id) == Reverse(Only(ChildrenOf(id), Containers))

Below(visit, id) == FlattenSeq([i \in DOMAIN Subfolders(id) |-> visit[Subfolders(id)[i]]])

Visit(visit, id) == Only(ChildrenOf(id), Items) \o Below(visit, id)

LEMMA SubfoldersAre ==
  ASSUME IndexBuilt(lib), NEW id \in Containers
  PROVE  /\ Subfolders(id) \in Seq(Containers)
         /\ \A i \in 1 .. Len(Subfolders(id)) :
              /\ Subfolders(id)[i] \in Containers \ {Root}
              /\ lib.containers[Subfolders(id)[i]].parent = id
<1> DEFINE only == Only(ChildrenOf(id), Containers)
           len == Len(only)
<1>1. ChildrenOf(id) \in Seq(Containers \cup Items)
  BY FoldersAre
<1>2. /\ only \in Seq((Containers \cup Items) \cap Containers)
      /\ ToSet(only) = ToSet(ChildrenOf(id)) \cap Containers
  BY <1>1, OnlyCollects
<1> HIDE DEF only
<1>3. len \in Nat /\ DOMAIN only = 1 .. len /\ \A i \in 1 .. len : only[i] \in Containers
  BY <1>2, LenProperties, ElementOfSeq
<1>4. Subfolders(id) = [i \in 1 .. len |-> only[(len - i) + 1]]
  BY DEF Subfolders, Reverse, only
<1>5. \A i \in 1 .. len : (len - i) + 1 \in 1 .. len
  BY <1>3
<1>6. Subfolders(id) \in [1 .. len -> Containers]
  BY <1>3, <1>4, <1>5
<1>7. Subfolders(id) \in Seq(Containers) /\ Len(Subfolders(id)) = len
  BY <1>3, <1>6, TupleIs
<1>8. ASSUME NEW i \in 1 .. len PROVE only[i] \in Containers \ {Root} /\ lib.containers[only[i]].parent = id
  <2>1. only[i] \in ToSet(ChildrenOf(id))
    BY <1>2, <1>3 DEF ToSet
  <2>2. PICK j \in DOMAIN ChildrenOf(id) : only[i] = ChildrenOf(id)[j]
    BY <2>1 DEF ToSet
  <2>3. ChildOf(only[i], id)
    BY <2>2, FoldersAre
  <2>4. only[i] \notin Items
    BY <1>3, FoldersAre
  <2> QED BY <2>3, <2>4 DEF ChildOf
<1>9. ASSUME NEW i \in 1 .. len
      PROVE  /\ Subfolders(id)[i] \in Containers \ {Root}
             /\ lib.containers[Subfolders(id)[i]].parent = id
  BY <1>4, <1>5, <1>8
<1> QED BY <1>7, <1>9

LEMMA VisitTyped ==
  ASSUME IndexBuilt(lib), NEW id \in Containers, NEW visit,
         \A i \in 1 .. Len(Subfolders(id)) : visit[Subfolders(id)[i]] \in Seq(Items)
  PROVE  Visit(visit, id) \in Seq(Items)
<1> DEFINE seqs == [i \in DOMAIN Subfolders(id) |-> visit[Subfolders(id)[i]]]
<1>1. /\ DOMAIN Subfolders(id) = 1 .. Len(Subfolders(id)) /\ Len(Subfolders(id)) \in Nat
  BY SubfoldersAre, LenProperties
<1>2. seqs \in [1 .. Len(Subfolders(id)) -> Seq(Items)]
  BY <1>1
<1>3. seqs \in Seq(Seq(Items))
  BY <1>1, <1>2, TupleIs
<1> HIDE DEF seqs
<1>4. PICK F : Joins(F, seqs, Items)
  BY <1>3, FlattenJoins
<1>5. Len(seqs) \in 0 .. Len(seqs)
  BY <1>3, LenProperties
<1>6. FlattenSeq(seqs) \in Seq(Items)
  BY <1>4, <1>5 DEF Joins
<1>7. Below(visit, id) \in Seq(Items)
  BY <1>6 DEF Below, seqs
<1>8. Only(ChildrenOf(id), Items) \in Seq(Items)
  <2>1. ChildrenOf(id) \in Seq(Containers \cup Items)
    BY FoldersAre
  <2>2. Only(ChildrenOf(id), Items) \in Seq((Containers \cup Items) \cap Items)
    BY <2>1, OnlyCollects
  <2>3. (Containers \cup Items) \cap Items = Items
    OBVIOUS
  <2> QED BY <2>2, <2>3
<1> QED BY <1>7, <1>8, ConcatProperties DEF Visit

(* What a visit of a folder finds depends on its subfolders' visits.       *)
LEMMA VisitSame ==
  ASSUME IndexBuilt(lib), NEW id \in Containers, NEW v, NEW w,
         \A i \in 1 .. Len(Subfolders(id)) : v[Subfolders(id)[i]] = w[Subfolders(id)[i]]
  PROVE  Visit(v, id) = Visit(w, id)
<1>1. DOMAIN Subfolders(id) = 1 .. Len(Subfolders(id))
  BY SubfoldersAre, LenProperties
<1>2. [i \in DOMAIN Subfolders(id) |-> v[Subfolders(id)[i]]] =
        [i \in DOMAIN Subfolders(id) |-> w[Subfolders(id)[i]]]
  BY <1>1
<1> QED BY <1>2 DEF Visit, Below

(* Each folder is visited, and its items are collected.                    *)
LEMMA VisitExists ==
  ASSUME IndexBuilt(lib)
  PROVE  \E visit : visit = [id \in Containers |-> Visit(visit, id)]
<1>1. PICK height \in [Containers -> 0 .. Cardinality(Containers)] :
        \A id \in Containers \ {Root} : height[id] < height[lib.containers[id].parent]
  BY HeightExists
<1> DEFINE A == [Containers -> Seq(Items)]
           a == [id \in Containers |-> <<>>]
           h == [p \in A \X Nat |-> [id \in Containers |-> Visit(p[1], id)]]
<1>2. a \in A
  BY EmptySeq
<1>3. h \in [A \X Nat -> A]
  <2>1. ASSUME NEW v \in A, NEW id \in Containers PROVE Visit(v, id) \in Seq(Items)
    BY SubfoldersAre, VisitTyped
  <2> QED BY <2>1
<1>4. PICK F \in [Nat -> A] : \A n \in Nat : Runs(F, n, a, h)
  <2> HIDE DEF A, a, h
  <2> QED BY <1>2, <1>3, RunExistsOnNat
<1>5. ASSUME NEW n \in Nat PROVE F[n + 1] = [id \in Containers |-> Visit(F[n], id)]
  <2>1. n + 1 \in 1 .. n + 1 /\ (n + 1) - 1 = n /\ n + 1 \in Nat
    OBVIOUS
  <2>2. F[n + 1] = h[<<F[n], n + 1>>]
    BY <1>4, <2>1 DEF Runs
  <2>3. F[n] \in A
    OBVIOUS
  <2> QED BY <2>1, <2>2, <2>3
<1> HIDE DEF A, a, h
<1> DEFINE T == {n \in Nat : \A id \in Containers : height[id] < n => F[n][id] = F[n + 1][id]}
<1>6. 0 \in T
  OBVIOUS
<1>7. ASSUME NEW n \in Nat, n \in T PROVE n + 1 \in T
  <2> SUFFICES ASSUME NEW id \in Containers, height[id] < n + 1
               PROVE  F[n + 1][id] = F[(n + 1) + 1][id]
    OBVIOUS
  <2>1. ASSUME NEW i \in 1 .. Len(Subfolders(id))
        PROVE  F[n][Subfolders(id)[i]] = F[n + 1][Subfolders(id)[i]]
    <3>1. PICK f : f = Subfolders(id)[i]
      OBVIOUS
    <3>2. f \in Containers \ {Root} /\ lib.containers[f].parent = id
      BY <3>1, SubfoldersAre
    <3>3. height[f] < height[id] /\ height[f] \in Nat /\ height[id] \in Nat
      BY <1>1, <3>2
    <3>4. height[f] < n
      BY <3>3
    <3> QED BY <1>7, <3>1, <3>2, <3>4
  <2>2. Visit(F[n], id) = Visit(F[n + 1], id)
    BY <2>1, VisitSame
  <2>3. F[n + 1][id] = Visit(F[n], id) /\ F[(n + 1) + 1][id] = Visit(F[n + 1], id)
    <3>1. PICK m \in Nat : m = n + 1
      OBVIOUS
    <3>2. F[m + 1] = [e \in Containers |-> Visit(F[m], e)] /\ F[n + 1] = [e \in Containers |-> Visit(F[n], e)]
      BY <1>5
    <3>3. F[m + 1][id] = Visit(F[m], id) /\ F[n + 1][id] = Visit(F[n], id)
      BY <3>2
    <3> QED BY <3>1, <3>3
  <2> QED BY <2>2, <2>3
<1> HIDE DEF T
<1>8. \A n \in Nat : n \in T
  BY <1>6, <1>7, NatInduct
<1>9. PICK n : n = Cardinality(Containers) + 1
  OBVIOUS
<1>10. n \in Nat /\ \A id \in Containers : height[id] < n
  BY <1>9, HeightExists
<1>11. \A id \in Containers : F[n][id] = Visit(F[n], id)
  BY <1>5, <1>8, <1>10 DEF T
<1>12. DOMAIN F[n] = Containers /\ F[n] = [id \in DOMAIN F[n] |-> F[n][id]]
  BY <1>10 DEF A
<1>13. F[n] = [id \in Containers |-> Visit(F[n], id)]
  BY <1>11, <1>12
<1> QED BY <1>13

LEMMA AllItemsTyped ==
  ASSUME IndexBuilt(lib)
  PROVE  all_items \in Seq(Items)
<1> DEFINE visit == CHOOSE v : v = [id \in Containers |-> Visit(v, id)]
<1>1. visit = [id \in Containers |-> Visit(visit, id)]
  BY VisitExists
<1>2. all_items = visit[Root]
  BY DEF all_items, Visit, Below, Subfolders, ChildrenOf
<1> HIDE DEF visit
<1>3. PICK height \in [Containers -> 0 .. Cardinality(Containers)] :
        \A id \in Containers \ {Root} : height[id] < height[lib.containers[id].parent]
  BY HeightExists
<1> DEFINE T == {n \in Nat : \A id \in Containers : height[id] < n => visit[id] \in Seq(Items)}
<1>4. 0 \in T
  OBVIOUS
<1>5. ASSUME NEW n \in Nat, n \in T PROVE n + 1 \in T
  <2> SUFFICES ASSUME NEW id \in Containers, height[id] < n + 1 PROVE visit[id] \in Seq(Items)
    OBVIOUS
  <2>1. ASSUME NEW i \in 1 .. Len(Subfolders(id)) PROVE visit[Subfolders(id)[i]] \in Seq(Items)
    <3>1. PICK f : f = Subfolders(id)[i]
      OBVIOUS
    <3>2. f \in Containers \ {Root} /\ lib.containers[f].parent = id
      BY <3>1, SubfoldersAre
    <3>3. height[f] < height[id] /\ height[f] \in Nat /\ height[id] \in Nat
      BY <1>3, <3>2
    <3>4. height[f] < n
      BY <3>3
    <3> QED BY <1>5, <3>1, <3>2, <3>4
  <2>2. Visit(visit, id) \in Seq(Items)
    BY <2>1, VisitTyped
  <2> QED BY <1>1, <2>2
<1> HIDE DEF T
<1>6. \A n \in Nat : n \in T
  BY <1>4, <1>5, NatInduct
<1>7. PICK n : n = Cardinality(Containers) + 1
  OBVIOUS
<1>8. n \in Nat /\ \A id \in Containers : height[id] < n
  BY <1>7, HeightExists
<1>9. Root \in Containers
  BY FoldersAre
<1> QED BY <1>2, <1>6, <1>8, <1>9 DEF T

-----------------------------------------------------------------------------
(* What albums resolve to.                                                 *)

LEMMA ImageFinite ==
  ASSUME NEW S, IsFiniteSet(S), NEW f
  PROVE  IsFiniteSet({f[x] : x \in S}) /\ Cardinality({f[x] : x \in S}) <= Cardinality(S)
<1> DEFINE T == {f[x] : x \in S}
           g == [x \in S |-> f[x]]
<1>1. g \in Surjection(S, T)
  BY DEF Surjection
<1> HIDE DEF T, g
<1>2. IsFiniteSet(T) /\ Cardinality(T) <= Cardinality(S)
  BY <1>1, FS_Surjection
<1> QED BY <1>2 DEF T

LEMMA AlbumIdsAre ==
  ASSUME IndexBuilt(lib), NEW items \in Seq(Items)
  PROVE  album_ids(items) \subseteq Containers \ {Root} /\ IsFiniteSet(album_ids(items))
<1>1. ToSet(items) \subseteq Items
  BY ToSetIn
<1>2. album_ids(items) \subseteq Containers \ {Root}
  BY <1>1, ItemsAre DEF album_ids
<1>3. IsFiniteSet(Containers)
  BY FoldersAre
<1> QED BY <1>2, <1>3, FS_Subset

(* A value the tracks of an album agree on is one of theirs.               *)
LEMMA TagValueTyped ==
  ASSUME IndexBuilt(lib), NEW items \in Seq(Items), NEW album, NEW tag,
         \A item \in Items : lib.items[item][tag] \in Names \cup {None}
  PROVE  consistent_tag_value(items, album, tag) \in Names \cup {None}
<1> DEFINE set == {item \in Items :
                     lib.items[item].parent = album /\ lib.items[item][tag] # None}
           tracks == Only(items, set)
           keys == {KeyOf[lib.items[item][tag]] : item \in ToSet(tracks)}
<1>1. consistent_tag_value(items, album, tag) =
        IF Cardinality(keys) = 1 THEN lib.items[tracks[1]][tag] ELSE None
  BY DEF consistent_tag_value
<1>2. tracks \in Seq(Items \cap set)
  BY OnlyCollects, SMTT(30)
<1>3. CASE tracks = <<>>
  <2>1. keys = {}
    BY <1>3, ToSetEmpty
  <2>2. Cardinality(keys) = 0
    BY <2>1, FS_EmptySet
  <2> QED BY <1>1, <2>2
<1>4. CASE tracks # <<>>
  <2> HIDE DEF tracks, keys
  <2>1. 1 \in 1 .. Len(tracks)
    BY <1>2, <1>4, EmptySeq
  <2>2. tracks[1] \in Items \cap set
    BY <1>2, <2>1, ElementOfSeq
  <2>3. lib.items[tracks[1]][tag] \in Names
    BY <2>2
  <2> QED BY <1>1, <2>3
<1> QED BY <1>3, <1>4

TagOf(items, album) ==
  [album |-> album, artist |-> consistent_tag_value(items, album, "artist"),
   title |-> consistent_tag_value(items, album, "album")]

TagsOf(items) == {TagOf(items, album) : album \in album_ids(items)}

KeysTagged(items) == {KeyOf[t.artist] : t \in {u \in TagsOf(items) : u.artist # None}}

ArtistFor(items, t) ==
  IF t.artist = None THEN folder_artist_key(t.album, KeysTagged(items))
  ELSE [key |-> TagArtist(KeyOf[t.artist]), raw |-> t.artist]

TitleFor(t) == IF t.title = None THEN lib.containers[t.album].title ELSE t.title

FactOf(items, t) ==
  [album |-> t.album, title |-> TitleFor(t), artist |-> ArtistFor(items, t)]

LEMMA FactsOf ==
  ASSUME NEW items
  PROVE  resolve_album_facts(items) = {FactOf(items, t) : t \in TagsOf(items)}
  BY DEF resolve_album_facts, FactOf, TitleFor, ArtistFor, KeysTagged, TagsOf, TagOf

LEMMA TagTyped ==
  ASSUME IndexBuilt(lib), NEW items \in Seq(Items), NEW album \in album_ids(items),
         NEW t, t = TagOf(items, album)
  PROVE  /\ t.album = album /\ album \in Containers \ {Root}
         /\ t.artist \in Names \cup {None} /\ t.title \in Names \cup {None}
<1>1. \A item \in Items : lib.items[item]["artist"] \in Names \cup {None}
  BY ItemsAre
<1>2. \A item \in Items : lib.items[item]["album"] \in Names \cup {None}
  BY ItemsAre
<1>3. consistent_tag_value(items, album, "artist") \in Names \cup {None}
  BY <1>1, TagValueTyped
<1>4. consistent_tag_value(items, album, "album") \in Names \cup {None}
  BY <1>2, TagValueTyped
<1> QED BY <1>3, <1>4, AlbumIdsAre DEF TagOf

(* An artist: none, a folder, or a name that tracks or a folder carry.     *)
ArtistTyped(artist) ==
  \/ artist = [key |-> None, raw |-> None]
  \/ \E folder \in Containers \ {Root} : artist = [key |-> folder, raw |-> None]
  \/ \E name \in Names : artist = [key |-> TagArtist(KeyOf[name]), raw |-> name]

LEMMA FolderArtistTyped ==
  ASSUME IndexBuilt(lib), NEW album \in Containers \ {Root}, NEW keys
  PROVE  ArtistTyped(folder_artist_key(album, keys))
<1> DEFINE parent == lib.containers[album].parent
           title == lib.containers[parent].title
<1>1. parent \in Containers
  BY FoldersAre
<1>2. parent # Root => title \in Names
  BY <1>1, FoldersAre
<1>3. parent # None
  BY <1>1, IdsAre
<1>4. folder_artist_key(album, keys) =
        IF parent = Root \/ parent = None THEN [key |-> None, raw |-> None]
        ELSE IF KeyOf[title] \in keys THEN [key |-> TagArtist(KeyOf[title]), raw |-> title]
        ELSE [key |-> parent, raw |-> None]
  BY DEF folder_artist_key
<1> HIDE DEF parent, title
<1> QED BY <1>1, <1>2, <1>3, <1>4 DEF ArtistTyped

FactTyped(fact, held) ==
  fact.album \in held /\ fact.title \in Names /\ ArtistTyped(fact.artist)

LEMMA FactsAre ==
  ASSUME IndexBuilt(lib), NEW items \in Seq(Items)
  PROVE  /\ \A fact \in resolve_album_facts(items) : FactTyped(fact, album_ids(items))
         /\ \A album \in album_ids(items) :
              \E fact \in resolve_album_facts(items) : fact.album = album
         /\ \A fact, other \in resolve_album_facts(items) :
              fact.album = other.album => fact = other
         /\ IsFiniteSet(resolve_album_facts(items))
<1> DEFINE F(album) == FactOf(items, TagOf(items, album))
<1>1. resolve_album_facts(items) = {F(album) : album \in album_ids(items)}
  <2>1. {FactOf(items, t) : t \in TagsOf(items)} = {F(album) : album \in album_ids(items)}
    BY DEF TagsOf
  <2> QED BY <2>1, FactsOf
<1>2. ASSUME NEW album \in album_ids(items)
      PROVE  F(album).album = album /\ FactTyped(F(album), album_ids(items))
  <2>1. PICK t : t = TagOf(items, album)
    OBVIOUS
  <2>2. /\ t.album = album /\ album \in Containers \ {Root}
        /\ t.artist \in Names \cup {None} /\ t.title \in Names \cup {None}
    BY <2>1, TagTyped
  <2>3. F(album) = [album |-> album, title |-> TitleFor(t), artist |-> ArtistFor(items, t)]
    BY <2>1, <2>2 DEF FactOf
  <2>4. TitleFor(t) \in Names
    BY <2>2, FoldersAre DEF TitleFor
  <2>5. ArtistTyped(ArtistFor(items, t))
    <3>1. CASE t.artist = None
      BY <2>2, <3>1, FolderArtistTyped DEF ArtistFor
    <3>2. CASE t.artist # None
      BY <2>2, <3>2 DEF ArtistFor, ArtistTyped
    <3> QED BY <3>1, <3>2
  <2> QED BY <2>3, <2>4, <2>5 DEF FactTyped
<1>3. IsFiniteSet(resolve_album_facts(items))
  <2> DEFINE g == [album \in album_ids(items) |-> F(album)]
  <2>1. IsFiniteSet({g[album] : album \in album_ids(items)})
    <3> HIDE DEF g
    <3> QED BY AlbumIdsAre, ImageFinite
  <2>2. {g[album] : album \in album_ids(items)} = {F(album) : album \in album_ids(items)}
    OBVIOUS
  <2> QED BY <1>1, <2>1, <2>2
<1> HIDE DEF F
<1> QED BY <1>1, <1>2, <1>3


-----------------------------------------------------------------------------
(* The artists of a snapshot.                                              *)

FactsUnder(facts, id) == {fact \in facts : fact.artist.key = id}

SpellingsOf(facts, id) == {fact.artist.raw : fact \in FactsUnder(facts, id)}

TitleOf(facts, id) ==
  IF IsContainer(id) THEN lib.containers[id].title
  ELSE CHOOSE name \in SpellingsOf(facts, id) :
         \A other \in SpellingsOf(facts, id) : Rank[name] <= Rank[other]

ArtistIds(facts) == {fact.artist.key : fact \in facts} \ {None}

AlbumsOf(facts, id) == {fact.album : fact \in FactsUnder(facts, id)} \ ArtistIds(facts)

ArtistOf(facts, id) ==
  [id |-> id, title |-> TitleOf(facts, id), albums |-> AlbumsOf(facts, id)]

(* An artist is listed for each key, without the albums that are artists.  *)
LEMMA ArtistsOf ==
  ASSUME NEW facts
  PROVE  apply_dual_role_exclusion(build_artist_containers(facts))
           = {ArtistOf(facts, id) : id \in ArtistIds(facts)}
<1> DEFINE Whole(id) == [id |-> id, title |-> TitleOf(facts, id),
                         albums |-> {fact.album : fact \in FactsUnder(facts, id)}]
           built == {Whole(id) : id \in ArtistIds(facts)}
<1>1. build_artist_containers(facts) = built
  BY DEF build_artist_containers, TitleOf, SpellingsOf, FactsUnder, ArtistIds
<1>2. {artist.id : artist \in built} = ArtistIds(facts)
  <2>1. \A id : Whole(id).id = id
    OBVIOUS
  <2> QED BY <2>1
<1>3. ASSUME NEW id PROVE [Whole(id) EXCEPT !.albums = @ \ ArtistIds(facts)] = ArtistOf(facts, id)
  <2>1. PICK title, held, ids :
          /\ title = TitleOf(facts, id) /\ ids = ArtistIds(facts)
          /\ held = {fact.album : fact \in FactsUnder(facts, id)}
    OBVIOUS
  <2>2. ArtistOf(facts, id) = [id |-> id, title |-> title, albums |-> held \ ids]
    BY <2>1 DEF ArtistOf, AlbumsOf
  <2>3. PICK whole : whole = [id |-> id, title |-> title, albums |-> held]
    OBVIOUS
  <2>4. Whole(id) = whole
    BY <2>1, <2>3
  <2>5. [whole EXCEPT !.albums = @ \ ids] = [id |-> id, title |-> title, albums |-> held \ ids]
    BY <2>3
  <2> HIDE DEF Whole
  <2> QED BY <2>1, <2>2, <2>4, <2>5
<1>4. {[artist EXCEPT !.albums = @ \ ArtistIds(facts)] : artist \in built}
        = {ArtistOf(facts, id) : id \in ArtistIds(facts)}
  <2>1. {[artist EXCEPT !.albums = @ \ ArtistIds(facts)] : artist \in built}
          = {[Whole(id) EXCEPT !.albums = @ \ ArtistIds(facts)] : id \in ArtistIds(facts)}
    OBVIOUS
  <2> HIDE DEF Whole
  <2> QED BY <1>3, <2>1
<1> QED BY <1>1, <1>2, <1>4 DEF apply_dual_role_exclusion

LEMMA SnapshotIs ==
  /\ Snapshot.items = all_items
  /\ Snapshot.album_ids = album_ids(all_items)
  /\ Snapshot.facts = resolve_album_facts(all_items)
  /\ Snapshot.artists = {ArtistOf(Snapshot.facts, id) : id \in ArtistIds(Snapshot.facts)}
<1>1. PICK facts : facts = resolve_album_facts(all_items)
  OBVIOUS
<1>2. Snapshot = snapshot_of(all_items, facts)
  BY <1>1 DEF Snapshot
<1>3. Snapshot.artists = apply_dual_role_exclusion(build_artist_containers(facts))
  BY <1>2 DEF snapshot_of
<1>4. Snapshot.facts = facts /\ Snapshot.items = all_items /\ Snapshot.album_ids = album_ids(all_items)
  BY <1>2 DEF snapshot_of
<1> QED BY <1>1, <1>3, <1>4, ArtistsOf

(* Of names there is a first, in string order.                             *)
LEMMA LeastName ==
  ASSUME NEW S \in SUBSET Names, S # {}
  PROVE  \E name \in S : \A other \in S : Rank[name] <= Rank[other]
<1> DEFINE T == {Rank[name] : name \in S}
<1>1. T \in SUBSET Nat /\ T # {}
  BY RankAssumption
<1> HIDE DEF T
<1>2. PICK n \in T : \A m \in T : n <= m
  BY <1>1, LeastExists
<1> QED BY <1>2 DEF T

(* A folder is the artist of the albums in it unless tracks carry its name. *)
FolderOf(items, id) ==
  /\ id \in Containers \ {Root}
  /\ KeyOf[lib.containers[id].title] \notin KeysTagged(items)

NamedOf(items, artist) ==
  /\ artist.id \notin Containers
  /\ artist.id = TagArtist(KeyOf[artist.title])
  /\ KeyOf[artist.title] \in KeysTagged(items)

(* The key of an album's artist: its folder, or what tracks carry.         *)
KeyFor(items, artist) ==
  \/ artist.key = None
  \/ FolderOf(items, artist.key)
  \/ /\ artist.raw \in Names /\ artist.key = TagArtist(KeyOf[artist.raw])
     /\ KeyOf[artist.raw] \in KeysTagged(items)

LEMMA TaggedKey ==
  ASSUME NEW items, NEW album \in album_ids(items), NEW t, t = TagOf(items, album),
         t.artist # None
  PROVE  KeyOf[t.artist] \in KeysTagged(items)
<1>1. t \in TagsOf(items)
  BY DEF TagsOf
<1> QED BY <1>1 DEF KeysTagged

LEMMA FactKeyed ==
  ASSUME IndexBuilt(lib), NEW items \in Seq(Items), NEW fact \in resolve_album_facts(items)
  PROVE  KeyFor(items, fact.artist)
<1>1. PICK album \in album_ids(items) : fact = FactOf(items, TagOf(items, album))
  BY FactsOf DEF TagsOf
<1>2. PICK t : t = TagOf(items, album)
  OBVIOUS
<1>3. t.album = album /\ album \in Containers \ {Root} /\ t.artist \in Names \cup {None}
  BY <1>2, TagTyped
<1>4. fact.artist = ArtistFor(items, t)
  BY <1>1, <1>2 DEF FactOf
<1>5. CASE t.artist # None
  <2>1. KeyOf[t.artist] \in KeysTagged(items)
    BY <1>2, <1>5, TaggedKey
  <2>2. ArtistFor(items, t) = [key |-> TagArtist(KeyOf[t.artist]), raw |-> t.artist]
    BY <1>5 DEF ArtistFor
  <2> QED BY <1>3, <1>4, <1>5, <2>1, <2>2 DEF KeyFor
<1>6. CASE t.artist = None
  <2>1. PICK parent, title, keys : /\ parent = lib.containers[album].parent
                                   /\ title = lib.containers[parent].title
                                   /\ keys = KeysTagged(items)
    OBVIOUS
  <2>2. ArtistFor(items, t) =
          IF parent = Root \/ parent = None THEN [key |-> None, raw |-> None]
          ELSE IF KeyOf[title] \in keys THEN [key |-> TagArtist(KeyOf[title]), raw |-> title]
          ELSE [key |-> parent, raw |-> None]
    <3>1. ArtistFor(items, t) = folder_artist_key(album, keys)
      BY <1>3, <1>6, <2>1 DEF ArtistFor
    <3> QED BY <2>1, <3>1 DEF folder_artist_key
  <2>3. parent \in Containers /\ (parent # Root => title \in Names)
    BY <1>3, <2>1, FoldersAre
  <2>4. CASE parent = Root \/ parent = None
    BY <1>4, <2>2, <2>4, SMTT(30) DEF KeyFor
  <2>5. CASE ~(parent = Root \/ parent = None) /\ KeyOf[title] \in keys
    BY <1>4, <2>1, <2>2, <2>3, <2>5 DEF KeyFor
  <2>6. CASE ~(parent = Root \/ parent = None) /\ KeyOf[title] \notin keys
    <3>1. fact.artist.key = parent
      BY <1>4, <2>2, <2>6
    <3>2. FolderOf(items, parent)
      BY <2>1, <2>3, <2>6 DEF FolderOf
    <3> QED BY <3>1, <3>2 DEF KeyFor
  <2> QED BY <2>4, <2>5, <2>6
<1> QED BY <1>5, <1>6

LEMMA TagArtistApart ==
  ASSUME IndexBuilt(lib), NEW key \in Seq(STRING)
  PROVE  TagArtist(key) \notin Containers \cup Items
<1>1. PICK s, c : s = percent_encode(key) /\ c = "tag-artist:"
  OBVIOUS
<1>2. s \in [1 .. Len(key) -> STRING] /\ Len(key) \in Nat
  <2>1. DOMAIN key = 1 .. Len(key) /\ Len(key) \in Nat /\ \A i \in 1 .. Len(key) : key[i] \in STRING
    BY LenProperties, ElementOfSeq
  <2> QED BY <1>1, <2>1, EscapesAssumption DEF percent_encode
<1>3. s \in Seq(STRING)
  BY <1>2, TupleIs
<1>4. (<<c>> \o s)[1] = c
  <2>1. PICK X : X = STRING \cup {c}
    OBVIOUS
  <2>2. s \in Seq(X) /\ c \in X
    BY <1>3, <2>1, SeqMonotonic
  <2>3. <<c>> \in Seq(X) /\ Len(<<c>>) = 1 /\ <<c>>[1] = c
    BY <2>2
  <2> QED BY <2>2, <2>3, ConcatIs
<1>5. TagArtist(key)[1] = c
  BY <1>1, <1>4 DEF TagArtist
<1> QED BY <1>1, <1>5, IdsAre

(* What an artist of a view is: a folder, or a name, that albums go under. *)
ArtistIs(artist) ==
  /\ artist \in Snapshot.artists
  /\ artist.id # None /\ artist.id # Root /\ artist.title \in Names
  /\ artist.albums \subseteq Snapshot.album_ids
  /\ \/ /\ FolderOf(Snapshot.items, artist.id)
        /\ artist.title = lib.containers[artist.id].title
     \/ NamedOf(Snapshot.items, artist)

LEMMA ArtistNamed ==
  ASSUME IndexBuilt(lib), NEW id, id \in ArtistIds(Snapshot.facts), id \notin Containers,
         NEW artist, artist = ArtistOf(Snapshot.facts, id)
  PROVE  artist.title \in Names /\ NamedOf(Snapshot.items, artist)
<1>1. PICK facts, items : facts = Snapshot.facts /\ items = Snapshot.items
  OBVIOUS
<1>2. items \in Seq(Items) /\ facts = resolve_album_facts(items)
  BY <1>1, SnapshotIs, AllItemsTyped
<1>3. ASSUME NEW raw \in SpellingsOf(facts, id)
      PROVE  /\ raw \in Names /\ id = TagArtist(KeyOf[raw]) /\ KeyOf[raw] \in KeysTagged(items)
  <2>1. PICK fact \in facts : fact.artist.key = id /\ raw = fact.artist.raw
    BY <1>3 DEF SpellingsOf, FactsUnder
  <2>2. KeyFor(items, fact.artist)
    BY <1>2, <2>1, FactKeyed
  <2>3. id # None
    BY DEF ArtistIds
  <2> QED BY <2>1, <2>2, <2>3 DEF KeyFor, FolderOf
<1>4. SpellingsOf(facts, id) \in SUBSET Names
  BY <1>3
<1>5. SpellingsOf(facts, id) # {}
  <2>1. PICK fact \in facts : fact.artist.key = id
    BY <1>1 DEF ArtistIds
  <2> QED BY <2>1 DEF SpellingsOf, FactsUnder
<1>6. \E name \in SpellingsOf(facts, id) :
        \A other \in SpellingsOf(facts, id) : Rank[name] <= Rank[other]
  BY <1>4, <1>5, LeastName
<1>7. TitleOf(facts, id) \in SpellingsOf(facts, id)
  BY <1>6 DEF TitleOf, IsContainer
<1>8. artist.title = TitleOf(facts, id) /\ artist.id = id
  BY <1>1 DEF ArtistOf
<1> QED BY <1>1, <1>3, <1>7, <1>8 DEF NamedOf

LEMMA ArtistsAre ==
  ASSUME IndexBuilt(lib)
  PROVE  /\ \A artist \in Snapshot.artists : ArtistIs(artist)
         /\ \A artist, other \in Snapshot.artists :
              other.id \notin artist.albums /\ (artist.id = other.id => artist = other)
         /\ IsFiniteSet(Snapshot.artists)
<1>1. PICK facts, items : facts = Snapshot.facts /\ items = Snapshot.items
  OBVIOUS
<1>2. /\ items \in Seq(Items) /\ facts = resolve_album_facts(items)
      /\ Snapshot.album_ids = album_ids(items)
  BY <1>1, SnapshotIs, AllItemsTyped
<1>3. Snapshot.artists = {ArtistOf(facts, id) : id \in ArtistIds(facts)}
  BY <1>1, SnapshotIs
<1>4. \A id : /\ ArtistOf(facts, id).id = id /\ ArtistOf(facts, id).title = TitleOf(facts, id)
              /\ ArtistOf(facts, id).albums = AlbumsOf(facts, id)
  BY DEF ArtistOf
<1>5. ASSUME NEW artist \in Snapshot.artists PROVE ArtistIs(artist)
  <2>1. PICK id \in ArtistIds(facts) : artist = ArtistOf(facts, id)
    BY <1>3
  <2>2. id # None
    BY DEF ArtistIds
  <2>3. PICK fact \in facts : fact.artist.key = id
    BY DEF ArtistIds
  <2>4. KeyFor(items, fact.artist)
    BY <1>2, <2>3, FactKeyed
  <2>5. artist.albums \subseteq Snapshot.album_ids
    <3>1. \A f \in facts : f.album \in album_ids(items)
      BY <1>2, FactsAre DEF FactTyped
    <3> QED BY <1>2, <1>4, <2>1, <3>1 DEF AlbumsOf, FactsUnder
  <2>6. CASE id \in Containers
    <3>1. \A name \in Names : id # TagArtist(KeyOf[name])
      BY <2>6, TagArtistApart, KeyAssumption
    <3>2. FolderOf(items, id)
      BY <2>2, <2>3, <2>4, <3>1 DEF KeyFor
    <3>3. artist.title = lib.containers[id].title
      BY <1>4, <2>1, <2>6 DEF TitleOf, IsContainer
    <3>4. artist.title \in Names /\ id # Root
      BY <3>2, <3>3, FoldersAre DEF FolderOf
    <3> QED BY <1>1, <1>4, <2>1, <2>2, <2>5, <3>2, <3>3, <3>4 DEF ArtistIs
  <2>7. CASE id \notin Containers
    <3>1. artist.title \in Names /\ NamedOf(Snapshot.items, artist)
      BY <1>1, <2>1, <2>7, ArtistNamed
    <3>2. id # Root
      BY <2>7, FoldersAre
    <3> QED BY <1>4, <2>1, <2>2, <2>5, <3>1, <3>2 DEF ArtistIs
  <2> QED BY <2>6, <2>7
<1>6. ASSUME NEW artist \in Snapshot.artists, NEW other \in Snapshot.artists
      PROVE  other.id \notin artist.albums /\ (artist.id = other.id => artist = other)
  <2>1. PICK id \in ArtistIds(facts) : artist = ArtistOf(facts, id)
    BY <1>3
  <2>2. PICK key \in ArtistIds(facts) : other = ArtistOf(facts, key)
    BY <1>3
  <2>3. other.id = key /\ artist.id = id /\ artist.albums = AlbumsOf(facts, id)
    BY <1>4, <2>1, <2>2
  <2>4. key \notin AlbumsOf(facts, id)
    BY DEF AlbumsOf
  <2> QED BY <2>1, <2>2, <2>3, <2>4
<1>7. IsFiniteSet(Snapshot.artists)
  <2> DEFINE g == [fact \in facts |-> ArtistOf(facts, fact.artist.key)]
             all == {g[fact] : fact \in facts}
  <2>1. IsFiniteSet(facts)
    BY <1>2, FactsAre
  <2>2. IsFiniteSet(all)
    <3> HIDE DEF g
    <3> QED BY <2>1, ImageFinite
  <2>3. Snapshot.artists \subseteq all
    BY <1>3 DEF ArtistIds
  <2> QED BY <2>2, <2>3, FS_Subset
<1> QED BY <1>5, <1>6, <1>7

-----------------------------------------------------------------------------
(* What is listed.                                                         *)

(* The fields of an entry.                                                 *)
Fields == {"id", "parent", "title", "count", "path", "artist", "album", "has_art"}

LocalTokens == STRING \cup {"tag-artist:"}

(* Nothing in a view's ids would have to be escaped.                       *)
LocalIds == {id \in Seq(LocalTokens) : ToSet(id) \cap DOMAIN Escapes = {}}

(* An item is listed as it is in the index.                                *)
ListsItem(e) ==
  /\ e.id \in Items
  /\ e.path = lib.items[e.id].path /\ e.path # None
  /\ e.has_art = lib.items[e.id].has_art

(* An entry listed at a parent; a container, which is none of the items,   *)
(* says how many children it has.                                          *)
EntryAt(e, parent) ==
  /\ DOMAIN e = Fields
  /\ e.parent = parent /\ e.title # None /\ e.id \in LocalIds
  /\ \/ ListsItem(e)
     \/ e.path = None /\ e.id \notin Items /\ e.count \in Nat

(* A listing is a sequence.                                                *)
Listing(l) == Len(l) \in Nat /\ l \in Seq(ToSet(l)) /\ DOMAIN l = 1 .. Len(l)

EntriesAt(l, parent) == \A i \in 1 .. Len(l) : EntryAt(l[i], parent)

LEMMA ListingOf ==
  ASSUME NEW X, NEW l \in Seq(X)
  PROVE  Listing(l)
<1>1. \A i \in 1 .. Len(l) : l[i] \in ToSet(l)
  BY LenProperties DEF ToSet
<1> QED BY <1>1, LenProperties DEF Listing

LEMMA MadeListing ==
  ASSUME NEW n \in Nat, NEW l, DOMAIN l = 1 .. n, l = [i \in 1 .. n |-> l[i]]
  PROVE  Listing(l) /\ Len(l) = n
<1>1. l \in [1 .. n -> ToSet(l)]
  BY DEF ToSet
<1>2. l \in Seq(ToSet(l)) /\ Len(l) = n
  BY <1>1, TupleIs
<1> QED BY <1>2 DEF Listing

LEMMA IdsLocal ==
  ASSUME IndexBuilt(lib), NEW id \in Containers \cup Items
  PROVE  id \in LocalIds
<1>1. id \in Seq(STRING) /\ ToSet(id) \cap DOMAIN Escapes = {}
  BY IdsAre
<1>2. id \in Seq(LocalTokens)
  BY <1>1, SeqMonotonic DEF LocalTokens
<1> QED BY <1>1, <1>2 DEF LocalIds

LEMMA TagArtistLocal ==
  ASSUME NEW key \in Seq(STRING)
  PROVE  TagArtist(key) \in LocalIds
<1>1. PICK s, c : s = percent_encode(key) /\ c = "tag-artist:"
  OBVIOUS
<1>2. s \in [1 .. Len(key) -> STRING \ DOMAIN Escapes] /\ Len(key) \in Nat
  <2>1. DOMAIN key = 1 .. Len(key) /\ Len(key) \in Nat /\ \A i \in 1 .. Len(key) : key[i] \in STRING
    BY LenProperties, ElementOfSeq
  <2> QED BY <1>1, <2>1, EscapesAssumption DEF percent_encode
<1>3. PICK X : X = (STRING \cup {c}) \ DOMAIN Escapes
  OBVIOUS
<1>4. s \in Seq(X) /\ c \in X
  <2>1. s \in Seq(STRING \ DOMAIN Escapes)
    BY <1>2, TupleIs
  <2>2. STRING \ DOMAIN Escapes \subseteq X
    BY <1>3
  <2>3. s \in Seq(X)
    BY <2>1, <2>2, SeqMonotonic
  <2>4. c \in X
    BY <1>1, <1>3, EscapesAssumption
  <2> QED BY <2>3, <2>4
<1>5. <<c>> \o s \in Seq(X)
  BY <1>4, ConcatProperties
<1>6. TagArtist(key) \in Seq(X)
  BY <1>1, <1>5 DEF TagArtist
<1>7. X \subseteq LocalTokens /\ X \cap DOMAIN Escapes = {}
  BY <1>1, <1>3 DEF LocalTokens
<1> HIDE DEF LocalTokens
<1>8. TagArtist(key) \in Seq(LocalTokens)
  BY <1>6, <1>7, SeqMonotonic
<1>9. ToSet(TagArtist(key)) \subseteq X
  BY <1>6, ToSetIn
<1> QED BY <1>7, <1>8, <1>9 DEF LocalIds

(* Of the index.                                                           *)
LEMMA FolderEntry ==
  ASSUME IndexBuilt(lib), NEW id \in Containers \ {Root}
  PROVE  /\ EntryAt(RealEntry(id), lib.containers[id].parent)
         /\ RealEntry(id).id = id /\ RealEntry(id).path = None
         /\ RealEntry(id).count = Len(ChildrenOf(id))
         /\ RealEntry(id).title \in Names
<1>1. id \notin Items /\ lib.containers[id].title \in Names /\ ChildrenOf(id) \in Seq(Containers \cup Items)
  BY FoldersAre
<1>2. PICK parent, title, count : /\ parent = lib.containers[id].parent
                                  /\ title = lib.containers[id].title
                                  /\ count = Len(ChildrenOf(id))
  OBVIOUS
<1>3. RealEntry(id) = Listed(id, parent, title, count)
  BY <1>1, <1>2 DEF RealEntry, IsItem, ChildrenOf
<1>4. count \in Nat
  BY <1>1, <1>2, LenProperties
<1>5. id \in LocalIds
  BY IdsLocal
<1> QED BY <1>1, <1>2, <1>3, <1>4, <1>5, NoneAssumption DEF EntryAt, Listed, Fields

LEMMA TrackEntry ==
  ASSUME IndexBuilt(lib), NEW id \in Items
  PROVE  /\ EntryAt(RealEntry(id), lib.items[id].parent)
         /\ RealEntry(id).id = id /\ RealEntry(id).path # None
         /\ RealEntry(id).title \in Names
<1>1. lib.items[id].path # None /\ lib.items[id].title \in Names
  BY ItemsAre
<1>2. RealEntry(id) = Track(id, lib.items[id])
  BY DEF RealEntry, IsItem
<1>3. PICK item : item = lib.items[id]
  OBVIOUS
<1>4. id \in LocalIds
  BY IdsLocal
<1>5. ListsItem(RealEntry(id))
  BY <1>1, <1>2, <1>3 DEF ListsItem, Track
<1> QED BY <1>1, <1>2, <1>3, <1>4, <1>5, NoneAssumption DEF EntryAt, Track, Fields

-----------------------------------------------------------------------------
(* How listings are sorted and cut.                                        *)

LEMMA EntriesOf ==
  ASSUME NEW X, NEW ids \in Seq(X), NEW Y, \A id \in X : RealEntry(id) \in Y
  PROVE  /\ real_entries(ids) \in Seq(Y) /\ Len(real_entries(ids)) = Len(ids)
         /\ \A i \in 1 .. Len(ids) : real_entries(ids)[i] = RealEntry(ids[i])
<1>1. PICK n : n = Len(ids)
  OBVIOUS
<1>2. n \in Nat /\ DOMAIN ids = 1 .. n /\ \A i \in 1 .. n : ids[i] \in X
  BY <1>1, LenProperties, ElementOfSeq
<1>3. real_entries(ids) = [i \in 1 .. n |-> RealEntry(ids[i])]
  BY <1>2 DEF real_entries
<1>4. real_entries(ids) \in [1 .. n -> Y]
  BY <1>2, <1>3
<1>5. real_entries(ids) \in Seq(Y) /\ Len(real_entries(ids)) = n
  BY <1>2, <1>4, TupleIs
<1> QED BY <1>1, <1>3, <1>5

LEMMA KindKeys ==
  ASSUME IndexBuilt(lib), NEW id \in (Containers \ {Root}) \cup Items
  PROVE  ByKindAndNumber(RealEntry(id)) \in KeysOf(4)
<1>1. PICK e, r, number : e = RealEntry(id) /\ r = Rank[e.title] /\ number = lib.items[e.id].number
  OBVIOUS
<1>2. e.id = id /\ e.title \in Names
  BY <1>1, FolderEntry, TrackEntry
<1>3. r \in Nat
  BY <1>1, <1>2, RankAssumption
<1>4. ByKindAndNumber(e) = IF id \in Containers THEN <<0, 0, 0, r>>
                           ELSE IF number = None THEN <<1, 1, 0, r>> ELSE <<1, 0, number, r>>
  BY <1>1, <1>2 DEF ByKindAndNumber, IsContainer
<1>5. id \notin Containers => number \in Nat \cup {None}
  BY <1>1, <1>2, ItemsAre
<1>6. ByKindAndNumber(e) \in [1 .. 4 -> Int]
  BY <1>3, <1>4, <1>5
<1> QED BY <1>1, <1>6 DEF KeysOf

(* What is sorted was there before, and nothing is left out.               *)
Resorted(l, old) ==
  /\ Listing(l) /\ Len(l) = Len(old)
  /\ \A i \in 1 .. Len(l) : \E j \in 1 .. Len(old) : l[i] = old[j]

LEMMA SortedIds ==
  ASSUME IndexBuilt(lib), NEW ids \in Seq((Containers \ {Root}) \cup Items)
  PROVE  Resorted(Sorted(ids), real_entries(ids)) /\ Len(real_entries(ids)) = Len(ids)
         /\ \A i \in 1 .. Len(ids) : real_entries(ids)[i] = RealEntry(ids[i])
<1>1. PICK all, X, Y : /\ X = (Containers \ {Root}) \cup Items
                       /\ Y = {RealEntry(id) : id \in X} /\ all = real_entries(ids)
  OBVIOUS
<1>2. /\ all \in Seq(Y) /\ Len(all) = Len(ids)
      /\ \A i \in 1 .. Len(ids) : all[i] = RealEntry(ids[i])
  BY <1>1, EntriesOf
<1>3. PICK n, keys : n = Len(ids) /\ keys = [i \in DOMAIN all |-> ByKindAndNumber(all[i])]
  OBVIOUS
<1>4. n \in Nat /\ DOMAIN all = 1 .. n /\ \A i \in 1 .. n : ids[i] \in X
  BY <1>1, <1>2, <1>3, LenProperties, ElementOfSeq
<1>5. \A i \in 1 .. n : ByKindAndNumber(all[i]) \in KeysOf(4)
  <2> SUFFICES ASSUME NEW i \in 1 .. n PROVE ByKindAndNumber(all[i]) \in KeysOf(4)
    OBVIOUS
  <2>1. PICK id : id = ids[i]
    OBVIOUS
  <2>2. ByKindAndNumber(RealEntry(id)) \in KeysOf(4)
    BY <1>1, <1>4, <2>1, KindKeys
  <2> QED BY <1>2, <1>3, <2>1, <2>2
<1>6. keys \in [1 .. Len(all) -> KeysOf(4)]
  BY <1>2, <1>3, <1>4, <1>5
<1>7. PICK l : l = StableSort(all, keys)
  OBVIOUS
<1>8. /\ l \in Seq(Y) /\ Len(l) = Len(all)
      /\ \A i \in 1 .. Len(all) : \E j \in 1 .. Len(all) : l[i] = all[j]
  <2>1. PICK four : four = 4
    OBVIOUS
  <2>2. four \in Nat /\ keys \in [1 .. Len(all) -> KeysOf(four)] /\ all \in Seq(Y)
    BY <1>2, <1>6, <2>1
  <2>3. /\ StableSort(all, keys) \in Seq(Y) /\ Len(StableSort(all, keys)) = Len(all)
        /\ \A i \in 1 .. Len(all) : \E j \in 1 .. Len(all) : StableSort(all, keys)[i] = all[j]
    BY <2>2, StableSortIs
  <2> QED BY <1>7, <2>3
<1>9. Sorted(ids) = l
  BY <1>1, <1>3, <1>7 DEF Sorted
<1>10. Listing(l)
  BY <1>8, ListingOf
<1> QED BY <1>1, <1>2, <1>8, <1>9, <1>10 DEF Resorted

LEMMA SortedAre ==
  ASSUME IndexBuilt(lib), NEW ids \in Seq((Containers \ {Root}) \cup Items),
         NEW l, l = Sorted(ids)
  PROVE  /\ Listing(l) /\ Len(l) = Len(ids)
         /\ \A i \in 1 .. Len(l) : \E j \in 1 .. Len(ids) : l[i] = RealEntry(ids[j])
<1>1. PICK all : all = real_entries(ids)
  OBVIOUS
<1>2. /\ Listing(l) /\ Len(l) = Len(all) /\ Len(all) = Len(ids)
      /\ \A i \in 1 .. Len(l) : \E j \in 1 .. Len(all) : l[i] = all[j]
      /\ \A i \in 1 .. Len(ids) : all[i] = RealEntry(ids[i])
  BY <1>1, SortedIds DEF Resorted
<1>3. PICK n : n = Len(ids)
  OBVIOUS
<1>4. \A i \in 1 .. n : \E j \in 1 .. n : l[i] = RealEntry(ids[j])
  BY <1>2, <1>3
<1> QED BY <1>2, <1>3, <1>4

LEMMA FirstIs ==
  ASSUME NEW count \in Nat, NEW l, Listing(l), NEW least,
         least = IF count <= Len(l) THEN count ELSE Len(l)
  PROVE  /\ Listing(First(count, l)) /\ Len(First(count, l)) = least
         /\ least \in Nat /\ least <= Len(l)
         /\ \A i \in 1 .. least : First(count, l)[i] = l[i]
<1>1. PICK n, X : n = Len(l) /\ X = ToSet(l)
  OBVIOUS
<1>2. n \in Nat /\ l \in Seq(X) /\ least \in Nat /\ least <= n
  <2>1. n \in Nat /\ l \in Seq(X)
    BY <1>1 DEF Listing
  <2>2. least = IF count <= n THEN count ELSE n
    BY <1>1
  <2> QED BY <2>1, <2>2, SMTT(30)
<1>3. Min({count, n}) = least
  <2>1. {count, n} \in SUBSET Nat /\ least \in {count, n} /\ \A k \in {count, n} : least <= k
    BY <1>1, <1>2
  <2> QED BY <2>1, MinIs
<1>4. First(count, l) = SubSeq(l, 1, least)
  BY <1>1, <1>3 DEF First
<1>5. PICK one, part : one = 1 /\ part = SubSeq(l, one, least)
  OBVIOUS
<1>6. \A i \in one .. least : l[i] \in X
  <2>1. \A i \in 1 .. n : l[i] \in X
    BY <1>1, <1>2, ElementOfSeq
  <2> QED BY <1>2, <1>5, <2>1
<1>7. one \in Int /\ least \in Int
  BY <1>2, <1>5
<1>8. /\ part \in Seq(X) /\ Len(part) = IF one <= least THEN least - one + 1 ELSE 0
      /\ \A i \in 1 .. least - one + 1 : part[i] = l[one + i - 1]
  BY <1>5, <1>6, <1>7, SubSeqProperties
<1>9. Len(part) = least
  BY <1>2, <1>5, <1>8
<1>10. \A i \in 1 .. least : part[i] = l[i]
  <2>1. \A i \in 1 .. least : i \in 1 .. least - one + 1 /\ one + i - 1 = i
    BY <1>2, <1>5
  <2> QED BY <1>8, <2>1
<1>11. Listing(part)
  BY <1>8, ListingOf
<1> QED BY <1>1, <1>2, <1>4, <1>5, <1>9, <1>10, <1>11

-----------------------------------------------------------------------------
(* Containers and what is in them.                                         *)

ModeIs(mode) ==
  /\ mode.view \in {"folders", "albums", "artists", "songs", "recent_albums", "recent_songs"}
  /\ mode.count \in Nat

(* Every listing of a container holds as many children.                    *)
Holds(listings, n) ==
  n \in Nat /\ listings # {} /\ \A l \in listings : Listing(l) /\ Len(l) = n

Opens(mode, id, n) == Holds(Children(mode, id), n)

(* Each child names the container it is listed in, and each container      *)
(* among them holds as many children as it says.                           *)
ListedAt(mode, l, id) ==
  \A i \in 1 .. Len(l) :
    EntryAt(l[i], id) /\ (l[i].path = None => Opens(mode, l[i].id, l[i].count))

LEMMA ChildIds ==
  ASSUME IndexBuilt(lib), NEW id \in Containers
  PROVE  ChildrenOf(id) \in Seq((Containers \ {Root}) \cup Items)
<1>1. PICK ids, n, X : ids = ChildrenOf(id) /\ n = Len(ids) /\ X = (Containers \ {Root}) \cup Items
  OBVIOUS
<1>2. ids \in Seq(Containers \cup Items) /\ \A i \in DOMAIN ids : ChildOf(ids[i], id)
  BY <1>1, FoldersAre
<1>3. n \in Nat /\ DOMAIN ids = 1 .. n /\ ids = [i \in 1 .. n |-> ids[i]]
  BY <1>1, <1>2, LenProperties
<1>4. \A i \in 1 .. n : ids[i] \in X
  BY <1>1, <1>2, <1>3 DEF ChildOf
<1>5. ids \in [1 .. n -> X]
  BY <1>3, <1>4
<1>6. ids \in Seq(X)
  BY <1>3, <1>5, TupleIs
<1> QED BY <1>1, <1>6

LEMMA FolderOpens ==
  ASSUME IndexBuilt(lib), NEW mode, mode.view = "folders", NEW id \in Containers
  PROVE  /\ Children(mode, id) = {Sorted(ChildrenOf(id))}
         /\ Opens(mode, id, Len(ChildrenOf(id)))
<1>1. Children(mode, id) = {Sorted(ChildrenOf(id))}
  <2>1. {id} \cap Containers = {id}
    OBVIOUS
  <2>2. Children(mode, id) = {Sorted(lib.containers[c].children) : c \in {id} \cap Containers}
    BY DEF Children, children_within
  <2> QED BY <2>1, <2>2 DEF ChildrenOf
<1>2. PICK l, ids : l = Sorted(ids) /\ ids = ChildrenOf(id)
  OBVIOUS
<1>3. ids \in Seq((Containers \ {Root}) \cup Items)
  BY <1>2, ChildIds
<1>4. Listing(l) /\ Len(l) = Len(ids)
  BY <1>2, <1>3, SortedAre
<1>5. Len(ids) \in Nat
  BY <1>3, LenProperties
<1> QED BY <1>1, <1>2, <1>4, <1>5 DEF Opens, Holds

LEMMA FoldersListed ==
  ASSUME IndexBuilt(lib), NEW mode, mode.view = "folders", NEW id,
         NEW l \in Children(mode, id)
  PROVE  ListedAt(mode, l, id)
<1>1. id \in Containers
  BY DEF Children, children_within
<1>2. PICK ids : ids = ChildrenOf(id)
  OBVIOUS
<1>3. l = Sorted(ids)
  BY <1>1, <1>2, FolderOpens
<1>4. ids \in Seq((Containers \ {Root}) \cup Items) /\ \A i \in DOMAIN ids : ChildOf(ids[i], id)
  BY <1>1, <1>2, ChildIds, FoldersAre
<1>5. /\ Len(l) = Len(ids)
      /\ \A i \in 1 .. Len(l) : \E j \in 1 .. Len(ids) : l[i] = RealEntry(ids[j])
  BY <1>3, <1>4, SortedAre
<1> SUFFICES ASSUME NEW i \in 1 .. Len(l)
             PROVE  EntryAt(l[i], id) /\ (l[i].path = None => Opens(mode, l[i].id, l[i].count))
  BY DEF ListedAt
<1>6. PICK j \in 1 .. Len(ids) : l[i] = RealEntry(ids[j])
  BY <1>5
<1>7. PICK child : child = ids[j]
  OBVIOUS
<1>8. ChildOf(child, id)
  <2>1. j \in DOMAIN ids
    BY <1>4, LenProperties
  <2> QED BY <1>4, <1>7, <2>1
<1>9. CASE child \in Containers \ {Root} /\ lib.containers[child].parent = id
  <2>1. /\ EntryAt(RealEntry(child), id)
        /\ RealEntry(child).id = child /\ RealEntry(child).count = Len(ChildrenOf(child))
    BY <1>9, FolderEntry
  <2>2. Opens(mode, child, Len(ChildrenOf(child)))
    BY <1>9, FolderOpens
  <2> QED BY <1>6, <1>7, <2>1, <2>2
<1>10. CASE child \in Items /\ lib.items[child].parent = id
  BY <1>6, <1>7, <1>10, TrackEntry
<1> QED BY <1>8, <1>9, <1>10 DEF ChildOf

(* The tracks of an album hang below it.                                   *)
LEMMA TracksListed ==
  ASSUME IndexBuilt(lib), NEW album \in Containers
  PROVE  /\ Listing(tracks_of_album(album)) /\ Len(tracks_of_album(album)) = Len(Tracks(album))
         /\ \A i \in 1 .. Len(tracks_of_album(album)) :
              /\ EntryAt(tracks_of_album(album)[i], album)
              /\ tracks_of_album(album)[i].path # None
              /\ \E item \in Items : tracks_of_album(album)[i] = RealEntry(item)
<1>1. PICK l, ids, children :
        l = tracks_of_album(album) /\ ids = Tracks(album) /\ children = ChildrenOf(album)
  OBVIOUS
<1>2. children \in Seq(Containers \cup Items) /\ \A i \in DOMAIN children : ChildOf(children[i], album)
  BY <1>1, FoldersAre
<1>3. ids = Only(children, Items)
  BY <1>1 DEF Tracks, ChildrenOf
<1>4. ids \in Seq(Items) /\ ToSet(ids) = ToSet(children) \cap Items
  <2>1. /\ ids \in Seq((Containers \cup Items) \cap Items)
        /\ ToSet(ids) = ToSet(children) \cap Items
    BY <1>2, <1>3, OnlyCollects
  <2>2. (Containers \cup Items) \cap Items \subseteq Items
    OBVIOUS
  <2> QED BY <2>1, <2>2, SeqMonotonic
<1>5. \A id \in ToSet(ids) : lib.items[id].parent = album
  <2> SUFFICES ASSUME NEW id \in ToSet(ids) PROVE lib.items[id].parent = album
    OBVIOUS
  <2>1. id \in Items /\ id \notin Containers
    BY <1>4, FoldersAre
  <2>2. PICK i \in DOMAIN children : id = children[i]
    BY <1>4 DEF ToSet
  <2> QED BY <1>2, <2>1, <2>2 DEF ChildOf
<1>6. ids \in Seq((Containers \ {Root}) \cup Items)
  BY <1>4, SeqMonotonic
<1>7. l = Sorted(ids)
  BY <1>1 DEF tracks_of_album
<1>8. /\ Listing(l) /\ Len(l) = Len(ids)
      /\ \A i \in 1 .. Len(l) : \E j \in 1 .. Len(ids) : l[i] = RealEntry(ids[j])
  BY <1>6, <1>7, SortedAre
<1>9. ASSUME NEW i \in 1 .. Len(l)
      PROVE  /\ EntryAt(l[i], album) /\ l[i].path # None
             /\ \E item \in Items : l[i] = RealEntry(item)
  <2>1. PICK j \in 1 .. Len(ids) : l[i] = RealEntry(ids[j])
    BY <1>8
  <2>2. PICK id : id = ids[j]
    OBVIOUS
  <2>3. id \in Items /\ id \in ToSet(ids)
    BY <1>4, <2>2, ElementOfSeq, LenProperties DEF ToSet
  <2>4. lib.items[id].parent = album
    BY <1>5, <2>3
  <2> QED BY <2>1, <2>2, <2>3, <2>4, TrackEntry
<1> QED BY <1>1, <1>8, <1>9

-----------------------------------------------------------------------------
(* Albums.                                                                 *)

(* Listings of the same length, of these entries.                          *)
Made(listings, n, S) ==
  Holds(listings, n) /\ \A l \in listings : \A i \in 1 .. Len(l) : l[i] \in S

LEMMA SortedHasAll ==
  ASSUME NEW n \in Nat, NEW S, IsFiniteSet(S), NEW key \in [S -> KeysOf(n)]
  PROVE  \A l \in SortedAnyhow(key) : \A e \in S : \E i \in 1 .. Len(l) : l[i] = e
<1> SUFFICES ASSUME NEW l \in SortedAnyhow(key), NEW e \in S PROVE \E i \in 1 .. Len(l) : l[i] = e
  OBVIOUS
<1>1. PICK K : K = KeysOf(n)
  OBVIOUS
<1> QED BY <1>1, SortedAll

LEMMA SortedMade ==
  ASSUME NEW n \in Nat, NEW S, IsFiniteSet(S), NEW key \in [S -> KeysOf(n)]
  PROVE  Made(SortedAnyhow(key), Cardinality(S), S)
<1>1. SortedAnyhow(key) # {}
  BY SortedExists
<1>2. Cardinality(S) \in Nat
  BY FS_CardinalityType
<1>3. ASSUME NEW l \in SortedAnyhow(key)
      PROVE  Listing(l) /\ Len(l) = Cardinality(S) /\ \A i \in 1 .. Len(l) : l[i] \in S
  <2>1. PICK K : K = KeysOf(n)
    OBVIOUS
  <2>2. l \in Seq(S) /\ Len(l) = Cardinality(S)
    BY <2>1, SortedIs
  <2> QED BY <2>2, ListingOf, ElementOfSeq
<1> QED BY <1>1, <1>2, <1>3 DEF Made, Holds

LEMMA OneMade ==
  ASSUME NEW S, NEW l \in Seq(S)
  PROVE  Made({l}, Len(l), S)
<1>1. Listing(l) /\ Len(l) \in Nat
  BY ListingOf, LenProperties
<1> QED BY <1>1, ElementOfSeq DEF Made, Holds

LEMMA MadeOfMore ==
  ASSUME NEW listings, NEW n, NEW S, NEW T, Made(listings, n, S), S \subseteq T
  PROVE  Made(listings, n, T)
  BY DEF Made

LEMMA FirstMade ==
  ASSUME NEW count \in Nat, NEW listings, NEW n, NEW S, Made(listings, n, S)
  PROVE  \E m \in Nat : Made({First(count, l) : l \in listings}, m, S)
<1>1. PICK m : m = IF count <= n THEN count ELSE n
  OBVIOUS
<1>2. n \in Nat /\ listings # {}
  BY DEF Made, Holds
<1>3. ASSUME NEW l \in listings
      PROVE  /\ Listing(First(count, l)) /\ Len(First(count, l)) = m
             /\ \A i \in 1 .. Len(First(count, l)) : First(count, l)[i] \in S
  <2>1. Listing(l) /\ Len(l) = n /\ \A i \in 1 .. Len(l) : l[i] \in S
    BY DEF Made, Holds
  <2>2. PICK cut : cut = First(count, l)
    OBVIOUS
  <2>3. Listing(cut) /\ Len(cut) = m /\ m <= n /\ m \in Nat /\ \A i \in 1 .. m : cut[i] = l[i]
    BY <1>1, <2>1, <2>2, FirstIs
  <2>4. \A i \in 1 .. m : i \in 1 .. n
    BY <1>2, <2>3
  <2> QED BY <2>1, <2>2, <2>3, <2>4
<1>4. m \in Nat
  BY <1>1, <1>2
<1> QED BY <1>2, <1>3, <1>4 DEF Made, Holds

LEMMA UnderIs ==
  ASSUME NEW e, NEW old, NEW parent, EntryAt(e, old)
  PROVE  /\ EntryAt(Under(parent, e), parent)
         /\ Under(parent, e).id = e.id /\ Under(parent, e).count = e.count
         /\ Under(parent, e).path = e.path /\ Under(parent, e).title = e.title
<1>1. DOMAIN e = Fields
  BY DEF EntryAt
<1>2. PICK f : f = [e EXCEPT !.parent = parent]
  OBVIOUS
<1>3. /\ DOMAIN f = Fields /\ f.parent = parent /\ f.id = e.id /\ f.title = e.title
      /\ f.count = e.count /\ f.path = e.path /\ f.has_art = e.has_art
  BY <1>1, <1>2 DEF Fields
<1>4. Under(parent, e) = f
  BY <1>2 DEF Under
<1> QED BY <1>3, <1>4 DEF EntryAt, ListsItem

(* What hangs below the root at the top of a view.                         *)
Rerooted(listings) == {[i \in DOMAIN l |-> reparent_to_root(l[i])] : l \in listings}

LEMMA RerootedMade ==
  ASSUME NEW listings, NEW n, NEW S, Made(listings, n, S)
  PROVE  Made(Rerooted(listings), n, {Under(Root, e) : e \in S})
<1>1. n \in Nat /\ listings # {}
  BY DEF Made, Holds
<1>2. ASSUME NEW l \in listings, NEW up, up = [i \in DOMAIN l |-> reparent_to_root(l[i])]
      PROVE  Listing(up) /\ Len(up) = n /\ \A i \in 1 .. Len(up) : up[i] \in {Under(Root, e) : e \in S}
  <2>1. DOMAIN l = 1 .. n /\ \A i \in 1 .. n : l[i] \in S
    BY DEF Made, Holds, Listing
  <2>2. PICK T : T = {Under(Root, e) : e \in S}
    OBVIOUS
  <2>3. up \in [1 .. n -> T]
    BY <1>2, <2>1, <2>2 DEF reparent_to_root
  <2>4. up \in Seq(T) /\ Len(up) = n
    BY <1>1, <2>3, TupleIs
  <2> QED BY <2>2, <2>3, <2>4, ListingOf
<1>3. Rerooted(listings) # {}
  BY <1>1 DEF Rerooted
<1>4. ASSUME NEW up \in Rerooted(listings)
      PROVE  Listing(up) /\ Len(up) = n /\ \A i \in 1 .. Len(up) : up[i] \in {Under(Root, e) : e \in S}
  BY <1>2 DEF Rerooted
<1> QED BY <1>1, <1>3, <1>4 DEF Made, Holds

LEMMA SnapshotTyped ==
  ASSUME IndexBuilt(lib)
  PROVE  /\ Snapshot.items \in Seq(Items)
         /\ Snapshot.album_ids \subseteq Containers \ {Root} /\ IsFiniteSet(Snapshot.album_ids)
         /\ \A album \in Snapshot.album_ids :
              /\ Fact(Snapshot, album) \in Snapshot.facts
              /\ Fact(Snapshot, album).album = album /\ Fact(Snapshot, album).title \in Names
<1>1. PICK snapshot, items, facts :
        snapshot = Snapshot /\ items = snapshot.items /\ facts = snapshot.facts
  OBVIOUS
<1>2. /\ items \in Seq(Items) /\ snapshot.album_ids = album_ids(items)
      /\ facts = resolve_album_facts(items)
  BY <1>1, SnapshotIs, AllItemsTyped
<1>3. album_ids(items) \subseteq Containers \ {Root} /\ IsFiniteSet(album_ids(items))
  BY <1>2, AlbumIdsAre
<1>4. /\ \A album \in album_ids(items) : \E fact \in facts : fact.album = album
      /\ \A fact \in facts : fact.title \in Names
  BY <1>2, FactsAre DEF FactTyped
<1>5. \A album \in album_ids(items) :
        /\ Fact(snapshot, album) \in facts
        /\ Fact(snapshot, album).album = album /\ Fact(snapshot, album).title \in Names
  BY <1>1, <1>4 DEF Fact
<1> QED BY <1>1, <1>2, <1>3, <1>5

LEMMA AlbumEntry ==
  ASSUME IndexBuilt(lib), NEW album \in Snapshot.album_ids,
         NEW e, e = album_container(Snapshot, album)
  PROVE  /\ EntryAt(e, lib.containers[album].parent) /\ e.id = album /\ e.path = None
         /\ e.count = Len(Tracks(album)) /\ e.title \in Names
<1>1. album \in Containers \ {Root} /\ Fact(Snapshot, album).title \in Names
  BY SnapshotTyped
<1>2. album \notin Items /\ album \in LocalIds
  BY <1>1, FoldersAre, IdsLocal
<1>3. Len(Tracks(album)) \in Nat
  BY <1>1, TracksListed DEF Listing
<1>4. PICK parent, title, count : /\ parent = lib.containers[album].parent
                                  /\ title = Fact(Snapshot, album).title
                                  /\ count = Len(Tracks(album))
  OBVIOUS
<1>5. e = Listed(album, parent, title, count)
  BY <1>4 DEF album_container
<1> QED BY <1>1, <1>2, <1>3, <1>4, <1>5, NoneAssumption DEF EntryAt, Listed, Fields

AlbumViews == {"albums", "artists", "recent_albums"}

NoArtist(mode, id) == mode.view = "artists" => \A a \in Snapshot.artists : a.id # id

LEMMA AlbumOpens ==
  ASSUME IndexBuilt(lib), NEW mode, mode.view \in AlbumViews,
         NEW album \in Snapshot.album_ids, NoArtist(mode, album)
  PROVE  /\ Children(mode, album) = {tracks_of_album(album)}
         /\ Opens(mode, album, Len(Tracks(album)))
<1>1. album \in Containers \ {Root}
  BY SnapshotTyped
<1>2. mode.view # "folders"
  BY DEF AlbumViews
<1>3. ~(mode.view = "artists" /\ {a \in Snapshot.artists : a.id = album} # {})
  BY DEF NoArtist
<1>4. {album} \cap Snapshot.album_ids = {album}
  OBVIOUS
<1>5. Children(mode, album) = {tracks_of_album(a) : a \in {album} \cap Snapshot.album_ids}
  BY <1>1, <1>2, <1>3 DEF Children, children_within, AlbumViews
<1>6. Children(mode, album) = {tracks_of_album(album)}
  BY <1>4, <1>5
<1>7. Listing(tracks_of_album(album)) /\ Len(tracks_of_album(album)) = Len(Tracks(album))
  BY <1>1, TracksListed
<1>8. Len(Tracks(album)) \in Nat
  BY <1>7 DEF Listing
<1> QED BY <1>6, <1>7, <1>8 DEF Opens, Holds

-----------------------------------------------------------------------------
(* Artists.                                                                *)

LEMMA ArtistEntry ==
  ASSUME IndexBuilt(lib), NEW artist \in Snapshot.artists, NEW e, e = artist_container(artist)
  PROVE  /\ EntryAt(e, None) /\ e.id = artist.id /\ e.path = None
         /\ e.count = Cardinality(artist.albums) /\ e.title = artist.title /\ e.title \in Names
         /\ IsFiniteSet(artist.albums)
<1>1. ArtistIs(artist)
  BY ArtistsAre
<1>2. artist.title \in Names /\ artist.albums \subseteq Snapshot.album_ids
  BY <1>1 DEF ArtistIs
<1>3. IsFiniteSet(artist.albums)
  BY <1>2, SnapshotTyped, FS_Subset
<1>4. Cardinality(artist.albums) \in Nat
  BY <1>3, FS_CardinalityType
<1>5. artist.id \in LocalIds /\ artist.id \notin Items
  <2>1. CASE FolderOf(Snapshot.items, artist.id)
    BY <2>1, FoldersAre, IdsLocal DEF FolderOf
  <2>2. CASE NamedOf(Snapshot.items, artist)
    <3>1. PICK key : key = KeyOf[artist.title]
      OBVIOUS
    <3>2. key \in Seq(STRING) /\ artist.id = TagArtist(key)
      BY <1>2, <2>2, <3>1, KeyAssumption DEF NamedOf
    <3> QED BY <3>2, TagArtistLocal, TagArtistApart
  <2> QED BY <1>1, <2>1, <2>2 DEF ArtistIs
<1>6. PICK id, title, count :
        id = artist.id /\ title = artist.title /\ count = Cardinality(artist.albums)
  OBVIOUS
<1>7. e = Listed(id, None, title, count)
  BY <1>6 DEF artist_container
<1> QED BY <1>2, <1>3, <1>4, <1>5, <1>6, <1>7, NoneAssumption DEF EntryAt, Listed, Fields

(* One listing per album.                                                  *)
LEMMA AlbumsCounted ==
  ASSUME IndexBuilt(lib), NEW held, held \subseteq Snapshot.album_ids, NEW parent,
         NEW S, S = {Under(parent, a) : a \in album_containers(Snapshot, held)}
  PROVE  IsFiniteSet(S) /\ Cardinality(S) = Cardinality(held)
<1> DEFINE f == [album \in held |-> Under(parent, album_container(Snapshot, album))]
           g == [e \in S |-> e.id]
<1>1. IsFiniteSet(held)
  BY SnapshotTyped, FS_Subset
<1>2. S = {f[album] : album \in held}
  BY DEF album_containers
<1>3. \A album \in held : f[album] \in S /\ f[album].id = album
  <2> SUFFICES ASSUME NEW album \in held PROVE f[album] \in S /\ f[album].id = album
    OBVIOUS
  <2>1. PICK e : e = album_container(Snapshot, album)
    OBVIOUS
  <2>2. EntryAt(e, lib.containers[album].parent) /\ e.id = album
    BY <2>1, AlbumEntry
  <2>3. Under(parent, e).id = album
    BY <2>2, UnderIs
  <2> QED BY <1>2, <2>1, <2>3
<1>4. held = {g[e] : e \in S}
  <2>1. \A album \in held : \E e \in S : g[e] = album
    BY <1>3
  <2>2. \A e \in S : g[e] \in held
    <3> HIDE DEF f
    <3> QED BY <1>2, <1>3
  <2> HIDE DEF g
  <2> QED BY <2>1, <2>2
<1> HIDE DEF f, g
<1>5. IsFiniteSet(S) /\ Cardinality(S) <= Cardinality(held)
  BY <1>1, <1>2, ImageFinite
<1>6. Cardinality(held) <= Cardinality(S)
  BY <1>4, <1>5, ImageFinite
<1>7. Cardinality(S) \in Nat /\ Cardinality(held) \in Nat
  BY <1>1, <1>5, FS_CardinalityType
<1> QED BY <1>5, <1>6, <1>7

LEMMA TitleKeys ==
  ASSUME NEW S, \A e \in S : e.title \in Names
  PROVE  /\ [e \in S |-> ByTitle(e)] \in [S -> KeysOf(1)]
         /\ [e \in S |-> ByShelf(e)] \in [S -> KeysOf(2)]
<1>1. ASSUME NEW e \in S PROVE ByTitle(e) \in KeysOf(1) /\ ByShelf(e) \in KeysOf(2)
  <2>1. PICK r, s : r = Rank[e.title] /\ s = ShelfRank[e.title]
    OBVIOUS
  <2>2. r \in Int /\ s \in Int
    BY <2>1, RankAssumption
  <2>3. <<r>> \in [1 .. 1 -> Int] /\ <<s, r>> \in [1 .. 2 -> Int]
    BY <2>2
  <2> QED BY <2>1, <2>3 DEF ByTitle, ByShelf, KeysOf
<1> QED BY <1>1

ArtistAlbums(artist) ==
  {Under(artist.id, a) : a \in album_containers(Snapshot, artist.albums)}

LEMMA ArtistOpens ==
  ASSUME IndexBuilt(lib), NEW mode, mode.view = "artists", NEW artist \in Snapshot.artists
  PROVE  /\ Made(Children(mode, artist.id), Cardinality(artist.albums), ArtistAlbums(artist))
         /\ Opens(mode, artist.id, Cardinality(artist.albums))
<1>1. ArtistIs(artist)
  BY ArtistsAre
<1>2. artist.id # Root /\ artist.albums \subseteq Snapshot.album_ids
  BY <1>1 DEF ArtistIs
<1>3. {a \in Snapshot.artists : a.id = artist.id} = {artist}
  BY ArtistsAre
<1>4. Children(mode, artist.id) = UNION {albums_under_artist(Snapshot, a) : a \in {artist}}
  BY <1>2, <1>3 DEF Children, children_within
<1>5. Children(mode, artist.id) = albums_under_artist(Snapshot, artist)
  BY <1>4
<1>6. PICK S, key : S = ArtistAlbums(artist) /\ key = [e \in S |-> ByTitle(e)]
  OBVIOUS
<1>7. IsFiniteSet(S) /\ Cardinality(S) = Cardinality(artist.albums)
  BY <1>2, <1>6, AlbumsCounted DEF ArtistAlbums
<1>8. \A e \in S : e.title \in Names
  <2> SUFFICES ASSUME NEW album \in artist.albums
               PROVE  Under(artist.id, album_container(Snapshot, album)).title \in Names
    BY <1>6 DEF ArtistAlbums, album_containers
  <2>1. PICK e, up : e = album_container(Snapshot, album) /\ up = artist.id
    OBVIOUS
  <2>2. EntryAt(e, lib.containers[album].parent) /\ e.title \in Names
    BY <1>2, <2>1, AlbumEntry
  <2> QED BY <2>1, <2>2, UnderIs
<1>9. key \in [S -> KeysOf(1)]
  BY <1>6, <1>8, TitleKeys
<1>10. albums_under_artist(Snapshot, artist) = SortedAnyhow(key)
  BY <1>6 DEF albums_under_artist, ArtistAlbums
<1>11. Made(SortedAnyhow(key), Cardinality(S), S)
  <2>1. PICK one : one = 1
    OBVIOUS
  <2>2. one \in Nat /\ key \in [S -> KeysOf(one)]
    BY <1>9, <2>1
  <2> QED BY <1>7, <2>2, SortedMade
<1> QED BY <1>5, <1>6, <1>7, <1>10, <1>11 DEF Made, Opens

-----------------------------------------------------------------------------
(* The top of each view.                                                   *)

(* An entry that can be listed: a container holds as many as it says.      *)
Sound(mode, e) ==
  /\ (\E old : EntryAt(e, old)) /\ e.id # Root
  /\ e.path = None => Opens(mode, e.id, e.count)
  /\ mode.view \in AlbumViews => e.path = None

(* No two entries of an id.                                                *)
Once(S) == \A e, f \in S : e.id = f.id => e = f

(* Listings of the same length, of entries that can be listed.             *)
SoundMade(mode, listings) ==
  \E n, S : Made(listings, n, S) /\ Once(S) /\ \A e \in S : Sound(mode, e)

LEMMA TracksSound ==
  ASSUME IndexBuilt(lib), NEW mode, mode.view \notin AlbumViews, NEW id \in Items
  PROVE  Sound(mode, RealEntry(id))
<1>1. id # Root
  BY FoldersAre
<1> QED BY <1>1, TrackEntry DEF Sound

LEMMA TracksOnce == ASSUME IndexBuilt(lib) PROVE Once({RealEntry(id) : id \in Items})
  BY TrackEntry DEF Once

LEMMA SongsMade ==
  ASSUME IndexBuilt(lib), NEW mode, mode.view \notin AlbumViews
  PROVE  SoundMade(mode, all_songs(Snapshot))
<1>1. PICK Y, songs, items : /\ Y = {RealEntry(id) : id \in Items} /\ items = Snapshot.items
                             /\ songs = real_entries(items)
  OBVIOUS
<1>2. songs \in Seq(Y)
  <2>1. items \in Seq(Items)
    BY <1>1, SnapshotTyped
  <2>2. \A id \in Items : RealEntry(id) \in Y
    BY <1>1
  <2> QED BY <1>1, <2>1, <2>2, EntriesOf
<1>3. PICK n, keys : n = Len(songs) /\ keys = [i \in DOMAIN songs |-> ByTitle(songs[i])]
  OBVIOUS
<1>4. n \in Nat /\ DOMAIN songs = 1 .. n /\ \A i \in 1 .. n : songs[i] \in Y
  BY <1>2, <1>3, LenProperties, ElementOfSeq
<1>5. \A e \in Y : e.title \in Names
  BY <1>1, TrackEntry
<1>6. \A e \in Y : ByTitle(e) \in KeysOf(1)
  <2>1. [e \in Y |-> ByTitle(e)] \in [Y -> KeysOf(1)]
    BY <1>5, TitleKeys
  <2> QED BY <2>1
<1>7. PICK one : one = 1
  OBVIOUS
<1>8. keys \in [1 .. Len(songs) -> KeysOf(one)] /\ one \in Nat
  BY <1>3, <1>4, <1>6, <1>7
<1>9. StableSort(songs, keys) \in Seq(Y)
  BY <1>2, <1>8, StableSortIs
<1>10. all_songs(Snapshot) = {StableSort(songs, keys)}
  BY <1>1, <1>3 DEF all_songs
<1>11. \A e \in Y : Sound(mode, e)
  BY <1>1, TracksSound
<1>12. PICK l : l = StableSort(songs, keys)
  OBVIOUS
<1>13. Made({l}, Len(l), Y)
  BY <1>9, <1>12, OneMade
<1> QED BY <1>1, <1>10, <1>11, <1>12, <1>13, TracksOnce DEF SoundMade

LEMMA FirstSound ==
  ASSUME NEW mode, NEW count \in Nat, NEW listings, SoundMade(mode, listings)
  PROVE  SoundMade(mode, {First(count, l) : l \in listings})
<1>1. PICK n, S : Made(listings, n, S) /\ Once(S) /\ \A e \in S : Sound(mode, e)
  BY DEF SoundMade
<1>2. PICK m \in Nat : Made({First(count, l) : l \in listings}, m, S)
  BY <1>1, FirstMade
<1> QED BY <1>1, <1>2 DEF SoundMade

LEMMA RecentSongsMade ==
  ASSUME IndexBuilt(lib), NEW mode, mode.count \in Nat, mode.view \notin AlbumViews
  PROVE  SoundMade(mode, recently_added_songs(Snapshot, mode.count))
<1>1. PICK Y, set, recent, songs :
        /\ Y = {RealEntry(id) : id \in Items}
        /\ set = {item \in Items : lib.items[item].modified >= Cutoff}
        /\ recent = Only(Snapshot.items, set) /\ songs = real_entries(recent)
  OBVIOUS
<1>2. recent \in Seq(Items)
  <2>1. recent \in Seq(Items \cap set)
    BY <1>1, SnapshotTyped, OnlyCollects
  <2>2. Items \cap set \subseteq Items
    OBVIOUS
  <2> QED BY <2>1, <2>2, SeqMonotonic
<1>3. songs \in Seq(Y) /\ Len(songs) = Len(recent)
  <2>1. \A id \in Items : RealEntry(id) \in Y
    BY <1>1
  <2> QED BY <1>1, <1>2, <2>1, EntriesOf
<1>4. PICK n, ages : /\ n = Len(recent)
                     /\ ages = [i \in DOMAIN recent |-> ByAge(lib.items[recent[i]].modified)]
  OBVIOUS
<1>5. n \in Nat /\ DOMAIN recent = 1 .. n /\ \A i \in 1 .. n : recent[i] \in Items
  BY <1>2, <1>4, LenProperties, ElementOfSeq
<1>6. \A id \in Items : ByAge(lib.items[id].modified) \in KeysOf(1)
  <2> SUFFICES ASSUME NEW id \in Items PROVE ByAge(lib.items[id].modified) \in KeysOf(1)
    OBVIOUS
  <2>1. PICK m : m = lib.items[id].modified
    OBVIOUS
  <2>2. m \in Nat
    BY <2>1, ItemsAre
  <2> QED BY <2>1, <2>2 DEF ByAge, KeysOf
<1>7. PICK one : one = 1
  OBVIOUS
<1>8. ages \in [1 .. Len(songs) -> KeysOf(one)] /\ one \in Nat
  BY <1>3, <1>4, <1>5, <1>6, <1>7
<1>9. PICK l : l = StableSort(songs, ages)
  OBVIOUS
<1>10. l \in Seq(Y)
  BY <1>3, <1>8, <1>9, StableSortIs
<1>11. SoundMade(mode, {l})
  <2>1. Made({l}, Len(l), Y)
    BY <1>10, OneMade
  <2>2. Once(Y) /\ \A e \in Y : Sound(mode, e)
    BY <1>1, TracksSound, TracksOnce
  <2> QED BY <2>1, <2>2 DEF SoundMade
<1>12. SoundMade(mode, {First(mode.count, k) : k \in {l}})
  BY <1>11, FirstSound, SMTT(30)
<1>13. recently_added_songs(Snapshot, mode.count) = {First(mode.count, l)}
  BY <1>1, <1>4, <1>9 DEF recently_added_songs
<1>14. {First(mode.count, k) : k \in {l}} = {First(mode.count, l)}
  OBVIOUS
<1> QED BY <1>12, <1>13, <1>14

LEMMA AlbumsSound ==
  ASSUME IndexBuilt(lib), NEW mode, mode.view \in {"albums", "recent_albums"},
         NEW held, held \subseteq Snapshot.album_ids,
         NEW S, S = album_containers(Snapshot, held)
  PROVE  /\ IsFiniteSet(S) /\ Once(S) /\ \A e \in S : Sound(mode, e)
         /\ \A e \in S : e.title \in Names /\ e.id \in held
<1>1. IsFiniteSet(S)
  <2> DEFINE f == [album \in held |-> album_container(Snapshot, album)]
  <2>1. IsFiniteSet(held)
    BY SnapshotTyped, FS_Subset
  <2>2. S = {f[album] : album \in held}
    BY DEF album_containers
  <2> HIDE DEF f
  <2> QED BY <2>1, <2>2, ImageFinite
<1>2. ASSUME NEW album \in held, NEW e, e = album_container(Snapshot, album)
      PROVE  Sound(mode, e) /\ e.title \in Names /\ e.id = album
  <2>1. /\ EntryAt(e, lib.containers[album].parent) /\ e.id = album
        /\ e.count = Len(Tracks(album)) /\ e.title \in Names /\ e.path = None
    BY <1>2, AlbumEntry
  <2>2. Opens(mode, album, Len(Tracks(album)))
    BY AlbumOpens DEF AlbumViews, NoArtist
  <2>3. album # Root
    BY SnapshotTyped
  <2> QED BY <2>1, <2>2, <2>3 DEF Sound
<1> QED BY <1>1, <1>2 DEF album_containers, Once

LEMMA SortedSound ==
  ASSUME NEW mode, NEW S, IsFiniteSet(S), Once(S), \A e \in S : Sound(mode, e),
         NEW n \in Nat, NEW key \in [S -> KeysOf(n)]
  PROVE  SoundMade(mode, SortedAnyhow(key))
<1>1. Made(SortedAnyhow(key), Cardinality(S), S)
  BY SortedMade
<1> QED BY <1>1 DEF SoundMade

LEMMA AlbumsMade ==
  ASSUME IndexBuilt(lib), NEW mode, mode.view = "albums"
  PROVE  SoundMade(mode, albums(Snapshot))
<1>1. PICK S, key, one : /\ S = album_containers(Snapshot, Snapshot.album_ids)
                         /\ key = [e \in S |-> ByTitle(e)] /\ one = 1
  OBVIOUS
<1>2. IsFiniteSet(S) /\ Once(S) /\ (\A e \in S : Sound(mode, e)) /\ \A e \in S : e.title \in Names
  BY <1>1, AlbumsSound
<1>3. key \in [S -> KeysOf(one)] /\ one \in Nat
  BY <1>1, <1>2, TitleKeys
<1>4. albums(Snapshot) = SortedAnyhow(key)
  BY <1>1 DEF albums
<1> QED BY <1>2, <1>3, <1>4, SortedSound

LEMMA ArtistsMade ==
  ASSUME IndexBuilt(lib), NEW mode, mode.view = "artists",
         NEW S, S = {artist_container(a) : a \in Snapshot.artists}
  PROVE  /\ Made(artists(Snapshot), Cardinality(S), S)
         /\ \A l \in artists(Snapshot) : \A e \in S : \E i \in 1 .. Len(l) : l[i] = e
         /\ Once(S) /\ \A e \in S : Sound(mode, e)
<1>1. PICK key, two : key = [e \in S |-> ByShelf(e)] /\ two = 2
  OBVIOUS
<1>2. IsFiniteSet(S)
  <2> DEFINE f == [a \in Snapshot.artists |-> artist_container(a)]
  <2>1. S = {f[a] : a \in Snapshot.artists}
    OBVIOUS
  <2>2. IsFiniteSet(Snapshot.artists)
    BY ArtistsAre
  <2> HIDE DEF f
  <2> QED BY <2>1, <2>2, ImageFinite
<1>3. ASSUME NEW artist \in Snapshot.artists, NEW e, e = artist_container(artist)
      PROVE  Sound(mode, e) /\ e.title \in Names /\ e.id = artist.id
  <2>1. /\ EntryAt(e, None) /\ e.id = artist.id /\ e.path = None
        /\ e.count = Cardinality(artist.albums) /\ e.title \in Names
    BY <1>3, ArtistEntry
  <2>2. Opens(mode, artist.id, Cardinality(artist.albums))
    BY ArtistOpens
  <2>3. artist.id # Root
    BY ArtistsAre DEF ArtistIs
  <2> QED BY <2>1, <2>2, <2>3 DEF Sound
<1>4. \A e \in S : Sound(mode, e) /\ e.title \in Names
  BY <1>3
<1>5. key \in [S -> KeysOf(two)] /\ two \in Nat
  BY <1>1, <1>4, TitleKeys
<1>6. artists(Snapshot) = SortedAnyhow(key)
  BY <1>1 DEF artists
<1>7. Made(SortedAnyhow(key), Cardinality(S), S)
  BY <1>2, <1>5, SortedMade
<1>8. Once(S)
  <2>1. \A e \in S : \E a \in Snapshot.artists : e = artist_container(a) /\ e.id = a.id
    BY <1>3
  <2>2. \A a, b \in Snapshot.artists : a.id = b.id => a = b
    BY ArtistsAre
  <2>3. PICK T : T = S
    OBVIOUS
  <2>4. SUFFICES ASSUME NEW e \in T, NEW f \in T, e.id = f.id PROVE e = f
    BY <2>3, Zenon DEF Once
  <2>5. PICK a \in Snapshot.artists : e = artist_container(a) /\ e.id = a.id
    BY <2>1, <2>3, <2>4
  <2>6. PICK b \in Snapshot.artists : f = artist_container(b) /\ f.id = b.id
    BY <2>1, <2>3, <2>4
  <2>7. a = b
    BY <2>2, <2>4, <2>5, <2>6
  <2> QED BY <2>5, <2>6, <2>7, Zenon
<1>9. \A l \in SortedAnyhow(key) : \A e \in S : \E i \in 1 .. Len(l) : l[i] = e
  BY <1>2, <1>5, SortedHasAll
<1> QED BY <1>4, <1>6, <1>7, <1>8, <1>9

LEMMA FiniteMax ==
  ASSUME NEW S \in SUBSET Nat, S # {}, IsFiniteSet(S)
  PROVE  Max(S) \in S
<1>1. PICK key, one : key = [m \in S |-> <<-m>>] /\ one = 1
  OBVIOUS
<1>2. key \in [S -> KeysOf(one)] /\ one \in Nat
  BY <1>1 DEF KeysOf
<1>3. PICK m \in S : \A k \in S : ~Less(key[k], key[m])
  BY <1>2, MinimalExists
<1>4. ASSUME NEW k \in S PROVE k <= m
  <2> SUFFICES ASSUME ~(k <= m) PROVE FALSE
    OBVIOUS
  <2>1. PICK a, b : a = key[k] /\ b = key[m]
    OBVIOUS
  <2>2. a = <<-k>> /\ b = <<-m>>
    BY <1>1, <2>1
  <2>3. 1 \in DOMAIN a /\ a[1] < b[1]
    BY <2>2
  <2>4. Less(a, b)
    BY <2>3 DEF Less
  <2> QED BY <1>3, <2>1, <2>4
<1>5. Max(S) = m
  BY <1>4, MaxIs
<1> QED BY <1>5

LEMMA NewestIs ==
  ASSUME IndexBuilt(lib), NEW album \in Snapshot.album_ids
  PROVE  Newest(album) \in Nat
<1>1. PICK held : held = {i \in Items : lib.items[i].parent = album}
  OBVIOUS
<1>2. IsFiniteSet(held)
  BY <1>1, FoldersAre, FS_Subset
<1>3. held # {}
  <2>1. PICK item \in ToSet(Snapshot.items) : album = lib.items[item].parent
    BY SnapshotIs DEF album_ids
  <2>2. item \in Items
    BY SnapshotTyped, ToSetIn
  <2> QED BY <1>1, <2>1, <2>2
<1> DEFINE f == [item \in held |-> lib.items[item].modified]
<1>4. PICK S : S = {lib.items[item].modified : item \in held}
  OBVIOUS
<1>5. S = {f[item] : item \in held}
  BY <1>4
<1>6. \A item \in held : f[item] \in Nat
  BY <1>1, ItemsAre
<1> HIDE DEF f
<1>7. IsFiniteSet(S) /\ S \in SUBSET Nat /\ S # {}
  BY <1>2, <1>3, <1>5, <1>6, ImageFinite
<1>8. Max(S) \in S
  BY <1>7, FiniteMax
<1>9. Newest(album) = Max(S)
  BY <1>1, <1>4 DEF Newest
<1> QED BY <1>7, <1>8, <1>9

LEMMA RecentAlbumsMade ==
  ASSUME IndexBuilt(lib), NEW mode, mode.view = "recent_albums", mode.count \in Nat
  PROVE  SoundMade(mode, recently_added_albums(Snapshot, mode.count))
<1>1. PICK recent, S, ages, one :
        /\ recent = {album \in Snapshot.album_ids : Newest(album) >= Cutoff}
        /\ S = album_containers(Snapshot, recent)
        /\ ages = [e \in S |-> ByAge(Newest(e.id))] /\ one = 1
  OBVIOUS
<1>2. recent \subseteq Snapshot.album_ids
  BY <1>1
<1>3. IsFiniteSet(S) /\ Once(S) /\ (\A e \in S : Sound(mode, e)) /\ \A e \in S : e.id \in recent
  BY <1>1, <1>2, AlbumsSound
<1>4. ASSUME NEW e \in S PROVE ByAge(Newest(e.id)) \in KeysOf(one)
  <2>1. PICK m : m = Newest(e.id)
    OBVIOUS
  <2>2. m \in Nat
    BY <1>2, <1>3, <2>1, NewestIs
  <2> QED BY <1>1, <2>1, <2>2 DEF ByAge, KeysOf
<1>5. ages \in [S -> KeysOf(one)] /\ one \in Nat
  BY <1>1, <1>4
<1>6. SoundMade(mode, SortedAnyhow(ages))
  BY <1>3, <1>5, SortedSound
<1>7. recently_added_albums(Snapshot, mode.count)
        = {First(mode.count, listing) : listing \in SortedAnyhow(ages)}
  BY <1>1 DEF recently_added_albums, Newest
<1> QED BY <1>6, <1>7, FirstSound

(* What a music library view lists at its top.                             *)
TopOf(mode) ==
  CASE mode.view = "songs"         -> all_songs(Snapshot)
    [] mode.view = "albums"        -> albums(Snapshot)
    [] mode.view = "artists"       -> artists(Snapshot)
    [] mode.view = "recent_songs"  -> recently_added_songs(Snapshot, mode.count)
    [] mode.view = "recent_albums" -> recently_added_albums(Snapshot, mode.count)

LEMMA TopListed ==
  ASSUME NEW mode, mode.view # "folders"
  PROVE  TopLevel(mode, Snapshot) = Rerooted(TopOf(mode)) /\ Children(mode, Root) = Rerooted(TopOf(mode))
<1>1. TopLevel(mode, Snapshot) = Rerooted(TopOf(mode))
  BY DEF TopLevel, Rerooted, TopOf
<1>2. Children(mode, Root) = TopLevel(mode, Snapshot)
  BY DEF Children, children_within
<1> QED BY <1>1, <1>2

LEMMA TopMade ==
  ASSUME IndexBuilt(lib), NEW mode, ModeIs(mode), mode.view # "folders"
  PROVE  SoundMade(mode, TopOf(mode))
<1>1. CASE mode.view = "songs"
  <2>1. TopOf(mode) = all_songs(Snapshot) /\ mode.view \notin AlbumViews
    BY <1>1 DEF TopOf, AlbumViews
  <2> QED BY <2>1, SongsMade
<1>2. CASE mode.view = "albums"
  <2>1. TopOf(mode) = albums(Snapshot)
    BY <1>2 DEF TopOf
  <2> QED BY <1>2, <2>1, AlbumsMade
<1>3. CASE mode.view = "artists"
  <2>1. TopOf(mode) = artists(Snapshot)
    BY <1>3 DEF TopOf
  <2>2. PICK S : S = {artist_container(a) : a \in Snapshot.artists}
    OBVIOUS
  <2>3. Made(artists(Snapshot), Cardinality(S), S) /\ Once(S) /\ \A e \in S : Sound(mode, e)
    BY <1>3, <2>2, ArtistsMade
  <2> QED BY <2>1, <2>3 DEF SoundMade
<1>4. CASE mode.view = "recent_songs"
  <2>1. TopOf(mode) = recently_added_songs(Snapshot, mode.count) /\ mode.view \notin AlbumViews
    BY <1>4 DEF TopOf, AlbumViews
  <2> QED BY <2>1, RecentSongsMade DEF ModeIs
<1>5. CASE mode.view = "recent_albums"
  <2>1. TopOf(mode) = recently_added_albums(Snapshot, mode.count)
    BY <1>5 DEF TopOf
  <2> QED BY <1>5, <2>1, RecentAlbumsMade DEF ModeIs
<1> QED BY <1>1, <1>2, <1>3, <1>4, <1>5 DEF ModeIs

LEMMA RootOpens ==
  ASSUME IndexBuilt(lib), NEW mode, ModeIs(mode)
  PROVE  /\ \E n : Opens(mode, Root, n)
         /\ \A l \in Children(mode, Root) : ListedAt(mode, l, Root)
<1>1. CASE mode.view = "folders"
  <2>1. Root \in Containers
    BY FoldersAre
  <2> QED BY <1>1, <2>1, FolderOpens, FoldersListed
<1>2. CASE mode.view # "folders"
  <2>1. PICK n, S : Made(TopOf(mode), n, S) /\ \A e \in S : Sound(mode, e)
    BY <1>2, TopMade DEF SoundMade
  <2>2. PICK T : T = {Under(Root, e) : e \in S}
    OBVIOUS
  <2>3. Made(Children(mode, Root), n, T)
    BY <1>2, <2>1, <2>2, TopListed, RerootedMade
  <2>4. ASSUME NEW e \in S, NEW up, up = Under(Root, e)
        PROVE  EntryAt(up, Root) /\ (up.path = None => Opens(mode, up.id, up.count))
    BY <2>1, <2>4, UnderIs DEF Sound
  <2>5. \A up \in T : EntryAt(up, Root) /\ (up.path = None => Opens(mode, up.id, up.count))
    BY <2>2, <2>4
  <2> QED BY <2>3, <2>5 DEF Made, Opens, ListedAt
<1> QED BY <1>1, <1>2

(* Every container a view lists can be opened and has as many children as  *)
(* it was listed with, and each child names the container it is listed in  *)
(* as its parent, whatever the index (folder.rs and music_library.rs,      *)
(* children).                                                              *)
THEOREM ViewsListWhatOpens ==
  ASSUME IndexBuilt(lib), NEW mode, ModeIs(mode), NEW id, NEW l \in Children(mode, id)
  PROVE  ListedAt(mode, l, id)
<1>1. CASE mode.view = "folders"
  BY <1>1, FoldersListed
<1>2. CASE mode.view # "folders" /\ id = Root
  BY <1>2, RootOpens
<1>3. CASE mode.view # "folders" /\ id # Root
  <2>1. PICK found : found = {a \in Snapshot.artists : a.id = id}
    OBVIOUS
  <2>2. Children(mode, id) =
          IF mode.view = "artists" /\ found # {}
          THEN UNION {albums_under_artist(Snapshot, a) : a \in found}
          ELSE IF mode.view \in AlbumViews
          THEN {tracks_of_album(a) : a \in {id} \cap Snapshot.album_ids} ELSE {}
    BY <1>3, <2>1 DEF Children, children_within, AlbumViews
  <2>3. CASE mode.view = "artists" /\ found # {}
    <3>1. PICK artist \in Snapshot.artists : artist.id = id
      BY <2>1, <2>3
    <3>2. Made(Children(mode, id), Cardinality(artist.albums), ArtistAlbums(artist))
      BY <2>3, <3>1, ArtistOpens
    <3>3. artist.albums \subseteq Snapshot.album_ids
      BY ArtistsAre DEF ArtistIs
    <3>4. ASSUME NEW album \in artist.albums, NEW e,
                 e = Under(id, album_container(Snapshot, album))
          PROVE  EntryAt(e, id) /\ Opens(mode, e.id, e.count)
      <4>1. PICK a : a = album_container(Snapshot, album)
        OBVIOUS
      <4>2. /\ EntryAt(a, lib.containers[album].parent) /\ a.id = album
            /\ a.count = Len(Tracks(album))
        BY <3>3, <4>1, AlbumEntry
      <4>3. EntryAt(e, id) /\ e.id = album /\ e.count = Len(Tracks(album))
        BY <3>4, <4>1, <4>2, UnderIs
      <4>4. NoArtist(mode, album)
        BY <3>1, ArtistsAre DEF NoArtist
      <4>5. Opens(mode, album, Len(Tracks(album)))
        BY <2>3, <3>3, <4>4, AlbumOpens DEF AlbumViews
      <4> QED BY <4>3, <4>5
    <3>5. \A e \in ArtistAlbums(artist) : EntryAt(e, id) /\ Opens(mode, e.id, e.count)
      BY <3>1, <3>4 DEF ArtistAlbums, album_containers
    <3> QED BY <3>2, <3>5 DEF Made, ListedAt
  <2>4. CASE ~(mode.view = "artists" /\ found # {})
    <3>1. id \in Snapshot.album_ids /\ l = tracks_of_album(id)
      BY <2>2, <2>4
    <3>2. id \in Containers
      BY <3>1, SnapshotTyped
    <3>3. \A i \in 1 .. Len(l) : EntryAt(l[i], id) /\ l[i].path # None
      BY <3>1, <3>2, TracksListed
    <3> QED BY <3>3 DEF ListedAt
  <2> QED BY <2>3, <2>4
<1> QED BY <1>1, <1>2, <1>3

(* An artist whose name tracks carry is listed once, however it is spelt,  *)
(* and no folder of that name beside it (music_library.rs, folder_artist_  *)
(* key and build_artist_containers).                                       *)
THEOREM ArtistsListedOnce ==
  ASSUME IndexBuilt(lib), NEW mode, ModeIs(mode), mode.view = "artists",
         NEW l \in Children(mode, Root), NEW m \in Children(mode, Root),
         NEW i \in 1 .. Len(l), NEW j \in 1 .. Len(m),
         l[i].id \notin Containers, KeyOf[l[i].title] = KeyOf[m[j].title]
  PROVE  l[i].id = m[j].id
<1>1. PICK S, T : /\ S = {artist_container(a) : a \in Snapshot.artists}
                  /\ T = {Under(Root, e) : e \in S}
  OBVIOUS
<1>2. Made(artists(Snapshot), Cardinality(S), S)
  BY <1>1, ArtistsMade
<1>3. TopOf(mode) = artists(Snapshot) /\ mode.view # "folders"
  BY DEF TopOf
<1>4. Children(mode, Root) = Rerooted(artists(Snapshot))
  BY <1>3, TopListed
<1>5. Made(Children(mode, Root), Cardinality(S), T)
  BY <1>1, <1>2, <1>4, RerootedMade
<1>6. l[i] \in T /\ m[j] \in T
  BY <1>5 DEF Made
<1>7. ASSUME NEW e \in T
      PROVE  \E a \in Snapshot.artists : e.id = a.id /\ e.title = a.title
  <2>1. PICK a \in Snapshot.artists : e = Under(Root, artist_container(a))
    BY <1>1
  <2>2. PICK c : c = artist_container(a)
    OBVIOUS
  <2>3. EntryAt(c, None) /\ c.id = a.id /\ c.title = a.title
    BY <2>2, ArtistEntry
  <2>4. e.id = c.id /\ e.title = c.title
    BY <2>1, <2>2, <2>3, UnderIs
  <2> QED BY <2>3, <2>4
<1>8. PICK a \in Snapshot.artists : l[i].id = a.id /\ l[i].title = a.title
  BY <1>6, <1>7
<1>9. PICK b \in Snapshot.artists : m[j].id = b.id /\ m[j].title = b.title
  BY <1>6, <1>7
<1>10. ArtistIs(a) /\ ArtistIs(b)
  BY ArtistsAre
<1>11. NamedOf(Snapshot.items, a)
  BY <1>8, <1>10 DEF ArtistIs, FolderOf
<1>12. NamedOf(Snapshot.items, b)
  <2>1. KeyOf[b.title] \in KeysTagged(Snapshot.items)
    BY <1>8, <1>9, <1>11 DEF NamedOf
  <2> QED BY <1>10, <2>1 DEF ArtistIs, FolderOf
<1> QED BY <1>8, <1>9, <1>11, <1>12 DEF NamedOf

(* Every item can be asked for by its own id, in every view, and is then   *)
(* what it is in the index (folder.rs and music_library.rs, entry).        *)
THEOREM ItemsFound ==
  ASSUME IndexBuilt(lib), NEW mode, ModeIs(mode), NEW id \in Items
  PROVE  /\ Entries(mode, id) # {}
         /\ \A found \in Entries(mode, id) :
              DOMAIN found = Fields /\ found.id = id /\ ListsItem(found)
<1>1. id \notin Containers /\ id # Root
  BY FoldersAre
<1>2. real_entry(id) = {RealEntry(id)}
  <2>1. {id} \cap (Containers \cup Items) = {id}
    OBVIOUS
  <2> QED BY <2>1 DEF real_entry
<1>3. DOMAIN RealEntry(id) = Fields /\ RealEntry(id).id = id /\ ListsItem(RealEntry(id))
  BY TrackEntry DEF EntryAt
<1>4. CASE mode.view = "folders"
  <2>1. Entries(mode, id) = real_entry(id)
    BY <1>4 DEF Entries, entry_within
  <2> QED BY <1>2, <1>3, <2>1
<1>5. CASE mode.view # "folders"
  <2> DEFINE at(l) == SelectInSeq(l, LAMBDA entry : entry.id = id)
             Answer(l) == IF at(l) = 0 THEN real_entry(id) ELSE {l[at(l)]}
  <2>1. Snapshot.album_ids \subseteq Containers
    BY SnapshotTyped
  <2>2. id \notin Snapshot.album_ids
    BY <1>1, <2>1
  <2>3. Entries(mode, id) = UNION {Answer(l) : l \in TopLevel(mode, Snapshot)}
    BY <1>1, <1>5, <2>2 DEF Entries, entry_within
  <2>4. TopLevel(mode, Snapshot) = Children(mode, Root)
    BY <1>5, TopListed
  <2>5. /\ Children(mode, Root) # {}
        /\ \A l \in Children(mode, Root) : Listing(l) /\ ListedAt(mode, l, Root)
    BY RootOpens DEF Opens, Holds
  <2>6. ASSUME NEW l \in Children(mode, Root)
        PROVE  /\ Answer(l) # {}
               /\ \A found \in Answer(l) : DOMAIN found = Fields /\ found.id = id /\ ListsItem(found)
    <3>1. PICK I, n : I = {i \in 1 .. Len(l) : l[i].id = id} /\ n = Len(l)
      OBVIOUS
    <3>2. n \in Nat /\ I \in SUBSET (0 .. n)
      BY <2>5, <3>1 DEF Listing
    <3>3. at(l) = IF I # {} THEN Min(I) ELSE 0
      BY <3>1 DEF SelectInSeq
    <3>4. CASE I = {}
      BY <1>2, <1>3, <3>3, <3>4
    <3>5. CASE I # {}
      <4>1. PICK k \in I : \A i \in I : k <= i
        <5>1. I \in SUBSET Nat
          BY <3>2
        <5> QED BY <3>5, <5>1, LeastExists
      <4>2. Min(I) = k
        <5>1. I \in SUBSET Nat
          BY <3>2
        <5> QED BY <4>1, <5>1, MinIs
      <4>3. k \in 1 .. Len(l) /\ l[k].id = id /\ k # 0
        BY <3>1
      <4>4. at(l) = k
        BY <3>3, <3>5, <4>2
      <4>5. EntryAt(l[k], Root)
        BY <2>5, <4>3 DEF ListedAt
      <4>6. DOMAIN l[k] = Fields /\ ListsItem(l[k])
        BY <4>3, <4>5 DEF EntryAt
      <4>7. Answer(l) = {l[k]}
        BY <4>3, <4>4
      <4> QED BY <4>3, <4>6, <4>7
    <3> QED BY <3>4, <3>5
  <2> HIDE DEF Answer
  <2>7. Entries(mode, id) = UNION {Answer(l) : l \in Children(mode, Root)}
    BY <2>3, <2>4
  <2> QED BY <2>5, <2>6, <2>7
<1> QED BY <1>4, <1>5

-----------------------------------------------------------------------------
(* What an id stands for when it is asked about itself.                    *)

(* What is told of an id that is not listed at the top of its view.        *)
Deeper(mode, id) ==
  IF mode.view \in AlbumViews /\ id \in Snapshot.album_ids
  THEN {IF mode.view = "artists"
        THEN Under(Or(Fact(Snapshot, id).artist.key, Root), album_container(Snapshot, id))
        ELSE album_container(Snapshot, id)}
  ELSE real_entry(id)

PlaceIn(l, id) == SelectInSeq(l, LAMBDA entry : entry.id = id)

ToldOf(mode, id, l) ==
  IF id = Root THEN {RootEntry(Len(l))}
  ELSE IF PlaceIn(l, id) = 0 THEN Deeper(mode, id) ELSE {l[PlaceIn(l, id)]}

LEMMA EntriesTold ==
  ASSUME NEW mode, mode.view # "folders", NEW id
  PROVE  Entries(mode, id) = UNION {ToldOf(mode, id, l) : l \in Children(mode, Root)}
<1>1. TopLevel(mode, Snapshot) = Children(mode, Root)
  BY TopListed
<1>2. Entries(mode, id) = UNION {ToldOf(mode, id, l) : l \in TopLevel(mode, Snapshot)}
  BY DEF Entries, entry_within, ToldOf, PlaceIn, Deeper, AlbumViews
<1> QED BY <1>1, <1>2

LEMMA PlaceInIs ==
  ASSUME NEW l, Listing(l), NEW id
  PROVE  \/ PlaceIn(l, id) = 0 /\ \A i \in 1 .. Len(l) : l[i].id # id
         \/ PlaceIn(l, id) # 0 /\ PlaceIn(l, id) \in 1 .. Len(l) /\ l[PlaceIn(l, id)].id = id
<1>1. PICK I, n : I = {i \in 1 .. Len(l) : l[i].id = id} /\ n = Len(l)
  OBVIOUS
<1>2. n \in Nat /\ I \in SUBSET Nat
  BY <1>1 DEF Listing
<1>3. PlaceIn(l, id) = IF I # {} THEN Min(I) ELSE 0
  BY <1>1 DEF PlaceIn, SelectInSeq
<1>4. CASE I = {}
  BY <1>1, <1>3, <1>4
<1>5. CASE I # {}
  <2>1. PICK k \in I : \A i \in I : k <= i
    BY <1>2, <1>5, LeastExists
  <2>2. Min(I) = k
    BY <1>2, <2>1, MinIs
  <2>3. k \in 1 .. Len(l) /\ l[k].id = id /\ k # 0
    BY <1>1
  <2> QED BY <1>3, <1>5, <2>2, <2>3
<1> QED BY <1>4, <1>5

LEMMA RealFound ==
  ASSUME IndexBuilt(lib), NEW id \in Containers \cup Items
  PROVE  real_entry(id) = {RealEntry(id)}
<1>1. {id} \cap (Containers \cup Items) = {id}
  OBVIOUS
<1> QED BY <1>1 DEF real_entry

(* What is listed at the top of a view, whatever the order.                *)
TopIs(mode, T) ==
  /\ \E n : Made(Children(mode, Root), n, T)
  /\ Once(T) /\ \A e \in T : Sound(mode, e) /\ e.parent = Root

LEMMA TopHas ==
  ASSUME IndexBuilt(lib), NEW mode, ModeIs(mode), mode.view # "folders"
  PROVE  \E T : TopIs(mode, T)
<1>1. PICK n, S : Made(TopOf(mode), n, S) /\ Once(S) /\ \A e \in S : Sound(mode, e)
  BY TopMade DEF SoundMade
<1>2. PICK T : T = {Under(Root, e) : e \in S}
  OBVIOUS
<1>3. Made(Children(mode, Root), n, T)
  BY <1>1, <1>2, TopListed, RerootedMade
<1>4. ASSUME NEW e \in S, NEW up, up = Under(Root, e)
      PROVE  Sound(mode, up) /\ up.parent = Root /\ up.id = e.id
  <2>1. PICK old : EntryAt(e, old)
    BY <1>1 DEF Sound
  <2>2. EntryAt(up, Root) /\ up.id = e.id /\ up.count = e.count /\ up.path = e.path
    BY <1>4, <2>1, UnderIs
  <2> QED BY <1>1, <2>2 DEF Sound, EntryAt
<1>5. \A up \in T : \E e \in S : up = Under(Root, e) /\ up.id = e.id
  BY <1>2, <1>4
<1>6. Once(T)
  BY <1>1, <1>5 DEF Once
<1>7. \A up \in T : Sound(mode, up) /\ up.parent = Root
  BY <1>2, <1>4
<1> QED BY <1>3, <1>6, <1>7 DEF TopIs

(* In the artists view, the artists are at the top, on every listing.      *)
LEMMA ArtistsOnTop ==
  ASSUME IndexBuilt(lib), NEW mode, mode.view = "artists", NEW l \in Children(mode, Root)
  PROVE  /\ \A i \in 1 .. Len(l) : \E a \in Snapshot.artists : l[i].id = a.id
         /\ \A a \in Snapshot.artists : \E i \in 1 .. Len(l) : l[i].id = a.id
<1>1. PICK S : S = {artist_container(a) : a \in Snapshot.artists}
  OBVIOUS
<1>2. /\ Made(artists(Snapshot), Cardinality(S), S)
      /\ \A k \in artists(Snapshot) : \A e \in S : \E i \in 1 .. Len(k) : k[i] = e
  BY <1>1, ArtistsMade
<1>3. TopOf(mode) = artists(Snapshot) /\ mode.view # "folders"
  BY DEF TopOf
<1>4. PICK k \in artists(Snapshot) : l = [i \in DOMAIN k |-> reparent_to_root(k[i])]
  BY <1>3, TopListed DEF Rerooted
<1>5. PICK n : n = Len(k)
  OBVIOUS
<1>6. n \in Nat /\ DOMAIN k = 1 .. n /\ \A i \in 1 .. n : k[i] \in S
  BY <1>2, <1>5 DEF Made, Holds, Listing
<1>7. Len(l) = n /\ \A i \in 1 .. n : l[i] = Under(Root, k[i])
  <2>1. DOMAIN l = 1 .. n /\ l = [i \in 1 .. n |-> l[i]]
    BY <1>4, <1>6
  <2>2. Len(l) = n
    BY <1>6, <2>1, MadeListing
  <2> QED BY <1>4, <1>6, <2>2 DEF reparent_to_root
<1>8. ASSUME NEW i \in 1 .. n PROVE l[i].id = k[i].id
  <2>1. PICK a \in Snapshot.artists : k[i] = artist_container(a)
    BY <1>1, <1>6
  <2>2. PICK e : e = k[i]
    OBVIOUS
  <2>3. EntryAt(e, None)
    BY <2>1, <2>2, ArtistEntry
  <2>4. Under(Root, e).id = e.id
    BY <2>3, UnderIs
  <2> QED BY <1>7, <2>2, <2>4
<1>9. \A a \in Snapshot.artists : artist_container(a).id = a.id
  BY ArtistEntry
<1>10. ASSUME NEW a \in Snapshot.artists PROVE \E i \in 1 .. n : l[i].id = a.id
  <2>1. artist_container(a) \in S
    BY <1>1
  <2>2. PICK i \in 1 .. n : k[i] = artist_container(a)
    BY <1>2, <1>5, <2>1
  <2> QED BY <1>8, <1>9, <2>2
<1>11. ASSUME NEW i \in 1 .. n PROVE \E a \in Snapshot.artists : l[i].id = a.id
  <2>1. PICK a \in Snapshot.artists : k[i] = artist_container(a)
    BY <1>1, <1>6
  <2> QED BY <1>8, <1>9, <2>1
<1> QED BY <1>7, <1>10, <1>11

(* An album is an artist's by what its tracks or its folder say.           *)
LEMMA AlbumsArtist ==
  ASSUME IndexBuilt(lib), NEW artist \in Snapshot.artists, NEW album \in artist.albums
  PROVE  Fact(Snapshot, album).artist.key = artist.id /\ album \in Snapshot.album_ids
<1>1. PICK facts, items : facts = Snapshot.facts /\ items = Snapshot.items
  OBVIOUS
<1>2. /\ items \in Seq(Items) /\ facts = resolve_album_facts(items)
      /\ Snapshot.album_ids = album_ids(items)
  BY <1>1, SnapshotIs, AllItemsTyped
<1>3. PICK id : artist = ArtistOf(facts, id)
  BY <1>1, SnapshotIs
<1>4. artist.id = id /\ artist.albums = AlbumsOf(facts, id)
  BY <1>3 DEF ArtistOf
<1>5. PICK fact \in facts : fact.artist.key = id /\ fact.album = album
  BY <1>4 DEF AlbumsOf, FactsUnder
<1>6. album \in Snapshot.album_ids
  BY ArtistsAre DEF ArtistIs
<1>7. Fact(Snapshot, album) \in facts /\ Fact(Snapshot, album).album = album
  BY <1>1, <1>6, SnapshotTyped
<1>8. Fact(Snapshot, album) = fact
  BY <1>2, <1>5, <1>7, FactsAre
<1> QED BY <1>4, <1>5, <1>6, <1>8

LEMMA FolderHas ==
  ASSUME IndexBuilt(lib), NEW mode, mode.view = "folders", NEW id,
         NEW l \in Children(mode, id)
  PROVE  \A i \in 1 .. Len(l) : \E child \in (Containers \ {Root}) \cup Items : l[i] = RealEntry(child)
<1>1. id \in Containers
  BY DEF Children, children_within
<1>2. PICK ids : ids = ChildrenOf(id)
  OBVIOUS
<1>3. l = Sorted(ids)
  BY <1>1, <1>2, FolderOpens
<1>4. ids \in Seq((Containers \ {Root}) \cup Items) /\ \A i \in DOMAIN ids : ChildOf(ids[i], id)
  BY <1>1, <1>2, ChildIds, FoldersAre
<1>5. /\ Len(l) = Len(ids)
      /\ \A i \in 1 .. Len(l) : \E j \in 1 .. Len(ids) : l[i] = RealEntry(ids[j])
  BY <1>3, <1>4, SortedAre
<1> SUFFICES ASSUME NEW i \in 1 .. Len(l)
             PROVE  \E child \in (Containers \ {Root}) \cup Items : l[i] = RealEntry(child)
  OBVIOUS
<1>6. PICK j \in 1 .. Len(ids) : l[i] = RealEntry(ids[j])
  BY <1>5
<1> QED BY <1>4, <1>6, ElementOfSeq

(* A view of the folders as the scan found them.                          *)
Filed(mode) == mode.view = "folders"

Same(mode, l) == \A i \in 1 .. Len(l) : Entries(mode, l[i].id) = {l[i]}

LEMMA FolderAgrees ==
  ASSUME IndexBuilt(lib), NEW mode, Filed(mode), NEW id, NEW l \in Children(mode, id)
  PROVE  Same(mode, l)
<1> SUFFICES ASSUME NEW i \in 1 .. Len(l) PROVE Entries(mode, l[i].id) = {l[i]}
  BY DEF Same
<1>1. PICK child \in (Containers \ {Root}) \cup Items : l[i] = RealEntry(child)
  BY FolderHas DEF Filed
<1>2. RealEntry(child).id = child
  BY FolderEntry, TrackEntry
<1>3. Entries(mode, child) = real_entry(child)
  BY DEF Entries, entry_within, Filed
<1> QED BY <1>1, <1>2, <1>3, RealFound

(* Every listing of id has child.                                          *)
InEvery(mode, id, child) ==
  \A o \in Children(mode, id) : \E h \in 1 .. Len(o) : o[h].id = child

(* What is asked about by its own id is what it was listed as, along       *)
(* whichever way it is reached, if every listing has it: of albums added   *)
(* at the same time one may be in one list of so many and not in another   *)
(* (folder.rs and music_library.rs, children and entry).                   *)
THEOREM EntriesAgree ==
  ASSUME IndexBuilt(lib), NEW mode, ModeIs(mode), NEW id, NEW l \in Children(mode, id)
  PROVE  \A k \in 1 .. Len(l) : InEvery(mode, id, l[k].id) => Entries(mode, l[k].id) = {l[k]}
<1>1. CASE Filed(mode)
  <2>1. Same(mode, l)
    BY <1>1, FolderAgrees
  <2> QED BY <2>1 DEF Same
<1> SUFFICES ASSUME NEW k \in 1 .. Len(l), InEvery(mode, id, l[k].id), mode.view # "folders"
             PROVE  Entries(mode, l[k].id) = {l[k]}
  BY <1>1 DEF Filed
<1>2. CASE mode.view # "folders" /\ id = Root
  <2>1. PICK T : TopIs(mode, T)
    BY <1>2, TopHas
  <2>2. PICK e : e = l[k]
    OBVIOUS
  <2>3. PICK n : Made(Children(mode, Root), n, T)
    BY <2>1 DEF TopIs
  <2>4. e \in T /\ e.id # Root
    BY <1>2, <2>1, <2>2, <2>3 DEF Made, TopIs, Sound
  <2>5. ASSUME NEW o \in Children(mode, Root) PROVE ToldOf(mode, e.id, o) = {e}
    <3>1. Listing(o) /\ \A i \in 1 .. Len(o) : o[i] \in T
      BY <2>3 DEF Made, Holds
    <3>2. PlaceIn(o, e.id) # 0 /\ PlaceIn(o, e.id) \in 1 .. Len(o) /\ o[PlaceIn(o, e.id)].id = e.id
      BY <1>2, <2>2, <3>1, PlaceInIs DEF InEvery
    <3>3. o[PlaceIn(o, e.id)] = e
      BY <2>1, <2>4, <3>1, <3>2 DEF TopIs, Once
    <3> QED BY <2>4, <3>2, <3>3 DEF ToldOf
  <2>6. Entries(mode, e.id) = UNION {ToldOf(mode, e.id, o) : o \in Children(mode, Root)}
    BY <1>2, EntriesTold
  <2>7. Children(mode, Root) # {}
    BY <1>2
  <2> QED BY <2>2, <2>5, <2>6, <2>7
<1>3. CASE mode.view # "folders" /\ id # Root
  <2>1. PICK found : found = {a \in Snapshot.artists : a.id = id}
    OBVIOUS
  <2>2. Children(mode, id) =
          IF mode.view = "artists" /\ found # {}
          THEN UNION {albums_under_artist(Snapshot, a) : a \in found}
          ELSE IF mode.view \in AlbumViews
          THEN {tracks_of_album(a) : a \in {id} \cap Snapshot.album_ids} ELSE {}
    BY <1>3, <2>1 DEF Children, children_within, AlbumViews
  <2>3. PICK e : e = l[k]
    OBVIOUS
  <2>4. SUFFICES e.id # Root /\ Deeper(mode, e.id) = {e}
                 /\ \A o \in Children(mode, Root) : PlaceIn(o, e.id) = 0
    <3>1. \A o \in Children(mode, Root) : ToldOf(mode, e.id, o) = {e}
      BY <2>4 DEF ToldOf
    <3>2. Entries(mode, e.id) = UNION {ToldOf(mode, e.id, o) : o \in Children(mode, Root)}
      BY <1>3, EntriesTold
    <3>3. Children(mode, Root) # {}
      BY RootOpens DEF Opens, Holds
    <3> QED BY <2>3, <3>1, <3>2, <3>3
  <2>5. \A o \in Children(mode, Root) : Listing(o)
    BY RootOpens DEF Opens, Holds
  <2>6. CASE mode.view = "artists" /\ found # {}
    <3>1. PICK artist \in Snapshot.artists : artist.id = id
      BY <2>1, <2>6
    <3>2. Made(Children(mode, id), Cardinality(artist.albums), ArtistAlbums(artist))
      BY <2>6, <3>1, ArtistOpens
    <3>3. e \in ArtistAlbums(artist)
      BY <2>3, <3>2 DEF Made
    <3>4. PICK album \in artist.albums : e = Under(id, album_container(Snapshot, album))
      BY <3>1, <3>3 DEF ArtistAlbums, album_containers
    <3>5. Fact(Snapshot, album).artist.key = id /\ album \in Snapshot.album_ids
      BY <3>1, AlbumsArtist
    <3>6. e.id = album
      <4>1. PICK a : a = album_container(Snapshot, album)
        OBVIOUS
      <4>2. EntryAt(a, lib.containers[album].parent) /\ a.id = album
        BY <3>5, <4>1, AlbumEntry
      <4> QED BY <3>4, <4>1, <4>2, UnderIs
    <3>7. album # Root
      BY <3>5, SnapshotTyped
    <3>8. ASSUME NEW o \in Children(mode, Root) PROVE PlaceIn(o, album) = 0
      <4>1. \A i \in 1 .. Len(o) : \E a \in Snapshot.artists : o[i].id = a.id
        BY <2>6, ArtistsOnTop
      <4>2. \A a \in Snapshot.artists : a.id # album
        BY <3>1, ArtistsAre
      <4>3. \A i \in 1 .. Len(o) : o[i].id # album
        BY <4>1, <4>2
      <4> QED BY <2>5, <4>3, PlaceInIs
    <3>9. id # None
      BY <3>1, ArtistsAre DEF ArtistIs
    <3>10. Deeper(mode, album) = {e}
      BY <2>6, <3>4, <3>5, <3>9 DEF Deeper, Or, AlbumViews
    <3> QED BY <3>6, <3>7, <3>8, <3>10
  <2>7. CASE ~(mode.view = "artists" /\ found # {})
    <3>1. id \in Snapshot.album_ids /\ l = tracks_of_album(id) /\ mode.view \in AlbumViews
      BY <2>2, <2>7
    <3>2. id \in Containers
      BY <3>1, SnapshotTyped
    <3>3. PICK item \in Items : e = RealEntry(item)
      BY <2>3, <3>1, <3>2, TracksListed
    <3>4. e.id = item /\ item # Root /\ item \notin Snapshot.album_ids
      BY <3>3, TrackEntry, FoldersAre, SnapshotTyped
    <3>5. PICK T : TopIs(mode, T)
      BY <1>3, TopHas
    <3>6. ASSUME NEW o \in Children(mode, Root) PROVE PlaceIn(o, item) = 0
      <4>1. \A i \in 1 .. Len(o) : o[i] \in T
        BY <3>5 DEF TopIs, Made
      <4>2. \A f \in T : f.id \notin Items
        BY <3>1, <3>5 DEF TopIs, Sound, EntryAt, ListsItem
      <4>3. \A i \in 1 .. Len(o) : o[i].id # item
        BY <4>1, <4>2
      <4> QED BY <2>5, <4>3, PlaceInIs
    <3>7. Deeper(mode, item) = {e}
      BY <3>3, <3>4, RealFound DEF Deeper
    <3> QED BY <3>4, <3>6, <3>7
  <2> QED BY <2>6, <2>7
<1> QED BY <1>2, <1>3

LEMMA OpensOnce ==
  ASSUME NEW mode, NEW id, NEW n, NEW m, Opens(mode, id, n), Opens(mode, id, m)
  PROVE  n = m
  BY DEF Opens, Holds

(* A container that can be opened says how many children it has also when  *)
(* it is asked about itself, and only a view's root has no parent          *)
(* (folder.rs and music_library.rs, entry).                                *)
THEOREM ContainersFound ==
  ASSUME IndexBuilt(lib), NEW mode, ModeIs(mode), NEW id, NEW n, Opens(mode, id, n)
  PROVE  /\ Entries(mode, id) # {}
         /\ \A found \in Entries(mode, id) :
              /\ DOMAIN found = Fields /\ found.id = id
              /\ found.path = None /\ found.count = n
              /\ id = Root => found.parent = None
<1>0. Children(mode, id) # {}
  BY DEF Opens, Holds
<1>1. CASE mode.view = "folders"
  <2>1. id \in Containers
    BY <1>0, <1>1 DEF Children, children_within
  <2>2. Opens(mode, id, Len(ChildrenOf(id)))
    BY <1>1, <2>1, FolderOpens
  <2>3. n = Len(ChildrenOf(id))
    BY <2>2, OpensOnce
  <2>4. Entries(mode, id) = {RealEntry(id)}
    BY <1>1, <2>1, RealFound DEF Entries, entry_within
  <2>5. id \notin Items
    BY <2>1, FoldersAre
  <2>6. PICK parent, title : parent = lib.containers[id].parent /\ title = lib.containers[id].title
    OBVIOUS
  <2>7. RealEntry(id) = Listed(id, parent, title, n)
    BY <2>3, <2>5, <2>6 DEF RealEntry, IsItem, ChildrenOf
  <2>8. id = Root => parent = None
    BY <2>6, FoldersAre
  <2> QED BY <2>4, <2>7, <2>8 DEF Listed, Fields
<1>2. CASE mode.view # "folders" /\ id = Root
  <2>1. ASSUME NEW o \in Children(mode, Root) PROVE ToldOf(mode, id, o) = {RootEntry(n)}
    <3>1. Len(o) = n
      BY <1>2 DEF Opens, Holds
    <3> QED BY <1>2, <3>1 DEF ToldOf
  <2>2. Entries(mode, id) = UNION {ToldOf(mode, id, o) : o \in Children(mode, Root)}
    BY <1>2, EntriesTold
  <2>3. Entries(mode, id) = {RootEntry(n)}
    BY <1>0, <1>2, <2>1, <2>2
  <2> QED BY <1>2, <2>3 DEF RootEntry, Listed, Fields
<1>3. CASE mode.view # "folders" /\ id # Root
  <2>1. PICK found : found = {a \in Snapshot.artists : a.id = id}
    OBVIOUS
  <2>2. Children(mode, id) =
          IF mode.view = "artists" /\ found # {}
          THEN UNION {albums_under_artist(Snapshot, a) : a \in found}
          ELSE IF mode.view \in AlbumViews
          THEN {tracks_of_album(a) : a \in {id} \cap Snapshot.album_ids} ELSE {}
    BY <1>3, <2>1 DEF Children, children_within, AlbumViews
  <2>3. mode.view \in AlbumViews
    BY <1>0, <2>2 DEF AlbumViews
  <2>4. PICK T : TopIs(mode, T)
    BY <1>3, TopHas
  <2>5. ASSUME NEW o \in Children(mode, Root)
        PROVE  /\ ToldOf(mode, id, o) # {}
               /\ \A e \in ToldOf(mode, id, o) :
                    DOMAIN e = Fields /\ e.id = id /\ e.path = None /\ e.count = n
    <3>1. Listing(o) /\ \A i \in 1 .. Len(o) : o[i] \in T
      BY <2>4 DEF TopIs, Made, Holds
    <3>2. CASE PlaceIn(o, id) # 0
      <4>1. PICK e : e = o[PlaceIn(o, id)]
        OBVIOUS
      <4>2. e \in T /\ e.id = id
        BY <3>1, <3>2, <4>1, PlaceInIs
      <4>3. DOMAIN e = Fields /\ e.path = None /\ Opens(mode, e.id, e.count)
        BY <2>3, <2>4, <4>2 DEF TopIs, Sound, EntryAt
      <4>4. e.count = n
        <5>1. PICK c : c = e.count
          OBVIOUS
        <5>2. Opens(mode, id, c)
          BY <4>2, <4>3, <5>1
        <5> QED BY <5>1, <5>2, OpensOnce
      <4>5. ToldOf(mode, id, o) = {e}
        BY <1>3, <3>2, <4>1 DEF ToldOf
      <4> QED BY <4>2, <4>3, <4>4, <4>5
    <3>3. CASE PlaceIn(o, id) = 0
      <4>1. \A i \in 1 .. Len(o) : o[i].id # id
        BY <3>1, <3>3, PlaceInIs
      <4>2. NoArtist(mode, id)
        BY <4>1, ArtistsOnTop DEF NoArtist
      <4>3. ~(mode.view = "artists" /\ found # {})
        BY <2>1, <4>2 DEF NoArtist
      <4>4. id \in Snapshot.album_ids
        BY <1>0, <2>2, <4>3
      <4>5. Opens(mode, id, Len(Tracks(id)))
        BY <2>3, <4>2, <4>4, AlbumOpens
      <4>6. n = Len(Tracks(id))
        BY <4>5, OpensOnce
      <4>7. PICK a, up : a = album_container(Snapshot, id)
                         /\ up = Or(Fact(Snapshot, id).artist.key, Root)
        OBVIOUS
      <4>8. EntryAt(a, lib.containers[id].parent) /\ a.id = id /\ a.path = None /\ a.count = n
        BY <4>4, <4>6, <4>7, AlbumEntry
      <4>9. /\ EntryAt(Under(up, a), up) /\ Under(up, a).id = id
            /\ Under(up, a).path = None /\ Under(up, a).count = n
        BY <4>8, UnderIs
      <4>10. ToldOf(mode, id, o) = {IF mode.view = "artists" THEN Under(up, a) ELSE a}
        BY <1>3, <2>3, <3>3, <4>4, <4>7 DEF ToldOf, Deeper
      <4> QED BY <4>8, <4>9, <4>10 DEF EntryAt
    <3> QED BY <3>2, <3>3
  <2>6. Entries(mode, id) = UNION {ToldOf(mode, id, o) : o \in Children(mode, Root)}
    BY <1>3, EntriesTold
  <2>7. Children(mode, Root) # {}
    BY RootOpens DEF Opens, Holds
  <2> QED BY <1>3, <2>5, <2>6, <2>7
<1> QED BY <1>1, <1>2, <1>3

-----------------------------------------------------------------------------
(* Nothing is gathered twice, and nothing is left out.                     *)

LEMMA ChildrenAre ==
  ASSUME IndexBuilt(lib), NEW id \in Containers
  PROVE  /\ IsInjective(ChildrenOf(id)) /\ ChildrenOf(id) \in Seq(Containers \cup Items)
         /\ \A child \in ToSet(ChildrenOf(id)) : ChildOf(child, id)
         /\ \A child : ChildOf(child, id) => child \in ToSet(ChildrenOf(id))
<1>1. ChildrenListed(lib)
  BY DEF IndexBuilt
<1>2. IsInjective(ChildrenOf(id))
  BY <1>1 DEF ChildrenListed, ChildrenOf, Containers
<1>3. /\ ChildrenOf(id) \in Seq(Containers \cup Items)
      /\ \A i \in DOMAIN ChildrenOf(id) : ChildOf(ChildrenOf(id)[i], id)
  BY FoldersAre
<1>4. ASSUME NEW child, ChildOf(child, id) PROVE child \in ToSet(ChildrenOf(id))
  BY <1>1, <1>4 DEF ChildOf, ChildrenListed, ChildrenOf, Containers, Items
<1> QED BY <1>2, <1>3, <1>4 DEF ToSet

LEMMA ReversedIs ==
  ASSUME NEW X, NEW seq \in Seq(X)
  PROVE  /\ Reverse(seq) \in Seq(X) /\ ToSet(Reverse(seq)) = ToSet(seq)
         /\ IsInjective(seq) => IsInjective(Reverse(seq))
<1>1. PICK n : n = Len(seq)
  OBVIOUS
<1>2. n \in Nat /\ DOMAIN seq = 1 .. n /\ \A i \in 1 .. n : seq[i] \in X
  BY <1>1, LenProperties, ElementOfSeq
<1>3. PICK r : r = [i \in 1 .. n |-> seq[(n - i) + 1]]
  OBVIOUS
<1>4. Reverse(seq) = r
  BY <1>1, <1>3 DEF Reverse
<1>5. \A i \in 1 .. n : (n - i) + 1 \in 1 .. n /\ (n - ((n - i) + 1)) + 1 = i
  BY <1>2
<1>6. r \in [1 .. n -> X]
  BY <1>2, <1>3, <1>5
<1>7. r \in Seq(X) /\ DOMAIN r = 1 .. n
  BY <1>2, <1>6, TupleIs
<1>8. ToSet(r) = ToSet(seq)
  <2>1. \A x \in ToSet(r) : x \in ToSet(seq)
    BY <1>2, <1>3, <1>5, <1>7 DEF ToSet
  <2>2. ASSUME NEW x \in ToSet(seq) PROVE x \in ToSet(r)
    <3>1. PICK i \in 1 .. n : x = seq[i]
      BY <1>2 DEF ToSet
    <3>2. (n - i) + 1 \in 1 .. n /\ r[(n - i) + 1] = x
      BY <1>3, <1>5, <3>1
    <3> QED BY <1>7, <3>2 DEF ToSet
  <2> QED BY <2>1, <2>2
<1>9. ASSUME IsInjective(seq) PROVE IsInjective(r)
  <2> SUFFICES ASSUME NEW i \in 1 .. n, NEW j \in 1 .. n, r[i] = r[j] PROVE i = j
    BY <1>7 DEF IsInjective
  <2>1. seq[(n - i) + 1] = seq[(n - j) + 1]
    BY <1>3
  <2>2. (n - i) + 1 = (n - j) + 1
    BY <1>2, <1>5, <1>9, <2>1 DEF IsInjective
  <2> QED BY <1>2, <2>2
<1> QED BY <1>4, <1>7, <1>8, <1>9

(* The folders right below one, each once.                                 *)
LEMMA SubfoldersOnce ==
  ASSUME IndexBuilt(lib), NEW id \in Containers
  PROVE  /\ IsInjective(Subfolders(id))
         /\ \A c \in Containers \ {Root} :
              lib.containers[c].parent = id => c \in ToSet(Subfolders(id))
<1>1. PICK only, children : children = ChildrenOf(id) /\ only = Only(children, Containers)
  OBVIOUS
<1>2. /\ IsInjective(children) /\ children \in Seq(Containers \cup Items)
      /\ \A child : ChildOf(child, id) => child \in ToSet(children)
  BY <1>1, ChildrenAre
<1>3. /\ only \in Seq((Containers \cup Items) \cap Containers) /\ IsInjective(only)
      /\ ToSet(only) = ToSet(children) \cap Containers
  BY <1>1, <1>2, OnlyCollects
<1>4. Subfolders(id) = Reverse(only)
  BY <1>1 DEF Subfolders
<1>5. IsInjective(Subfolders(id)) /\ ToSet(Subfolders(id)) = ToSet(only)
  BY <1>3, <1>4, ReversedIs
<1> QED BY <1>2, <1>3, <1>5 DEF ChildOf

(* Lists that share nothing, joined.                                       *)
LEMMA FlattenOnce ==
  ASSUME NEW X, NEW seqs \in Seq(Seq(X)),
         \A i \in 1 .. Len(seqs) : IsInjective(seqs[i]),
         \A i, j \in 1 .. Len(seqs) : i # j => ToSet(seqs[i]) \cap ToSet(seqs[j]) = {}
  PROVE  /\ FlattenSeq(seqs) \in Seq(X) /\ IsInjective(FlattenSeq(seqs))
         /\ \A x : x \in ToSet(FlattenSeq(seqs)) <=> \E i \in 1 .. Len(seqs) : x \in ToSet(seqs[i])
<1>1. PICK F : Joins(F, seqs, X)
  BY FlattenJoins
<1>2. PICK n : n = Len(seqs)
  OBVIOUS
<1>3. n \in Nat /\ \A i \in 1 .. n : seqs[i] \in Seq(X)
  BY <1>2, LenProperties, ElementOfSeq
<1>4. /\ F[0] = <<>> /\ FlattenSeq(seqs) = F[n] /\ \A i \in 0 .. n : F[i] \in Seq(X)
      /\ \A i \in 1 .. n : F[i] = F[i - 1] \o seqs[i]
  BY <1>1, <1>2 DEF Joins
<1> DEFINE Good(i) == /\ IsInjective(F[i])
                      /\ \A x : x \in ToSet(F[i]) <=> \E j \in 1 .. i : x \in ToSet(seqs[j])
           T == {i \in Nat : i <= n => Good(i)}
<1>5. 0 \in T
  <2>1. IsInjective(F[0]) /\ ToSet(F[0]) = {}
    BY <1>4, ToSetEmpty
  <2> QED BY <2>1
<1>6. ASSUME NEW i \in Nat, i \in T PROVE i + 1 \in T
  <2> SUFFICES ASSUME i + 1 <= n PROVE Good(i + 1)
    OBVIOUS
  <2>1. PICK k : k = i + 1
    OBVIOUS
  <2>2. k \in 1 .. n /\ k - 1 = i /\ i \in 0 .. n /\ \A j \in 1 .. k : j \in 1 .. i \/ j = k
    BY <1>3, <2>1
  <2>3. /\ IsInjective(F[i])
        /\ \A x : x \in ToSet(F[i]) <=> \E j \in 1 .. i : x \in ToSet(seqs[j])
    BY <1>6, <2>2
  <2>4. F[k] = F[i] \o seqs[k] /\ F[i] \in Seq(X) /\ seqs[k] \in Seq(X) /\ IsInjective(seqs[k])
    BY <1>2, <1>3, <1>4, <2>2
  <2>5. \A j \in 1 .. i : j \in 1 .. n /\ j # k
    BY <1>3, <2>1
  <2>6. ToSet(F[i]) \cap ToSet(seqs[k]) = {}
    <3> SUFFICES ASSUME NEW x \in ToSet(F[i]), x \in ToSet(seqs[k]) PROVE FALSE
      OBVIOUS
    <3>1. PICK j \in 1 .. i : x \in ToSet(seqs[j])
      BY <2>3
    <3>2. ToSet(seqs[j]) \cap ToSet(seqs[k]) = {}
      BY <1>2, <2>2, <2>5, <3>1
    <3> QED BY <3>1, <3>2
  <2>7. IsInjective(F[k]) /\ ToSet(F[k]) = ToSet(F[i]) \cup ToSet(seqs[k])
    BY <2>3, <2>4, <2>6, ToSetConcat
  <2>8. ASSUME NEW x PROVE x \in ToSet(F[k]) <=> \E j \in 1 .. k : x \in ToSet(seqs[j])
    <3>1. \A j \in 1 .. i : j \in 1 .. k
      BY <2>1
    <3>2. k \in 1 .. k
      BY <2>2
    <3> QED BY <2>2, <2>3, <2>7, <3>1, <3>2
  <2> QED BY <2>1, <2>7, <2>8
<1> HIDE DEF Good, T
<1>7. \A i \in Nat : i \in T
  BY <1>5, <1>6, NatInduct
<1>8. n \in T /\ n <= n /\ n \in 0 .. n
  BY <1>3, <1>7
<1>9. Good(n)
  BY <1>8 DEF T
<1> QED BY <1>2, <1>4, <1>8, <1>9 DEF Good

(* The folders at or below one.                                            *)
Closed(D) == \A c \in Containers \ {Root} : lib.containers[c].parent \in D => c \in D

Inside(id) == {c \in Containers : \A D \in SUBSET Containers : id \in D /\ Closed(D) => c \in D}

LEMMA InsideIs ==
  ASSUME NEW id \in Containers
  PROVE  Inside(id) \in SUBSET Containers /\ id \in Inside(id) /\ Closed(Inside(id))
<1>1. Inside(id) \in SUBSET Containers /\ id \in Inside(id)
  BY DEF Inside
<1>2. ASSUME NEW c \in Containers \ {Root}, lib.containers[c].parent \in Inside(id)
      PROVE  c \in Inside(id)
  <2> SUFFICES ASSUME NEW D \in SUBSET Containers, id \in D, Closed(D) PROVE c \in D
    BY DEF Inside
  <2>1. lib.containers[c].parent \in D
    BY <1>2 DEF Inside
  <2> QED BY <2>1 DEF Closed
<1> QED BY <1>1, <1>2 DEF Closed

LEMMA InsideLeast ==
  ASSUME NEW id \in Containers, NEW D \in SUBSET Containers, id \in D, Closed(D)
  PROVE  Inside(id) \subseteq D
  BY DEF Inside

(* One step up stays within, but for the folder itself.                    *)
LEMMA InsideUp ==
  ASSUME NEW id \in Containers, NEW c \in Inside(id), c # id
  PROVE  c # Root /\ lib.containers[c].parent \in Inside(id)
<1> SUFFICES ASSUME ~(c # Root /\ lib.containers[c].parent \in Inside(id)) PROVE FALSE
  OBVIOUS
<1>1. PICK D : D = Inside(id) \ {c}
  OBVIOUS
<1>2. D \in SUBSET Containers /\ id \in D
  BY <1>1, InsideIs
<1>3. Closed(D)
  <2> SUFFICES ASSUME NEW f \in Containers \ {Root}, lib.containers[f].parent \in D PROVE f \in D
    BY DEF Closed
  <2>1. lib.containers[f].parent \in Inside(id)
    BY <1>1
  <2>2. f \in Inside(id)
    BY <2>1, InsideIs DEF Closed
  <2> QED BY <1>1, <2>1, <2>2
<1>4. Inside(id) \subseteq D
  BY <1>2, <1>3, InsideLeast
<1> QED BY <1>1, <1>4

(* One step down comes into a subfolder.                                   *)
LEMMA InsideDown ==
  ASSUME NEW id \in Containers, NEW c \in Inside(id), c # id
  PROVE  \E f \in Containers \ {Root} : lib.containers[f].parent = id /\ c \in Inside(f)
<1>1. PICK D : D = {id} \cup {x \in Containers :
                     \E f \in Containers \ {Root} : lib.containers[f].parent = id /\ x \in Inside(f)}
  OBVIOUS
<1>2. D \in SUBSET Containers /\ id \in D
  BY <1>1
<1>3. Closed(D)
  <2> SUFFICES ASSUME NEW f \in Containers \ {Root}, lib.containers[f].parent \in D PROVE f \in D
    BY DEF Closed
  <2>1. CASE lib.containers[f].parent = id
    <3>1. f \in Inside(f)
      BY InsideIs
    <3> QED BY <1>1, <2>1, <3>1
  <2>2. CASE lib.containers[f].parent # id
    <3>1. PICK g \in Containers \ {Root} :
            lib.containers[g].parent = id /\ lib.containers[f].parent \in Inside(g)
      BY <1>1, <2>2
    <3>2. f \in Inside(g)
      BY <3>1, InsideIs DEF Closed
    <3> QED BY <1>1, <3>1, <3>2
  <2> QED BY <2>1, <2>2
<1>4. c \in D
  BY <1>2, <1>3, InsideLeast
<1> QED BY <1>1, <1>4

(* What is below is less high.                                             *)
Heights(height) ==
  /\ height \in [Containers -> 0 .. Cardinality(Containers)]
  /\ \A id \in Containers \ {Root} : height[id] < height[lib.containers[id].parent]

LEMMA InsideLower ==
  ASSUME IndexBuilt(lib), NEW height, Heights(height), NEW id \in Containers, NEW c \in Inside(id)
  PROVE  height[c] <= height[id]
<1>1. PICK D : D = {x \in Containers : height[x] <= height[id]}
  OBVIOUS
<1>2. Cardinality(Containers) \in Nat
  BY HeightExists
<1>3. \A x \in Containers : height[x] \in Int
  BY <1>2 DEF Heights
<1>4. D \in SUBSET Containers /\ id \in D
  BY <1>1, <1>3
<1>5. Closed(D)
  <2> SUFFICES ASSUME NEW f \in Containers \ {Root}, lib.containers[f].parent \in D PROVE f \in D
    BY DEF Closed
  <2>1. PICK p : p = lib.containers[f].parent
    OBVIOUS
  <2>2. p \in Containers /\ height[p] <= height[id] /\ height[f] < height[p]
    BY <1>1, <2>1 DEF Heights
  <2>3. height[f] \in Int /\ height[p] \in Int /\ height[id] \in Int
    BY <1>3, <2>2
  <2>4. height[f] <= height[id]
    BY <2>2, <2>3
  <2> QED BY <1>1, <2>4
<1>6. c \in D
  BY <1>4, <1>5, InsideLeast
<1> QED BY <1>1, <1>6

(* Two folders side by side have nothing in common.                        *)
LEMMA InsideApart ==
  ASSUME IndexBuilt(lib), NEW e \in Containers \ {Root}, NEW f \in Containers \ {Root}, e # f,
         lib.containers[e].parent = lib.containers[f].parent
  PROVE  Inside(e) \cap Inside(f) = {}
<1>1. PICK top : top = Cardinality(Containers)
  OBVIOUS
<1>2. top \in Nat /\ \E height : Heights(height)
  BY <1>1, HeightExists DEF Heights
<1>3. PICK height : Heights(height)
  BY <1>2
<1>4. \A x \in Containers : height[x] \in 0 .. top
  BY <1>1, <1>3 DEF Heights
<1>5. PICK p : p = lib.containers[e].parent
  OBVIOUS
<1>6. /\ p \in Containers /\ p = lib.containers[f].parent
      /\ height[e] < height[p] /\ height[f] < height[p]
  BY <1>3, <1>5, FoldersAre DEF Heights
<1>7. p \notin Inside(e) /\ p \notin Inside(f)
  <2>1. height[p] \in Int /\ height[e] \in Int /\ height[f] \in Int
    BY <1>2, <1>4, <1>6
  <2>2. ASSUME p \in Inside(e) PROVE FALSE
    <3>1. height[p] <= height[e]
      BY <1>3, <2>2, InsideLower
    <3> QED BY <1>6, <2>1, <3>1
  <2>3. ASSUME p \in Inside(f) PROVE FALSE
    <3>1. height[p] <= height[f]
      BY <1>3, <2>3, InsideLower
    <3> QED BY <1>6, <2>1, <3>1
  <2> QED BY <2>2, <2>3
<1> DEFINE T == {n \in Nat : \A x \in Inside(e) \cap Inside(f) : ~(top - height[x] < n)}
<1>8. 0 \in T
  <2>1. \A x \in Inside(e) : height[x] \in 0 .. top
    BY <1>4, InsideIs
  <2> QED BY <1>2, <2>1
<1>9. ASSUME NEW n \in Nat, n \in T PROVE n + 1 \in T
  <2> SUFFICES ASSUME NEW x \in Inside(e) \cap Inside(f), top - height[x] < n + 1 PROVE FALSE
    OBVIOUS
  <2>1. x # e
    BY <1>5, <1>6, <1>7, InsideUp
  <2>2. x # f
    BY <1>5, <1>6, <1>7, InsideUp
  <2>3. PICK y : y = lib.containers[x].parent
    OBVIOUS
  <2>4. x \in Containers \ {Root} /\ y \in Inside(e) \cap Inside(f) /\ y \in Containers
    BY <2>1, <2>2, <2>3, InsideUp, InsideIs
  <2>5. height[x] < height[y]
    BY <1>3, <2>3, <2>4 DEF Heights
  <2>6. top - height[y] < n
    <3>1. height[x] \in Int /\ height[y] \in Int
      BY <1>2, <1>4, <2>4
    <3> QED BY <1>2, <2>5, <3>1
  <2> QED BY <1>9, <2>4, <2>6
<1> HIDE DEF T
<1>10. \A n \in Nat : n \in T
  BY <1>8, <1>9, NatInduct
<1> SUFFICES ASSUME NEW x \in Inside(e) \cap Inside(f) PROVE FALSE
  OBVIOUS
<1>11. height[x] \in 0 .. top
  BY <1>4, InsideIs
<1>12. top + 1 \in Nat /\ top - height[x] < top + 1
  BY <1>2, <1>11
<1> QED BY <1>10, <1>12 DEF T

(* Everything is within the root.                                          *)
LEMMA InsideRoot ==
  ASSUME IndexBuilt(lib)
  PROVE  Inside(Root) = Containers
<1>0. Root \in Containers
  BY FoldersAre
<1>1. PICK top : top = Cardinality(Containers)
  OBVIOUS
<1>2. top \in Nat /\ \E height : Heights(height)
  BY <1>1, HeightExists DEF Heights
<1>3. PICK height : Heights(height)
  BY <1>2
<1>4. \A x \in Containers : height[x] \in 0 .. top
  BY <1>1, <1>3 DEF Heights
<1>5. PICK W : W = Inside(Root)
  OBVIOUS
<1>6. W \in SUBSET Containers /\ Root \in W /\ Closed(W)
  BY <1>0, <1>5, InsideIs
<1> DEFINE T == {n \in Nat : \A x \in Containers : top - height[x] < n => x \in W}
<1>7. 0 \in T
  BY <1>2, <1>4
<1>8. ASSUME NEW n \in Nat, n \in T PROVE n + 1 \in T
  <2> SUFFICES ASSUME NEW x \in Containers, top - height[x] < n + 1 PROVE x \in W
    OBVIOUS
  <2>1. CASE x = Root
    BY <1>6, <2>1
  <2>2. CASE x # Root
    <3>1. PICK y : y = lib.containers[x].parent
      OBVIOUS
    <3>2. y \in Containers /\ height[x] < height[y]
      BY <1>3, <2>2, <3>1, FoldersAre DEF Heights
    <3>3. height[x] \in Int /\ height[y] \in Int
      BY <1>2, <1>4, <3>2
    <3>4. top - height[y] < n
      BY <1>2, <3>2, <3>3
    <3>5. y \in W
      BY <1>8, <3>2, <3>4
    <3> QED BY <1>6, <2>2, <3>1, <3>5 DEF Closed
  <2> QED BY <2>1, <2>2
<1> HIDE DEF T
<1>9. \A n \in Nat : n \in T
  BY <1>7, <1>8, NatInduct
<1>10. ASSUME NEW x \in Containers PROVE x \in W
  <2>1. top + 1 \in Nat /\ top - height[x] < top + 1
    BY <1>2, <1>4
  <2> QED BY <1>9, <2>1 DEF T
<1> QED BY <1>5, <1>6, <1>10

(* What a visit of a folder should find.                                   *)
ItemsInside(id) == {item \in Items : lib.items[item].parent \in Inside(id)}

Gathers(items, id) == items \in Seq(Items) /\ IsInjective(items) /\ ToSet(items) = ItemsInside(id)

LEMMA VisitGathers ==
  ASSUME IndexBuilt(lib), NEW id \in Containers, NEW visit,
         \A i \in 1 .. Len(Subfolders(id)) : Gathers(visit[Subfolders(id)[i]], Subfolders(id)[i])
  PROVE  Gathers(Visit(visit, id), id)
<1>1. PICK subs, n, seqs : /\ subs = Subfolders(id) /\ n = Len(subs)
                           /\ seqs = [i \in DOMAIN subs |-> visit[subs[i]]]
  OBVIOUS
<1>2. /\ subs \in Seq(Containers) /\ n \in Nat /\ DOMAIN subs = 1 .. n /\ IsInjective(subs)
      /\ \A i \in 1 .. n : subs[i] \in Containers \ {Root} /\ lib.containers[subs[i]].parent = id
      /\ \A c \in Containers \ {Root} : lib.containers[c].parent = id => c \in ToSet(subs)
  BY <1>1, SubfoldersAre, SubfoldersOnce, LenProperties
<1>3. \A i \in 1 .. n : seqs[i] = visit[subs[i]] /\ Gathers(seqs[i], subs[i])
  BY <1>1, <1>2
<1>4. seqs \in Seq(Seq(Items)) /\ Len(seqs) = n
  <2>1. seqs \in [1 .. n -> Seq(Items)]
    BY <1>1, <1>2, <1>3 DEF Gathers
  <2> QED BY <1>2, <2>1, TupleIs
<1>5. \A i, j \in 1 .. n : i # j => ToSet(seqs[i]) \cap ToSet(seqs[j]) = {}
  <2> SUFFICES ASSUME NEW i \in 1 .. n, NEW j \in 1 .. n, i # j
               PROVE  ToSet(seqs[i]) \cap ToSet(seqs[j]) = {}
    OBVIOUS
  <2>1. PICK e, f : e = subs[i] /\ f = subs[j]
    OBVIOUS
  <2>2. e # f
    BY <1>2, <2>1 DEF IsInjective
  <2>3. Inside(e) \cap Inside(f) = {}
    BY <1>2, <2>1, <2>2, InsideApart
  <2> QED BY <1>3, <2>1, <2>3 DEF Gathers, ItemsInside
<1>6. PICK below : below = FlattenSeq(seqs)
  OBVIOUS
<1>7. /\ below \in Seq(Items) /\ IsInjective(below)
      /\ \A x : x \in ToSet(below) <=> \E i \in 1 .. n : x \in ToSet(seqs[i])
  BY <1>3, <1>4, <1>5, <1>6, FlattenOnce DEF Gathers
<1>8. PICK children, here : children = ChildrenOf(id) /\ here = Only(children, Items)
  OBVIOUS
<1>9. /\ IsInjective(children) /\ children \in Seq(Containers \cup Items)
      /\ \A child \in ToSet(children) : ChildOf(child, id)
      /\ \A child : ChildOf(child, id) => child \in ToSet(children)
  BY <1>8, ChildrenAre
<1>10. /\ here \in Seq(Items) /\ IsInjective(here)
       /\ \A x : x \in ToSet(here) <=> (x \in Items /\ lib.items[x].parent = id)
  <2>1. /\ here \in Seq((Containers \cup Items) \cap Items) /\ IsInjective(here)
        /\ ToSet(here) = ToSet(children) \cap Items
    BY <1>8, <1>9, OnlyCollects
  <2>2. (Containers \cup Items) \cap Items = Items
    OBVIOUS
  <2>3. Containers \cap Items = {}
    BY FoldersAre
  <2> QED BY <1>9, <2>1, <2>2, <2>3 DEF ChildOf
<1>11. \A i \in 1 .. n : id \notin Inside(subs[i])
  <2> SUFFICES ASSUME NEW i \in 1 .. n, id \in Inside(subs[i]) PROVE FALSE
    OBVIOUS
  <2>1. PICK f : f = subs[i]
    OBVIOUS
  <2>2. Cardinality(Containers) \in Nat /\ \E height : Heights(height)
    BY HeightExists DEF Heights
  <2>3. PICK height : Heights(height)
    BY <2>2
  <2>4. height[id] <= height[f]
    BY <1>2, <2>1, <2>3, InsideLower
  <2>5. f \in Containers \ {Root} /\ lib.containers[f].parent = id
    BY <1>2, <2>1
  <2>6. height[f] < height[id]
    BY <2>3, <2>5 DEF Heights
  <2>7. height[f] \in Int /\ height[id] \in Int
    BY <2>2, <2>3, <2>5 DEF Heights
  <2> QED BY <2>4, <2>6, <2>7
<1>12. ToSet(here) \cap ToSet(below) = {}
  <2> SUFFICES ASSUME NEW x \in ToSet(here), x \in ToSet(below) PROVE FALSE
    OBVIOUS
  <2>1. PICK i \in 1 .. n : x \in ToSet(seqs[i])
    BY <1>7
  <2>2. lib.items[x].parent \in Inside(subs[i])
    BY <1>3, <2>1 DEF Gathers, ItemsInside
  <2> QED BY <1>10, <1>11, <2>2
<1>13. PICK found : found = here \o below
  OBVIOUS
<1>14. found \in Seq(Items) /\ IsInjective(found) /\ ToSet(found) = ToSet(here) \cup ToSet(below)
  BY <1>7, <1>10, <1>12, <1>13, ToSetConcat, ConcatProperties
<1>15. Visit(visit, id) = found
  BY <1>1, <1>6, <1>8, <1>13 DEF Visit, Below
<1>16. ASSUME NEW x \in ToSet(found) PROVE x \in ItemsInside(id)
  <2>1. CASE x \in ToSet(here)
    BY <1>10, <2>1, InsideIs DEF ItemsInside
  <2>2. CASE x \in ToSet(below)
    <3>1. PICK i \in 1 .. n : x \in ToSet(seqs[i])
      BY <1>7, <2>2
    <3>2. PICK f : f = subs[i]
      OBVIOUS
    <3>3. x \in Items /\ lib.items[x].parent \in Inside(f) /\ f \in Containers
      BY <1>2, <1>3, <3>1, <3>2 DEF Gathers, ItemsInside
    <3>4. f \in Inside(id)
      BY <1>2, <3>2, InsideIs DEF Closed
    <3>5. Inside(f) \subseteq Inside(id)
      BY <3>3, <3>4, InsideIs, InsideLeast
    <3> QED BY <3>3, <3>5 DEF ItemsInside
  <2> QED BY <1>14, <1>16, <2>1, <2>2
<1>17. ASSUME NEW x \in ItemsInside(id) PROVE x \in ToSet(found)
  <2>1. x \in Items /\ lib.items[x].parent \in Inside(id)
    BY DEF ItemsInside
  <2>2. CASE lib.items[x].parent = id
    BY <1>10, <1>14, <2>1, <2>2
  <2>3. CASE lib.items[x].parent # id
    <3>1. PICK f \in Containers \ {Root} :
            lib.containers[f].parent = id /\ lib.items[x].parent \in Inside(f)
      BY <2>1, <2>3, InsideDown
    <3>2. PICK i \in 1 .. n : f = subs[i]
      BY <1>2, <3>1 DEF ToSet
    <3>3. x \in ToSet(seqs[i])
      BY <1>3, <2>1, <3>1, <3>2 DEF Gathers, ItemsInside
    <3> QED BY <1>7, <1>14, <3>3
  <2> QED BY <2>2, <2>3
<1> QED BY <1>14, <1>15, <1>16, <1>17 DEF Gathers

(* A snapshot has every item of the index, once (music_library.rs,         *)
(* all_items).                                                             *)
THEOREM EveryItemGathered ==
  ASSUME IndexBuilt(lib)
  PROVE  all_items \in Seq(Items) /\ IsInjective(all_items) /\ ToSet(all_items) = Items
<1> DEFINE visit == CHOOSE v : v = [id \in Containers |-> Visit(v, id)]
<1>1. visit = [id \in Containers |-> Visit(visit, id)]
  BY VisitExists
<1>2. all_items = visit[Root]
  BY DEF all_items, Visit, Below, Subfolders, ChildrenOf
<1> HIDE DEF visit
<1>3. PICK height \in [Containers -> 0 .. Cardinality(Containers)] :
        \A id \in Containers \ {Root} : height[id] < height[lib.containers[id].parent]
  BY HeightExists
<1> DEFINE T == {n \in Nat : \A id \in Containers : height[id] < n => Gathers(visit[id], id)}
<1>4. 0 \in T
  OBVIOUS
<1>5. ASSUME NEW n \in Nat, n \in T PROVE n + 1 \in T
  <2> SUFFICES ASSUME NEW id \in Containers, height[id] < n + 1 PROVE Gathers(visit[id], id)
    OBVIOUS
  <2>1. ASSUME NEW i \in 1 .. Len(Subfolders(id))
        PROVE  Gathers(visit[Subfolders(id)[i]], Subfolders(id)[i])
    <3>1. PICK f : f = Subfolders(id)[i]
      OBVIOUS
    <3>2. f \in Containers \ {Root} /\ lib.containers[f].parent = id
      BY <3>1, SubfoldersAre
    <3>3. height[f] < height[id] /\ height[f] \in Nat /\ height[id] \in Nat
      BY <1>3, <3>2
    <3>4. height[f] < n
      BY <3>3
    <3> QED BY <1>5, <3>1, <3>2, <3>4
  <2>2. Gathers(Visit(visit, id), id)
    BY <2>1, VisitGathers
  <2> QED BY <1>1, <2>2
<1> HIDE DEF T
<1>6. \A n \in Nat : n \in T
  BY <1>4, <1>5, NatInduct
<1>7. PICK n : n = Cardinality(Containers) + 1
  OBVIOUS
<1>8. n \in Nat /\ \A id \in Containers : height[id] < n
  BY <1>7, HeightExists
<1>9. Root \in Containers
  BY FoldersAre
<1>10. Gathers(all_items, Root)
  BY <1>2, <1>6, <1>8, <1>9 DEF T
<1>11. ItemsInside(Root) = Items
  <2>1. \A item \in Items : lib.items[item].parent \in Containers
    BY ItemsAre
  <2> QED BY <2>1, InsideRoot DEF ItemsInside
<1> QED BY <1>10, <1>11 DEF Gathers

-----------------------------------------------------------------------------
(* Nothing is listed twice.                                                *)

Distinct(l) == \A i, j \in 1 .. Len(l) : l[i].id = l[j].id => i = j

HasAll(l, S) == \A e \in S : \E i \in 1 .. Len(l) : l[i] = e

LEMMA PlaceIs ==
  ASSUME NEW n \in Nat, NEW len \in Nat, NEW keys \in [1 .. len -> KeysOf(n)],
         NEW i \in 1 .. len, NEW p,
         p = CHOOSE j \in DOMAIN keys : Cardinality(Earlier(keys, j)) = i - 1
  PROVE  p \in 1 .. len /\ Cardinality(Earlier(keys, p)) = i - 1
<1>1. \E j \in 1 .. len : Cardinality(Earlier(keys, j)) = i - 1
  BY PlacesTaken
<1> QED BY <1>1

LEMMA StableSortKeeps ==
  ASSUME NEW n \in Nat, NEW X, NEW seq \in Seq(X), NEW keys \in [1 .. Len(seq) -> KeysOf(n)],
         NEW l, l = StableSort(seq, keys)
  PROVE  /\ Distinct(seq) => Distinct(l)
         /\ HasAll(l, ToSet(seq)) /\ \A i \in 1 .. Len(l) : l[i] \in ToSet(seq)
         /\ Listing(l) /\ Len(l) = Len(seq)
<1> DEFINE len == Len(seq)
           D == 1 .. len
           place(i) == CHOOSE j \in DOMAIN keys : Cardinality(Earlier(keys, j)) = i - 1
           at == [i \in D |-> place(i)]
<1>0. len \in Nat /\ DOMAIN keys = D /\ DOMAIN seq = D
  BY LenProperties
<1>1. l = [i \in D |-> seq[place(i)]]
  <2>1. StableSort(seq, keys) = [i \in 1 .. len |-> seq[place(i)]]
    BY <1>0 DEF StableSort
  <2> QED BY <2>1
<1>2. ASSUME NEW i \in D PROVE place(i) \in D /\ Cardinality(Earlier(keys, place(i))) = i - 1
  <2>1. PICK m, p : m = len /\ p = place(i)
    OBVIOUS
  <2>2. m \in Nat /\ keys \in [1 .. m -> KeysOf(n)] /\ i \in 1 .. m
    BY <1>0, <2>1
  <2>3. p = CHOOSE j \in DOMAIN keys : Cardinality(Earlier(keys, j)) = i - 1
    BY <2>1
  <2>4. p \in 1 .. m /\ Cardinality(Earlier(keys, p)) = i - 1
    BY <2>2, <2>3, PlaceIs
  <2> QED BY <2>1, <2>4
<1>3. at \in [D -> D] /\ \A i \in D : Cardinality(Earlier(keys, at[i])) = i - 1
  BY <1>2
<1>4. \A i \in D : l[i] = seq[at[i]]
  BY <1>1
<1>5. DOMAIN l = D
  BY <1>1
<1> HIDE DEF at, place
<1>6. ASSUME NEW i \in D, NEW j \in D, at[i] = at[j] PROVE i = j
  <2>1. i - 1 = j - 1
    BY <1>3, <1>6
  <2> QED BY <2>1
<1>7. at \in Injection(D, D)
  BY <1>3, <1>6 DEF Injection, IsInjective
<1>8. IsFiniteSet(D)
  <2>1. PICK one : one = 1
    OBVIOUS
  <2>2. IsFiniteSet(one .. len)
    BY <1>0, <2>1, FS_Interval
  <2> QED BY <2>1, <2>2
<1>9. at \in Surjection(D, D)
  BY <1>7, <1>8, FS_Injection
<1>10. StableSort(seq, keys) \in Seq(X) /\ Len(StableSort(seq, keys)) = len
  BY StableSortIs
<1>11. l \in Seq(X) /\ Len(l) = len
  BY <1>10
<1>12. Listing(l)
  BY <1>11, ListingOf
<1>13. HasAll(l, ToSet(seq))
  <2> SUFFICES ASSUME NEW e \in ToSet(seq) PROVE \E i \in D : l[i] = e
    BY <1>11 DEF HasAll
  <2>1. PICK j \in D : seq[j] = e
    BY <1>0 DEF ToSet
  <2>2. PICK i \in D : at[i] = j
    BY <1>9 DEF Surjection
  <2> QED BY <1>4, <2>1, <2>2
<1>14. ASSUME Distinct(seq) PROVE Distinct(l)
  <2> SUFFICES ASSUME NEW i \in D, NEW j \in D, l[i].id = l[j].id PROVE i = j
    BY <1>11 DEF Distinct
  <2>1. at[i] \in D /\ at[j] \in D /\ seq[at[i]].id = seq[at[j]].id
    BY <1>3, <1>4
  <2>2. at[i] = at[j]
    BY <1>14, <2>1 DEF Distinct
  <2> QED BY <1>6, <2>2
<1>15. \A i \in D : l[i] \in ToSet(seq)
  BY <1>0, <1>3, <1>4 DEF ToSet
<1> QED BY <1>11, <1>12, <1>13, <1>14, <1>15

(* Entries of ids that are each there once.                                *)
LEMMA EntriesDistinct ==
  ASSUME IndexBuilt(lib), NEW ids \in Seq((Containers \ {Root}) \cup Items), IsInjective(ids)
  PROVE  /\ Distinct(real_entries(ids))
         /\ ToSet(real_entries(ids)) = {RealEntry(id) : id \in ToSet(ids)}
<1>1. PICK X, Y, all : /\ X = (Containers \ {Root}) \cup Items
                       /\ Y = {RealEntry(id) : id \in X} /\ all = real_entries(ids)
  OBVIOUS
<1>2. /\ all \in Seq(Y) /\ Len(all) = Len(ids)
      /\ \A i \in 1 .. Len(ids) : all[i] = RealEntry(ids[i])
  BY <1>1, EntriesOf
<1>3. PICK n : n = Len(ids)
  OBVIOUS
<1>4. /\ n \in Nat /\ DOMAIN ids = 1 .. n /\ DOMAIN all = 1 .. n
      /\ \A i \in 1 .. n : ids[i] \in X
  BY <1>1, <1>2, <1>3, LenProperties, ElementOfSeq
<1>5. \A i \in 1 .. n : all[i].id = ids[i]
  BY <1>1, <1>2, <1>3, <1>4, FolderEntry, TrackEntry
<1>6. Distinct(all)
  BY <1>2, <1>3, <1>4, <1>5 DEF Distinct, IsInjective
<1>7. ToSet(all) = {RealEntry(id) : id \in ToSet(ids)}
  BY <1>2, <1>3, <1>4 DEF ToSet
<1> QED BY <1>1, <1>6, <1>7

LEMMA SortedOnce ==
  ASSUME IndexBuilt(lib), NEW ids \in Seq((Containers \ {Root}) \cup Items), IsInjective(ids),
         NEW l, l = Sorted(ids)
  PROVE  Distinct(l) /\ HasAll(l, {RealEntry(id) : id \in ToSet(ids)})
<1>1. PICK all, X, Y : /\ X = (Containers \ {Root}) \cup Items
                       /\ Y = {RealEntry(id) : id \in X} /\ all = real_entries(ids)
  OBVIOUS
<1>2. /\ all \in Seq(Y) /\ Len(all) = Len(ids)
      /\ \A i \in 1 .. Len(ids) : all[i] = RealEntry(ids[i])
  BY <1>1, EntriesOf
<1>3. PICK n, four, keys : /\ n = Len(ids) /\ four = 4
                           /\ keys = [i \in DOMAIN all |-> ByKindAndNumber(all[i])]
  OBVIOUS
<1>4. n \in Nat /\ DOMAIN all = 1 .. n /\ \A i \in 1 .. n : ids[i] \in X
  BY <1>1, <1>2, <1>3, LenProperties, ElementOfSeq
<1>5. \A i \in 1 .. n : ByKindAndNumber(all[i]) \in KeysOf(four)
  <2> SUFFICES ASSUME NEW i \in 1 .. n PROVE ByKindAndNumber(all[i]) \in KeysOf(four)
    OBVIOUS
  <2>1. PICK id : id = ids[i]
    OBVIOUS
  <2>2. ByKindAndNumber(RealEntry(id)) \in KeysOf(4)
    BY <1>1, <1>4, <2>1, KindKeys
  <2> QED BY <1>2, <1>3, <2>1, <2>2
<1>6. keys \in [1 .. Len(all) -> KeysOf(four)] /\ four \in Nat
  BY <1>2, <1>3, <1>4, <1>5
<1>7. l = StableSort(all, keys)
  BY <1>1, <1>3 DEF Sorted
<1>8. Distinct(all) /\ ToSet(all) = {RealEntry(id) : id \in ToSet(ids)}
  BY <1>1, EntriesDistinct
<1>9. (Distinct(all) => Distinct(l)) /\ HasAll(l, ToSet(all))
  BY <1>2, <1>6, <1>7, StableSortKeeps
<1> QED BY <1>8, <1>9

(* A folder as the scan found it, and an album.                            *)
LEMMA FolderOnce ==
  ASSUME IndexBuilt(lib), NEW id \in Containers, NEW l, l = Sorted(ChildrenOf(id))
  PROVE  /\ Distinct(l)
         /\ HasAll(l, {RealEntry(child) : child \in {c \in Containers \cup Items : ChildOf(c, id)}})
<1>1. PICK ids : ids = ChildrenOf(id)
  OBVIOUS
<1>2. /\ ids \in Seq((Containers \ {Root}) \cup Items) /\ IsInjective(ids)
      /\ \A child : ChildOf(child, id) => child \in ToSet(ids)
  BY <1>1, ChildIds, ChildrenAre
<1>3. Distinct(l) /\ HasAll(l, {RealEntry(child) : child \in ToSet(ids)})
  BY <1>1, <1>2, SortedOnce
<1> QED BY <1>2, <1>3 DEF HasAll

LEMMA TracksAre ==
  ASSUME IndexBuilt(lib), NEW album \in Containers
  PROVE  /\ Tracks(album) \in Seq((Containers \ {Root}) \cup Items) /\ IsInjective(Tracks(album))
         /\ ToSet(Tracks(album)) = {item \in Items : lib.items[item].parent = album}
<1>1. PICK children, ids : children = ChildrenOf(album) /\ ids = Only(children, Items)
  OBVIOUS
<1>2. /\ IsInjective(children) /\ children \in Seq(Containers \cup Items)
      /\ \A child \in ToSet(children) : ChildOf(child, album)
      /\ \A child : ChildOf(child, album) => child \in ToSet(children)
  BY <1>1, ChildrenAre
<1>3. /\ ids \in Seq((Containers \cup Items) \cap Items) /\ IsInjective(ids)
      /\ ToSet(ids) = ToSet(children) \cap Items
  BY <1>1, <1>2, OnlyCollects
<1>4. (Containers \cup Items) \cap Items \subseteq (Containers \ {Root}) \cup Items
  OBVIOUS
<1>5. ids \in Seq((Containers \ {Root}) \cup Items)
  BY <1>3, <1>4, SeqMonotonic
<1>6. Containers \cap Items = {}
  BY FoldersAre
<1>7. ToSet(ids) = {item \in Items : lib.items[item].parent = album}
  BY <1>2, <1>3, <1>6 DEF ChildOf
<1>8. Tracks(album) = ids
  BY <1>1 DEF Tracks, ChildrenOf
<1> QED BY <1>3, <1>5, <1>7, <1>8

LEMMA AlbumOnce ==
  ASSUME IndexBuilt(lib), NEW album \in Containers, NEW l, l = tracks_of_album(album)
  PROVE  /\ Distinct(l)
         /\ HasAll(l, {RealEntry(item) : item \in {i \in Items : lib.items[i].parent = album}})
<1>1. PICK ids : ids = Tracks(album)
  OBVIOUS
<1>2. /\ ids \in Seq((Containers \ {Root}) \cup Items) /\ IsInjective(ids)
      /\ ToSet(ids) = {item \in Items : lib.items[item].parent = album}
  BY <1>1, TracksAre
<1>3. l = Sorted(ids)
  BY <1>1 DEF tracks_of_album
<1> QED BY <1>2, <1>3, SortedOnce

(* Out of a map each entry comes once.                                     *)
LEMMA AnyhowOnce ==
  ASSUME NEW n \in Nat, NEW S, IsFiniteSet(S), Once(S), NEW key \in [S -> KeysOf(n)],
         NEW l \in SortedAnyhow(key)
  PROVE  Distinct(l) /\ Listing(l)
<1>1. PICK K : K = KeysOf(n)
  OBVIOUS
<1>2. l \in Seq(S) /\ \A i, j \in 1 .. Len(l) : i # j => l[i] # l[j]
  BY <1>1, SortedIs
<1>3. \A i \in 1 .. Len(l) : l[i] \in S
  BY <1>2, ElementOfSeq
<1> QED BY <1>2, <1>3, ListingOf DEF Distinct, Once

LEMMA FirstOnce ==
  ASSUME NEW count \in Nat, NEW l, Listing(l), Distinct(l)
  PROVE  Distinct(First(count, l)) /\ Listing(First(count, l))
<1>1. PICK least : least = IF count <= Len(l) THEN count ELSE Len(l)
  OBVIOUS
<1>2. PICK f : f = First(count, l)
  OBVIOUS
<1>3. /\ Listing(f) /\ Len(f) = least /\ least \in Nat /\ least <= Len(l)
      /\ \A i \in 1 .. least : f[i] = l[i]
  BY <1>1, <1>2, FirstIs
<1>4. \A i \in 1 .. least : i \in 1 .. Len(l)
  BY <1>3 DEF Listing
<1>5. Distinct(f)
  BY <1>3, <1>4 DEF Distinct
<1> QED BY <1>2, <1>3, <1>5

(* At the top of a view.                                                   *)
LEMMA SongsOnce ==
  ASSUME IndexBuilt(lib), NEW l \in all_songs(Snapshot)
  PROVE  Distinct(l) /\ Listing(l) /\ HasAll(l, {RealEntry(item) : item \in Items})
<1>1. PICK Y, songs, items : /\ Y = {RealEntry(id) : id \in Items} /\ items = Snapshot.items
                             /\ songs = real_entries(items)
  OBVIOUS
<1>2. items \in Seq(Items) /\ IsInjective(items) /\ ToSet(items) = Items
  BY <1>1, SnapshotIs, EveryItemGathered
<1>3. songs \in Seq(Y)
  <2>1. \A id \in Items : RealEntry(id) \in Y
    BY <1>1
  <2> QED BY <1>1, <1>2, <2>1, EntriesOf
<1>4. Distinct(songs) /\ ToSet(songs) = Y
  <2>1. items \in Seq((Containers \ {Root}) \cup Items)
    BY <1>2, SeqMonotonic
  <2> QED BY <1>1, <1>2, <2>1, EntriesDistinct
<1>5. PICK n, one, keys : /\ n = Len(songs) /\ one = 1
                          /\ keys = [i \in DOMAIN songs |-> ByTitle(songs[i])]
  OBVIOUS
<1>6. n \in Nat /\ DOMAIN songs = 1 .. n /\ \A i \in 1 .. n : songs[i] \in Y
  BY <1>3, <1>5, LenProperties, ElementOfSeq
<1>7. \A e \in Y : ByTitle(e) \in KeysOf(1)
  <2>1. \A e \in Y : e.title \in Names
    BY <1>1, TrackEntry
  <2>2. [e \in Y |-> ByTitle(e)] \in [Y -> KeysOf(1)]
    BY <2>1, TitleKeys
  <2> QED BY <2>2
<1>8. keys \in [1 .. Len(songs) -> KeysOf(one)] /\ one \in Nat
  BY <1>5, <1>6, <1>7
<1>9. l = StableSort(songs, keys)
  BY <1>1, <1>5 DEF all_songs
<1>10. (Distinct(songs) => Distinct(l)) /\ HasAll(l, ToSet(songs)) /\ Listing(l)
  BY <1>3, <1>8, <1>9, StableSortKeeps
<1> QED BY <1>1, <1>4, <1>10

LEMMA RecentSongsOnce ==
  ASSUME IndexBuilt(lib), NEW count \in Nat, NEW l \in recently_added_songs(Snapshot, count)
  PROVE  Distinct(l) /\ Listing(l)
<1>1. PICK Y, set, recent, songs :
        /\ Y = {RealEntry(id) : id \in Items}
        /\ set = {item \in Items : lib.items[item].modified >= Cutoff}
        /\ recent = Only(Snapshot.items, set) /\ songs = real_entries(recent)
  OBVIOUS
<1>2. recent \in Seq(Items) /\ IsInjective(recent)
  <2>1. PICK items : items = Snapshot.items
    OBVIOUS
  <2>2. items \in Seq(Items) /\ IsInjective(items)
    BY <2>1, SnapshotIs, EveryItemGathered
  <2>3. recent \in Seq(Items \cap set) /\ IsInjective(recent)
    BY <1>1, <2>1, <2>2, OnlyCollects
  <2>4. Items \cap set \subseteq Items
    OBVIOUS
  <2> QED BY <2>3, <2>4, SeqMonotonic
<1>3. songs \in Seq(Y) /\ Len(songs) = Len(recent)
  <2>1. \A id \in Items : RealEntry(id) \in Y
    BY <1>1
  <2> QED BY <1>1, <1>2, <2>1, EntriesOf
<1>4. Distinct(songs)
  <2>1. recent \in Seq((Containers \ {Root}) \cup Items)
    BY <1>2, SeqMonotonic
  <2> QED BY <1>1, <1>2, <2>1, EntriesDistinct
<1>5. PICK n, ages : /\ n = Len(recent)
                     /\ ages = [i \in DOMAIN recent |-> ByAge(lib.items[recent[i]].modified)]
  OBVIOUS
<1>6. n \in Nat /\ DOMAIN recent = 1 .. n /\ \A i \in 1 .. n : recent[i] \in Items
  BY <1>2, <1>5, LenProperties, ElementOfSeq
<1>7. \A id \in Items : ByAge(lib.items[id].modified) \in KeysOf(1)
  <2> SUFFICES ASSUME NEW id \in Items PROVE ByAge(lib.items[id].modified) \in KeysOf(1)
    OBVIOUS
  <2>1. PICK m : m = lib.items[id].modified
    OBVIOUS
  <2>2. m \in Nat
    BY <2>1, ItemsAre
  <2> QED BY <2>1, <2>2 DEF ByAge, KeysOf
<1>8. PICK one : one = 1
  OBVIOUS
<1>9. ages \in [1 .. Len(songs) -> KeysOf(one)] /\ one \in Nat
  BY <1>3, <1>5, <1>6, <1>7, <1>8
<1>10. PICK s : s = StableSort(songs, ages)
  OBVIOUS
<1>11. Distinct(s) /\ Listing(s)
  BY <1>3, <1>4, <1>9, <1>10, StableSortKeeps, SMTT(30)
<1>12. l = First(count, s)
  BY <1>1, <1>5, <1>10 DEF recently_added_songs
<1> QED BY <1>11, <1>12, FirstOnce

LEMMA AlbumsOnce ==
  ASSUME IndexBuilt(lib), NEW l \in albums(Snapshot)
  PROVE  /\ Distinct(l) /\ Listing(l)
         /\ HasAll(l, album_containers(Snapshot, Snapshot.album_ids))
<1>1. PICK S, key, one : /\ S = album_containers(Snapshot, Snapshot.album_ids)
                         /\ key = [e \in S |-> ByTitle(e)] /\ one = 1
  OBVIOUS
<1>2. PICK mode : mode = [view |-> "albums"]
  OBVIOUS
<1>3. IsFiniteSet(S) /\ Once(S) /\ \A e \in S : e.title \in Names
  BY <1>1, <1>2, AlbumsSound
<1>4. key \in [S -> KeysOf(one)] /\ one \in Nat
  BY <1>1, <1>3, TitleKeys
<1>5. l \in SortedAnyhow(key)
  BY <1>1 DEF albums
<1>6. \A e \in S : \E i \in 1 .. Len(l) : l[i] = e
  BY <1>3, <1>4, <1>5, SortedHasAll
<1> QED BY <1>1, <1>3, <1>4, <1>5, <1>6, AnyhowOnce DEF HasAll

LEMMA RecentAlbumsOnce ==
  ASSUME IndexBuilt(lib), NEW count \in Nat, NEW l \in recently_added_albums(Snapshot, count)
  PROVE  Distinct(l) /\ Listing(l)
<1>1. PICK recent, S, ages, one, mode :
        /\ recent = {album \in Snapshot.album_ids : Newest(album) >= Cutoff}
        /\ S = album_containers(Snapshot, recent)
        /\ ages = [e \in S |-> ByAge(Newest(e.id))] /\ one = 1
        /\ mode = [view |-> "albums"]
  OBVIOUS
<1>2. recent \subseteq Snapshot.album_ids
  BY <1>1
<1>3. IsFiniteSet(S) /\ Once(S) /\ \A e \in S : e.id \in recent
  BY <1>1, <1>2, AlbumsSound
<1>4. ASSUME NEW e \in S PROVE ByAge(Newest(e.id)) \in KeysOf(one)
  <2>1. PICK m : m = Newest(e.id)
    OBVIOUS
  <2>2. m \in Nat
    BY <1>2, <1>3, <2>1, NewestIs
  <2> QED BY <1>1, <2>1, <2>2 DEF ByAge, KeysOf
<1>5. ages \in [S -> KeysOf(one)] /\ one \in Nat
  BY <1>1, <1>4
<1>6. recently_added_albums(Snapshot, count) = {First(count, listing) : listing \in SortedAnyhow(ages)}
  BY <1>1 DEF recently_added_albums, Newest
<1>7. PICK s \in SortedAnyhow(ages) : l = First(count, s)
  BY <1>6
<1>8. Distinct(s) /\ Listing(s)
  BY <1>3, <1>5, AnyhowOnce
<1> QED BY <1>7, <1>8, FirstOnce

LEMMA ArtistsOnce ==
  ASSUME IndexBuilt(lib), NEW l \in artists(Snapshot)
  PROVE  /\ Distinct(l) /\ Listing(l)
         /\ HasAll(l, {artist_container(a) : a \in Snapshot.artists})
<1>1. PICK S, key, two : /\ S = {artist_container(a) : a \in Snapshot.artists}
                         /\ key = [e \in S |-> ByShelf(e)] /\ two = 2
  OBVIOUS
<1>2. /\ Made(artists(Snapshot), Cardinality(S), S)
      /\ \A k \in artists(Snapshot) : \A e \in S : \E i \in 1 .. Len(k) : k[i] = e
      /\ Once(S)
  <2>1. PICK mode : mode = [view |-> "artists"]
    OBVIOUS
  <2>2. mode.view = "artists"
    BY <2>1
  <2> QED BY <1>1, <2>2, ArtistsMade
<1>3. IsFiniteSet(S)
  <2> DEFINE f == [a \in Snapshot.artists |-> artist_container(a)]
  <2>1. S = {f[a] : a \in Snapshot.artists}
    BY <1>1
  <2>2. IsFiniteSet(Snapshot.artists)
    BY ArtistsAre
  <2> HIDE DEF f
  <2> QED BY <2>1, <2>2, ImageFinite
<1>4. \A e \in S : e.title \in Names
  BY <1>1, ArtistEntry
<1>5. key \in [S -> KeysOf(two)] /\ two \in Nat
  BY <1>1, <1>4, TitleKeys
<1>6. l \in SortedAnyhow(key)
  BY <1>1 DEF artists
<1>7. Distinct(l) /\ Listing(l)
  BY <1>2, <1>3, <1>5, <1>6, AnyhowOnce
<1> QED BY <1>1, <1>2, <1>7 DEF HasAll

(* Below an artist.                                                        *)
LEMMA ArtistAlbumsOnce ==
  ASSUME IndexBuilt(lib), NEW artist \in Snapshot.artists,
         NEW l \in albums_under_artist(Snapshot, artist)
  PROVE  Distinct(l) /\ Listing(l) /\ HasAll(l, ArtistAlbums(artist))
<1>1. PICK S, key, one, held, up :
        /\ S = ArtistAlbums(artist) /\ key = [e \in S |-> ByTitle(e)] /\ one = 1
        /\ held = artist.albums /\ up = artist.id
  OBVIOUS
<1>2. held \subseteq Snapshot.album_ids
  BY <1>1, ArtistsAre DEF ArtistIs
<1>3. S = {Under(up, a) : a \in album_containers(Snapshot, held)}
  BY <1>1 DEF ArtistAlbums
<1>4. IsFiniteSet(S)
  BY <1>2, <1>3, AlbumsCounted
<1>5. ASSUME NEW album \in held, NEW e, e = Under(up, album_container(Snapshot, album))
      PROVE  e.id = album /\ e.title \in Names
  <2>1. PICK a : a = album_container(Snapshot, album)
    OBVIOUS
  <2>2. EntryAt(a, lib.containers[album].parent) /\ a.id = album /\ a.title \in Names
    BY <1>2, <2>1, AlbumEntry
  <2> QED BY <1>5, <2>1, <2>2, UnderIs
<1>6. \A e \in S : \E album \in held :
        e = Under(up, album_container(Snapshot, album)) /\ e.id = album /\ e.title \in Names
  BY <1>3, <1>5 DEF album_containers
<1>7. Once(S)
  BY <1>6 DEF Once
<1>8. key \in [S -> KeysOf(one)] /\ one \in Nat
  BY <1>1, <1>6, TitleKeys
<1>9. l \in SortedAnyhow(key)
  BY <1>1 DEF albums_under_artist, ArtistAlbums
<1>10. \A e \in S : \E i \in 1 .. Len(l) : l[i] = e
  BY <1>4, <1>8, <1>9, SortedHasAll
<1> QED BY <1>1, <1>4, <1>7, <1>8, <1>9, <1>10, AnyhowOnce DEF HasAll

LEMMA TopOnce ==
  ASSUME IndexBuilt(lib), NEW mode, ModeIs(mode), mode.view # "folders", NEW l \in TopOf(mode)
  PROVE  Distinct(l) /\ Listing(l)
<1>1. CASE mode.view = "songs"
  BY <1>1, SongsOnce DEF TopOf
<1>2. CASE mode.view = "albums"
  BY <1>2, AlbumsOnce DEF TopOf
<1>3. CASE mode.view = "artists"
  BY <1>3, ArtistsOnce DEF TopOf
<1>4. CASE mode.view = "recent_songs"
  BY <1>4, RecentSongsOnce DEF TopOf, ModeIs
<1>5. CASE mode.view = "recent_albums"
  BY <1>5, RecentAlbumsOnce DEF TopOf, ModeIs
<1> QED BY <1>1, <1>2, <1>3, <1>4, <1>5 DEF ModeIs

LEMMA RerootedOnce ==
  ASSUME NEW l, Distinct(l), Listing(l), \A i \in 1 .. Len(l) : \E old : EntryAt(l[i], old),
         NEW up, up = [i \in DOMAIN l |-> reparent_to_root(l[i])]
  PROVE  Distinct(up)
<1>1. PICK n : n = Len(l)
  OBVIOUS
<1>2. n \in Nat /\ DOMAIN l = 1 .. n
  BY <1>1 DEF Listing
<1>3. DOMAIN up = 1 .. n /\ \A i \in 1 .. n : up[i] = Under(Root, l[i])
  BY <1>2 DEF reparent_to_root
<1>4. Len(up) = n
  <2>1. up = [i \in 1 .. n |-> up[i]]
    BY <1>2
  <2> QED BY <1>2, <1>3, <2>1, MadeListing
<1>5. ASSUME NEW i \in 1 .. n PROVE up[i].id = l[i].id
  <2>1. PICK e : e = l[i]
    OBVIOUS
  <2>2. PICK old : EntryAt(e, old)
    BY <1>1, <2>1
  <2> QED BY <1>3, <2>1, <2>2, UnderIs
<1> QED BY <1>1, <1>4, <1>5, ZenonT(30) DEF Distinct

(* No listing names anything twice, whatever the index and however its     *)
(* names tie (folder.rs and music_library.rs, children).                   *)
THEOREM NothingListedTwice ==
  ASSUME IndexBuilt(lib), NEW mode, ModeIs(mode), NEW id, NEW l \in Children(mode, id)
  PROVE  Distinct(l)
<1>1. CASE mode.view = "folders"
  <2>1. id \in Containers
    BY <1>1 DEF Children, children_within
  <2>2. l = Sorted(ChildrenOf(id))
    BY <1>1, <2>1, FolderOpens
  <2> QED BY <2>1, <2>2, FolderOnce
<1>2. CASE mode.view # "folders" /\ id = Root
  <2>1. PICK n, S : Made(TopOf(mode), n, S) /\ \A e \in S : Sound(mode, e)
    BY <1>2, TopMade DEF SoundMade
  <2>2. Children(mode, Root) = Rerooted(TopOf(mode))
    BY <1>2, TopListed
  <2>3. PICK o \in TopOf(mode) : l = [i \in DOMAIN o |-> reparent_to_root(o[i])]
    BY <1>2, <2>2 DEF Rerooted
  <2>4. Distinct(o) /\ Listing(o)
    BY <1>2, TopOnce
  <2>5. \A i \in 1 .. Len(o) : \E old : EntryAt(o[i], old)
    BY <2>1 DEF Made, Sound
  <2> QED BY <2>3, <2>4, <2>5, RerootedOnce
<1>3. CASE mode.view # "folders" /\ id # Root
  <2>1. PICK found : found = {a \in Snapshot.artists : a.id = id}
    OBVIOUS
  <2>2. Children(mode, id) =
          IF mode.view = "artists" /\ found # {}
          THEN UNION {albums_under_artist(Snapshot, a) : a \in found}
          ELSE IF mode.view \in AlbumViews
          THEN {tracks_of_album(a) : a \in {id} \cap Snapshot.album_ids} ELSE {}
    BY <1>3, <2>1 DEF Children, children_within, AlbumViews
  <2>3. CASE mode.view = "artists" /\ found # {}
    <3>1. PICK artist \in Snapshot.artists : l \in albums_under_artist(Snapshot, artist)
      BY <2>1, <2>2, <2>3
    <3> QED BY <3>1, ArtistAlbumsOnce
  <2>4. CASE ~(mode.view = "artists" /\ found # {})
    <3>1. id \in Snapshot.album_ids /\ l = tracks_of_album(id)
      BY <2>2, <2>4
    <3>2. id \in Containers
      BY <3>1, SnapshotTyped
    <3> QED BY <3>1, <3>2, AlbumOnce
  <2> QED BY <2>3, <2>4
<1> QED BY <1>1, <1>2, <1>3

-----------------------------------------------------------------------------
(* Nothing is left out, and nothing is filed where it does not belong.     *)

(* A container of a view that is listed in one order only.                 *)
Sole(mode, id) == \A l, m \in Children(mode, id) : l = m

(* Each of these listings names child.                                     *)
EachNames(listings, child) == \A o \in listings : \E h \in 1 .. Len(o) : o[h].id = child

(* A folder's children, in Folders.                                        *)
LEMMA FolderBrings ==
  ASSUME IndexBuilt(lib), NEW mode, mode.view = "folders", NEW id \in Containers
  PROVE  /\ Sole(mode, id)
         /\ \A child \in Containers \cup Items : ChildOf(child, id) => InEvery(mode, id, child)
<1>1. PICK l : l = Sorted(ChildrenOf(id))
  OBVIOUS
<1>2. Children(mode, id) = {l}
  BY <1>1, FolderOpens
<1>3. ASSUME NEW child \in Containers \cup Items, ChildOf(child, id)
      PROVE  \E h \in 1 .. Len(l) : l[h].id = child
  <2>1. PICK e : e = RealEntry(child)
    OBVIOUS
  <2>2. e.id = child
    <3>1. CASE child \in Items
      BY <2>1, <3>1, TrackEntry
    <3>2. CASE child \notin Items
      <4>1. child \in Containers \ {Root}
        BY <1>3, <3>2 DEF ChildOf
      <4> QED BY <2>1, <4>1, FolderEntry
    <3> QED BY <3>1, <3>2
  <2>3. e \in {RealEntry(c) : c \in {d \in Containers \cup Items : ChildOf(d, id)}}
    BY <1>3, <2>1
  <2>4. HasAll(l, {RealEntry(c) : c \in {d \in Containers \cup Items : ChildOf(d, id)}})
    BY <1>1, FolderOnce
  <2> QED BY <2>2, <2>3, <2>4 DEF HasAll
<1> QED BY <1>2, <1>3 DEF Sole, InEvery

(* An album's tracks, wherever albums are listed.                          *)
LEMMA AlbumBrings ==
  ASSUME IndexBuilt(lib), NEW mode, mode.view \in AlbumViews,
         NEW album \in Snapshot.album_ids, NoArtist(mode, album)
  PROVE  /\ Sole(mode, album)
         /\ \A item \in Items : lib.items[item].parent = album => InEvery(mode, album, item)
<1>1. PICK l : l = tracks_of_album(album)
  OBVIOUS
<1>2. Children(mode, album) = {l}
  BY <1>1, AlbumOpens
<1>3. album \in Containers
  BY SnapshotTyped
<1>4. ASSUME NEW item \in Items, lib.items[item].parent = album
      PROVE  \E h \in 1 .. Len(l) : l[h].id = item
  <2>1. HasAll(l, {RealEntry(i) : i \in {j \in Items : lib.items[j].parent = album}})
    BY <1>1, <1>3, AlbumOnce
  <2>2. RealEntry(item) \in {RealEntry(i) : i \in {j \in Items : lib.items[j].parent = album}}
    BY <1>4
  <2>3. RealEntry(item).id = item
    BY TrackEntry
  <2> QED BY <2>1, <2>2, <2>3 DEF HasAll
<1> QED BY <1>2, <1>4 DEF Sole, InEvery

(* What is at the top of a view stays there when it is put below the root. *)
LEMMA TopBrings ==
  ASSUME IndexBuilt(lib), NEW mode, ModeIs(mode), mode.view # "folders", NEW child,
         EachNames(TopOf(mode), child)
  PROVE  InEvery(mode, Root, child)
<1>1. PICK n, S : Made(TopOf(mode), n, S) /\ \A e \in S : Sound(mode, e)
  BY TopMade DEF SoundMade
<1>2. Children(mode, Root) = Rerooted(TopOf(mode))
  BY TopListed
<1>3. ASSUME NEW o \in TopOf(mode), NEW up, up = [i \in DOMAIN o |-> reparent_to_root(o[i])]
      PROVE  \E h \in 1 .. Len(up) : up[h].id = child
  <2>1. n \in Nat /\ Len(o) = n /\ DOMAIN o = 1 .. n
    BY <1>1 DEF Made, Holds, Listing
  <2>2. Len(up) = n
    <3>1. DOMAIN up = 1 .. n /\ up = [i \in 1 .. n |-> up[i]]
      BY <1>3, <2>1
    <3> QED BY <2>1, <3>1, MadeListing
  <2>3. PICK h \in 1 .. n : o[h].id = child
    BY <2>1 DEF EachNames
  <2>4. PICK e : e = o[h]
    OBVIOUS
  <2>5. PICK old : EntryAt(e, old)
    BY <1>1, <2>1, <2>4 DEF Made, Sound
  <2>6. up[h] = Under(Root, e)
    BY <1>3, <2>1, <2>4 DEF reparent_to_root
  <2>7. up[h].id = child
    BY <2>3, <2>4, <2>5, <2>6, UnderIs
  <2> QED BY <2>2, <2>7
<1> QED BY <1>2, <1>3 DEF InEvery, Rerooted

(* Every track, in All songs.                                              *)
LEMMA SongsBring ==
  ASSUME IndexBuilt(lib), NEW mode, ModeIs(mode), mode.view = "songs"
  PROVE  Sole(mode, Root) /\ \A item \in Items : InEvery(mode, Root, item)
<1>1. mode.view # "folders" /\ TopOf(mode) = all_songs(Snapshot)
  BY DEF TopOf
<1>2. PICK o : all_songs(Snapshot) = {o}
  BY DEF all_songs
<1>3. Children(mode, Root) = Rerooted({o})
  BY <1>1, <1>2, TopListed
<1>4. Sole(mode, Root)
  BY <1>3 DEF Sole, Rerooted
<1>5. ASSUME NEW item \in Items PROVE EachNames(TopOf(mode), item)
  <2>1. HasAll(o, {RealEntry(i) : i \in Items})
    BY <1>2, SongsOnce
  <2>2. RealEntry(item).id = item
    BY TrackEntry
  <2> QED BY <1>1, <1>2, <2>1, <2>2 DEF HasAll, EachNames
<1> QED BY <1>1, <1>4, <1>5, TopBrings

(* Every album, in Albums.                                                 *)
LEMMA AlbumsBring ==
  ASSUME IndexBuilt(lib), NEW mode, ModeIs(mode), mode.view = "albums",
         NEW album \in Snapshot.album_ids
  PROVE  InEvery(mode, Root, album)
<1>1. mode.view # "folders" /\ TopOf(mode) = albums(Snapshot)
  BY DEF TopOf
<1>2. PICK e : e = album_container(Snapshot, album)
  OBVIOUS
<1>3. e.id = album /\ e \in album_containers(Snapshot, Snapshot.album_ids)
  BY <1>2, AlbumEntry DEF album_containers
<1>4. \A o \in albums(Snapshot) : HasAll(o, album_containers(Snapshot, Snapshot.album_ids))
  BY AlbumsOnce
<1>5. EachNames(TopOf(mode), album)
  BY <1>1, <1>3, <1>4 DEF HasAll, EachNames
<1> QED BY <1>1, <1>5, TopBrings

(* Every artist, and an artist's albums, in Artists.                       *)
LEMMA ArtistsBring ==
  ASSUME IndexBuilt(lib), NEW mode, mode.view = "artists", NEW artist \in Snapshot.artists
  PROVE  InEvery(mode, Root, artist.id)
  BY ArtistsOnTop DEF InEvery

LEMMA ArtistBrings ==
  ASSUME IndexBuilt(lib), NEW mode, mode.view = "artists", NEW artist \in Snapshot.artists,
         NEW album \in artist.albums
  PROVE  InEvery(mode, artist.id, album)
<1>1. artist.id # Root /\ album \in Snapshot.album_ids
  BY ArtistsAre DEF ArtistIs
<1>2. {a \in Snapshot.artists : a.id = artist.id} = {artist}
  BY ArtistsAre
<1>3. Children(mode, artist.id) = UNION {albums_under_artist(Snapshot, a) : a \in {artist}}
  BY <1>1, <1>2 DEF Children, children_within
<1>4. PICK a, e : a = album_container(Snapshot, album) /\ e = Under(artist.id, a)
  OBVIOUS
<1>5. e.id = album
  <2>1. EntryAt(a, lib.containers[album].parent) /\ a.id = album
    BY <1>1, <1>4, AlbumEntry
  <2> QED BY <1>4, <2>1, UnderIs
<1>6. e \in ArtistAlbums(artist)
  BY <1>4 DEF ArtistAlbums, album_containers
<1>7. \A o \in albums_under_artist(Snapshot, artist) : HasAll(o, ArtistAlbums(artist))
  BY ArtistAlbumsOnce
<1> QED BY <1>3, <1>5, <1>6, <1>7 DEF HasAll, InEvery

(* Where a view lists a track: in its folder, or at the top.               *)
HomeIn(mode, item) ==
  IF mode.view \in {"songs", "recent_songs"} THEN Root ELSE lib.items[item].parent

(* Where albums are listed below artists, it is none that has an artist's  *)
(* role.                                                                   *)
AlbumAlone(mode, id) ==
  mode.view = "artists" => id \in Snapshot.album_ids /\ NoArtist(mode, id)

LEMMA RealParent ==
  ASSUME IndexBuilt(lib), NEW child \in (Containers \ {Root}) \cup Items,
         NEW e, e = RealEntry(child), NEW id, EntryAt(e, id), e.path # None
  PROVE  e.id \in Items /\ id = lib.items[e.id].parent
<1>1. child \in Items
  <2>1. CASE child \notin Items
    BY <2>1, FolderEntry
  <2> QED BY <2>1
<1>2. e.id = child /\ EntryAt(e, lib.items[child].parent)
  BY <1>1, TrackEntry
<1>3. e.parent = id /\ e.parent = lib.items[child].parent
  BY <1>2 DEF EntryAt
<1> QED BY <1>1, <1>2, <1>3

LEMMA TopItems ==
  ASSUME IndexBuilt(lib), NEW mode, ModeIs(mode), mode.view # "folders",
         NEW l \in Children(mode, Root), NEW i \in 1 .. Len(l), l[i].path # None
  PROVE  l[i].id \in Items /\ mode.view \in {"songs", "recent_songs"}
<1>1. PICK n, S : Made(TopOf(mode), n, S) /\ \A e \in S : Sound(mode, e)
  BY TopMade DEF SoundMade
<1>2. PICK T : T = {Under(Root, e) : e \in S}
  OBVIOUS
<1>3. Made(Children(mode, Root), n, T)
  BY <1>1, <1>2, TopListed, RerootedMade
<1>4. PICK e \in S : l[i] = Under(Root, e)
  BY <1>2, <1>3 DEF Made
<1>5. PICK old, up : EntryAt(e, old) /\ up = Under(Root, e)
  BY <1>1 DEF Sound
<1>6. up.path = e.path /\ EntryAt(up, Root)
  BY <1>5, UnderIs
<1>7. up.path # None /\ up.id \in Items
  BY <1>4, <1>5, <1>6 DEF EntryAt, ListsItem
<1>8. mode.view \notin AlbumViews
  BY <1>1, <1>6, <1>7 DEF Sound
<1>9. mode.view \in {"songs", "recent_songs"}
  BY <1>8 DEF ModeIs, AlbumViews
<1> QED BY <1>4, <1>5, <1>7, <1>9

LEMMA ArtistRow ==
  ASSUME IndexBuilt(lib), NEW artist \in Snapshot.artists,
         NEW e \in ArtistAlbums(artist)
  PROVE  e.path = None /\ e.id \in artist.albums
<1>1. PICK album \in artist.albums : e = Under(artist.id, album_container(Snapshot, album))
  BY DEF ArtistAlbums, album_containers
<1>2. PICK a : a = album_container(Snapshot, album)
  OBVIOUS
<1>3. album \in Snapshot.album_ids
  BY ArtistsAre DEF ArtistIs
<1>4. EntryAt(a, lib.containers[album].parent) /\ a.id = album /\ a.path = None
  BY <1>2, <1>3, AlbumEntry
<1> QED BY <1>1, <1>2, <1>4, UnderIs

(* What a container of a view other than its top is.                       *)
Beneath(mode, id, l) ==
  \/ /\ mode.view = "artists"
     /\ \E artist \in Snapshot.artists : artist.id = id /\ l \in Children(mode, artist.id)
  \/ mode.view \in AlbumViews /\ id \in Snapshot.album_ids /\ NoArtist(mode, id)
     /\ l = tracks_of_album(id)

LEMMA DeeperListed ==
  ASSUME IndexBuilt(lib), NEW mode, ModeIs(mode), mode.view # "folders", NEW id, id # Root,
         NEW l \in Children(mode, id)
  PROVE  Beneath(mode, id, l)
<1>1. PICK found : found = {a \in Snapshot.artists : a.id = id}
  OBVIOUS
<1>2. Children(mode, id) =
        IF mode.view = "artists" /\ found # {}
        THEN UNION {albums_under_artist(Snapshot, a) : a \in found}
        ELSE IF mode.view \in AlbumViews
        THEN {tracks_of_album(a) : a \in {id} \cap Snapshot.album_ids} ELSE {}
  BY <1>1 DEF Children, children_within, AlbumViews
<1>3. CASE mode.view = "artists" /\ found # {}
  BY <1>1, <1>3 DEF Beneath
<1>4. CASE ~(mode.view = "artists" /\ found # {})
  BY <1>1, <1>2, <1>4 DEF Beneath, NoArtist
<1> QED BY <1>3, <1>4

LEMMA ItemHome ==
  ASSUME IndexBuilt(lib), NEW mode, ModeIs(mode), NEW id, NEW l \in Children(mode, id),
         NEW i \in 1 .. Len(l), l[i].path # None
  PROVE  l[i].id \in Items /\ id = HomeIn(mode, l[i].id) /\ AlbumAlone(mode, id)
<1>1. PICK e : e = l[i]
  OBVIOUS
<1>2. EntryAt(e, id) /\ e.path # None
  BY <1>1, ViewsListWhatOpens DEF ListedAt
<1>3. CASE mode.view = "folders"
  <2>1. PICK child \in (Containers \ {Root}) \cup Items : e = RealEntry(child)
    BY <1>1, <1>3, FolderHas
  <2>2. e.id \in Items /\ id = lib.items[e.id].parent
    BY <1>2, <2>1, RealParent
  <2> QED BY <1>1, <1>3, <2>2 DEF HomeIn, AlbumAlone
<1>4. CASE mode.view # "folders" /\ id = Root
  <2>1. e.id \in Items /\ mode.view \in {"songs", "recent_songs"}
    BY <1>1, <1>2, <1>4, TopItems
  <2> QED BY <1>1, <1>4, <2>1 DEF HomeIn, AlbumAlone
<1>5. CASE mode.view # "folders" /\ id # Root
  <2>1. Beneath(mode, id, l)
    BY <1>5, DeeperListed
  <2>2. ASSUME NEW artist \in Snapshot.artists, mode.view = "artists", l \in Children(mode, artist.id)
        PROVE  FALSE
    <3>1. e \in ArtistAlbums(artist)
      BY <1>1, <2>2, ArtistOpens DEF Made
    <3> QED BY <1>2, <3>1, ArtistRow
  <2>3. mode.view \in AlbumViews /\ id \in Snapshot.album_ids /\ NoArtist(mode, id)
        /\ l = tracks_of_album(id)
    BY <2>1, <2>2 DEF Beneath
  <2>4. id \in Containers
    BY <2>3, SnapshotTyped
  <2>5. PICK item \in Items : e = RealEntry(item)
    BY <1>1, <2>3, <2>4, TracksListed
  <2>6. e.id \in Items /\ id = lib.items[e.id].parent
    BY <1>2, <2>5, RealParent
  <2> QED BY <1>1, <2>3, <2>6 DEF HomeIn, AlbumAlone, AlbumViews
<1> QED BY <1>3, <1>4, <1>5

(* An album Artists lists as one is some artist's.                         *)
LEMMA AlbumHasArtist ==
  ASSUME IndexBuilt(lib), NEW mode, ModeIs(mode), mode.view = "artists", NEW id,
         NEW l \in Children(mode, id), NEW i \in 1 .. Len(l), NEW album, album = l[i].id,
         album \in Snapshot.album_ids, NoArtist(mode, album)
  PROVE  Fact(Snapshot, album).artist.key # None
<1>1. id # Root
  BY ArtistsOnTop DEF NoArtist
<1>2. Beneath(mode, id, l)
  BY <1>1, DeeperListed
<1>3. CASE id \in Snapshot.album_ids /\ l = tracks_of_album(id)
  <2>1. id \in Containers
    BY <1>3, SnapshotTyped
  <2>2. PICK item \in Items : l[i] = RealEntry(item)
    BY <1>3, <2>1, TracksListed
  <2>3. album \in Items
    BY <2>2, TrackEntry
  <2>4. album \in Containers
    BY SnapshotTyped
  <2> QED BY <2>3, <2>4, FoldersAre
<1>4. ASSUME NEW artist \in Snapshot.artists, l \in Children(mode, artist.id)
      PROVE  Fact(Snapshot, album).artist.key # None
  <2>1. l[i] \in ArtistAlbums(artist)
    BY <1>4, ArtistOpens DEF Made
  <2>2. album \in artist.albums
    BY <2>1, ArtistRow
  <2>3. Fact(Snapshot, album).artist.key = artist.id
    BY <2>2, AlbumsArtist
  <2> QED BY <2>3, ArtistsAre DEF ArtistIs
<1> QED BY <1>2, <1>3, <1>4 DEF Beneath

(* And the other way round: an album that has an artist and is none itself *)
(* goes under that artist.                                                 *)
LEMMA AlbumFiled ==
  ASSUME IndexBuilt(lib), NEW album \in Snapshot.album_ids,
         Fact(Snapshot, album).artist.key # None, \A a \in Snapshot.artists : a.id # album
  PROVE  \E artist \in Snapshot.artists : album \in artist.albums
<1>1. PICK facts, fact : facts = Snapshot.facts /\ fact = Fact(Snapshot, album)
  OBVIOUS
<1>2. fact \in facts /\ fact.album = album
  BY <1>1, SnapshotTyped
<1>3. PICK id, artist : id = fact.artist.key /\ artist = ArtistOf(facts, id)
  OBVIOUS
<1>4. id \in ArtistIds(facts)
  BY <1>1, <1>2, <1>3 DEF ArtistIds
<1>5. Snapshot.artists = {ArtistOf(facts, a) : a \in ArtistIds(facts)}
  BY <1>1, SnapshotIs
<1>6. album \notin ArtistIds(facts)
  <2>1. ArtistOf(facts, album).id = album
    BY DEF ArtistOf
  <2> QED BY <1>5, <2>1
<1>7. album \in AlbumsOf(facts, id)
  BY <1>2, <1>3, <1>6 DEF AlbumsOf, FactsUnder
<1>8. artist.albums = AlbumsOf(facts, id)
  BY <1>3 DEF ArtistOf
<1> QED BY <1>3, <1>4, <1>5, <1>7, <1>8

LEMMA ItemsAlbum ==
  ASSUME IndexBuilt(lib), NEW item \in Items
  PROVE  lib.items[item].parent \in Snapshot.album_ids
<1>1. PICK items : items = all_items
  OBVIOUS
<1>2. ToSet(items) = Items /\ Snapshot.album_ids = album_ids(items)
  BY <1>1, EveryItemGathered, SnapshotIs
<1> QED BY <1>2 DEF album_ids

(* In a sorted list nothing comes before what is less than it.             *)
Orders(l, seq, keys) ==
  \A i, j \in 1 .. Len(l) : i < j =>
    \E a, b \in 1 .. Len(seq) : l[i] = seq[a] /\ l[j] = seq[b] /\ ~Less(keys[b], keys[a])

LEMMA StableSortOrders ==
  ASSUME NEW n \in Nat, NEW X, NEW seq \in Seq(X), NEW keys \in [1 .. Len(seq) -> KeysOf(n)]
  PROVE  Orders(StableSort(seq, keys), seq, keys)
<1> DEFINE place(i) == CHOOSE j \in DOMAIN keys : Cardinality(Earlier(keys, j)) = i - 1
<1>1. PICK len : len = Len(seq)
  OBVIOUS
<1>2. len \in Nat /\ DOMAIN keys = 1 .. len /\ keys \in [1 .. len -> KeysOf(n)]
  BY <1>1, LenProperties
<1>3. StableSort(seq, keys) = [i \in 1 .. len |-> seq[place(i)]]
  BY <1>2 DEF StableSort
<1>4. ASSUME NEW i \in 1 .. len
      PROVE  place(i) \in 1 .. len /\ Cardinality(Earlier(keys, place(i))) = i - 1
  <2>1. \E j \in 1 .. len : Cardinality(Earlier(keys, j)) = i - 1
    BY <1>2, PlacesTaken
  <2> QED BY <1>2, <2>1
<1> HIDE DEF place
<1>5. Len(StableSort(seq, keys)) = len
  BY <1>1, StableSortIs
<1>6. ASSUME NEW i \in 1 .. len, NEW j \in 1 .. len, i < j, Less(keys[place(j)], keys[place(i)])
      PROVE  FALSE
  <2>1. PICK a, b : a = place(i) /\ b = place(j)
    OBVIOUS
  <2>2. /\ a \in 1 .. len /\ Cardinality(Earlier(keys, a)) = i - 1
        /\ b \in 1 .. len /\ Cardinality(Earlier(keys, b)) = j - 1
    BY <1>4, <2>1
  <2>3. b \in Earlier(keys, a)
    BY <1>2, <1>6, <2>1, <2>2 DEF Earlier
  <2>4. Earlier(keys, b) \subseteq Earlier(keys, a)
    BY <1>2, <2>2, <2>3, EarlierGrows
  <2>5. IsFiniteSet(Earlier(keys, a))
    <3>1. Earlier(keys, a) \subseteq 1 .. len
      BY <1>2 DEF Earlier
    <3>2. IsFiniteSet(1 .. len)
      BY <1>2, FS_Interval
    <3> QED BY <3>1, <3>2, FS_Subset
  <2>6. Cardinality(Earlier(keys, b)) <= Cardinality(Earlier(keys, a))
    BY <2>4, <2>5, FS_Subset
  <2> QED BY <1>2, <1>6, <2>2, <2>6
<1>7. ASSUME NEW i \in 1 .. len, NEW j \in 1 .. len, i < j
      PROVE  \E a, b \in 1 .. len : /\ StableSort(seq, keys)[i] = seq[a]
                                    /\ StableSort(seq, keys)[j] = seq[b]
                                    /\ ~Less(keys[b], keys[a])
  BY <1>3, <1>4, <1>6, <1>7
<1> QED BY <1>1, <1>5, <1>7 DEF Orders

(* An album's tracks come by their numbers; those without are left out of  *)
(* the comparison.                                                         *)
NumberOf(item) == lib.items[item].number

LEMMA NumbersCompared ==
  ASSUME IndexBuilt(lib), NEW item \in Items, NEW other \in Items,
         NumberOf(item) # None, NumberOf(other) # None, NEW k, NEW l,
         k = ByKindAndNumber(RealEntry(item)), l = ByKindAndNumber(RealEntry(other)), ~Less(l, k)
  PROVE  NumberOf(item) <= NumberOf(other)
<1>1. PICK p, q, r, s : /\ p = NumberOf(item) /\ q = NumberOf(other)
                        /\ r = Rank[RealEntry(item).title] /\ s = Rank[RealEntry(other).title]
  OBVIOUS
<1>2. p \in Nat /\ q \in Nat
  BY <1>1, ItemsAre DEF NumberOf
<1>3. item \notin Containers /\ other \notin Containers
  BY FoldersAre
<1>4. RealEntry(item).id = item /\ RealEntry(other).id = other
  BY TrackEntry
<1>5. k = <<1, 0, p, r>>
  BY <1>1, <1>3, <1>4 DEF ByKindAndNumber, IsContainer, NumberOf
<1>6. l = <<1, 0, q, s>>
  BY <1>1, <1>3, <1>4 DEF ByKindAndNumber, IsContainer, NumberOf
<1>7. ~(q < p)
  <2> SUFFICES ASSUME q < p PROVE Less(l, k)
    OBVIOUS
  <2>1. 3 \in DOMAIN l /\ l[3] < k[3]
    BY <1>5, <1>6
  <2>2. \A m \in 1 .. 3 - 1 : m = 1 \/ m = 2
    OBVIOUS
  <2>3. l[1] = k[1] /\ l[2] = k[2]
    BY <1>5, <1>6
  <2>4. \A m \in 1 .. 3 - 1 : l[m] = k[m]
    BY <2>2, <2>3
  <2> QED BY <2>1, <2>4 DEF Less
<1> QED BY <1>1, <1>2, <1>7

NumbersRise(l) ==
  \A i, j \in 1 .. Len(l) :
    i < j /\ NumberOf(l[i].id) # None /\ NumberOf(l[j].id) # None
      => NumberOf(l[i].id) <= NumberOf(l[j].id)

LEMMA AlbumOrdered ==
  ASSUME IndexBuilt(lib), NEW album \in Snapshot.album_ids, NEW l, l = tracks_of_album(album)
  PROVE  /\ NumbersRise(l)
         /\ \A i \in 1 .. Len(l) : l[i].id \in Items /\ l[i] = RealEntry(l[i].id)
<1>1. PICK ids, all, n : ids = Tracks(album) /\ all = real_entries(ids) /\ n = Len(all)
  OBVIOUS
<1>2. ids \in Seq(Items)
  <2>1. album \in Containers
    BY SnapshotTyped
  <2>2. ChildrenOf(album) \in Seq(Containers \cup Items)
    BY <2>1, FoldersAre
  <2>3. Only(ChildrenOf(album), Items) \in Seq((Containers \cup Items) \cap Items)
    BY <2>2, OnlyCollects
  <2>4. (Containers \cup Items) \cap Items = Items
    OBVIOUS
  <2> QED BY <1>1, <2>3, <2>4 DEF Tracks, ChildrenOf
<1>3. PICK Y : Y = {RealEntry(id) : id \in Items}
  OBVIOUS
<1>4. /\ all \in Seq(Y) /\ n = Len(ids) /\ n \in Nat
      /\ \A i \in 1 .. n : all[i] = RealEntry(ids[i]) /\ ids[i] \in Items
  BY <1>1, <1>2, <1>3, EntriesOf, LenProperties, ElementOfSeq
<1>5. PICK keys : keys = [i \in DOMAIN all |-> ByKindAndNumber(all[i])]
  OBVIOUS
<1>6. DOMAIN all = 1 .. n
  BY <1>1, <1>4, LenProperties
<1>7. l = StableSort(all, keys)
  BY <1>1, <1>5 DEF tracks_of_album, Sorted
<1>8. PICK four : four = 4
  OBVIOUS
<1>9. keys \in [1 .. Len(all) -> KeysOf(four)]
  BY <1>1, <1>4, <1>5, <1>6, <1>8, KindKeys
<1>10. four \in Nat
  BY <1>8
<1>11. Orders(l, all, keys)
  BY <1>4, <1>7, <1>9, <1>10, StableSortOrders
<1>12. /\ Len(l) = n
       /\ \A i \in 1 .. n : \E j \in 1 .. n : l[i] = all[j]
  <2>1. PICK X : X = (Containers \ {Root}) \cup Items
    OBVIOUS
  <2>2. Items \subseteq X
    BY <2>1
  <2>3. ids \in Seq(X)
    BY <1>2, <2>2
  <2>4. Resorted(Sorted(ids), all)
    BY <1>1, <2>1, <2>3, SortedIds
  <2>5. l = Sorted(ids)
    BY <1>1 DEF tracks_of_album
  <2> QED BY <1>1, <2>4, <2>5 DEF Resorted
<1>13. \A i \in 1 .. n : all[i].id = ids[i]
  BY <1>4, TrackEntry
<1>14. ASSUME NEW i \in 1 .. n PROVE l[i].id \in Items /\ l[i] = RealEntry(l[i].id)
  <2>1. PICK j \in 1 .. n : l[i] = all[j]
    BY <1>12
  <2> QED BY <1>4, <1>13, <2>1
<1>15. ASSUME NEW i \in 1 .. n, NEW j \in 1 .. n, i < j,
              NumberOf(l[i].id) # None, NumberOf(l[j].id) # None
       PROVE  NumberOf(l[i].id) <= NumberOf(l[j].id)
  <2>1. PICK a \in 1 .. n, b \in 1 .. n :
          l[i] = all[a] /\ l[j] = all[b] /\ ~Less(keys[b], keys[a])
    <3>1. \A f, g \in 1 .. Len(l) : f < g =>
            \E a, b \in 1 .. Len(all) : l[f] = all[a] /\ l[g] = all[b] /\ ~Less(keys[b], keys[a])
      BY <1>11 DEF Orders
    <3>2. i \in 1 .. Len(l) /\ j \in 1 .. Len(l) /\ i < j
      BY <1>12, <1>15
    <3>3. PICK a, b \in 1 .. Len(all) : l[i] = all[a] /\ l[j] = all[b] /\ ~Less(keys[b], keys[a])
      BY <3>1, <3>2
    <3> QED BY <1>1, <3>3
  <2>2. PICK item, other : item = ids[a] /\ other = ids[b]
    OBVIOUS
  <2>3. l[i].id = item /\ l[j].id = other /\ item \in Items /\ other \in Items
    BY <1>4, <1>13, <2>1, <2>2
  <2>4. /\ keys[a] = ByKindAndNumber(RealEntry(item))
        /\ keys[b] = ByKindAndNumber(RealEntry(other))
    BY <1>4, <1>5, <1>6, <2>2
  <2>5. NumberOf(item) # None /\ NumberOf(other) # None
    BY <1>15, <2>3
  <2>6. NumberOf(item) <= NumberOf(other)
    BY <2>1, <2>3, <2>4, <2>5, NumbersCompared
  <2> QED BY <2>3, <2>6
<1> QED BY <1>12, <1>14, <1>15 DEF NumbersRise

-----------------------------------------------------------------------------
(* Listings that agree: where no two keys tie, a sorted listing is the     *)
(* same however the map was iterated.                                      *)

(* Whatever stands behind is not less.                                     *)
LEMMA SortedPairs ==
  ASSUME NEW n \in Nat, NEW S, IsFiniteSet(S), NEW key \in [S -> KeysOf(n)],
         NEW seq \in SortedAnyhow(key), NEW i \in 1 .. Len(seq)
  PROVE  \A j \in i .. Len(seq) : ~Less(key[seq[j]], key[seq[i]])
<1>1. PICK K, len : K = KeysOf(n) /\ len = Len(seq)
  OBVIOUS
<1>2. seq \in Seq(S) /\ len \in Nat /\ i \in 1 .. len
  BY <1>1, SortedIs, LenProperties
<1>3. ASSUME NEW j \in 1 .. len PROVE seq[j] \in S /\ key[seq[j]] \in KeysOf(n)
  BY <1>1, <1>2, <1>3, ElementOfSeq
<1>4. ASSUME NEW j \in 2 .. len PROVE ~Less(key[seq[j]], key[seq[j - 1]])
  BY <1>1, <1>4 DEF SortedAnyhow
<1> DEFINE Q == {d \in Nat : i + d <= len => ~Less(key[seq[i + d]], key[seq[i]])}
<1>5. 0 \in Q
  <2>1. PICK k : k = key[seq[i]]
    OBVIOUS
  <2>2. ~Less(k, k)
    BY <1>2, <1>3, <2>1, LessIrreflexive
  <2>3. i + 0 = i
    BY <1>2
  <2> QED BY <2>1, <2>2, <2>3
<1>6. ASSUME NEW d \in Nat, d \in Q PROVE d + 1 \in Q
  <2> SUFFICES ASSUME i + (d + 1) <= len PROVE ~Less(key[seq[i + (d + 1)]], key[seq[i]])
    OBVIOUS
  <2>1. PICK a, b : a = i + d /\ b = i + (d + 1)
    OBVIOUS
  <2>2. a \in 1 .. len /\ b \in 2 .. len /\ b - 1 = a /\ b \in 1 .. len
    BY <1>2, <2>1
  <2>3. PICK k, l, m : k = key[seq[i]] /\ l = key[seq[a]] /\ m = key[seq[b]]
    OBVIOUS
  <2>4. k \in KeysOf(n) /\ l \in KeysOf(n) /\ m \in KeysOf(n)
    BY <1>2, <1>3, <2>2, <2>3
  <2>5. ~Less(l, k)
    BY <1>6, <2>1, <2>2, <2>3
  <2>6. ~Less(m, l)
    BY <1>4, <2>2, <2>3
  <2>7. k = l \/ Less(k, l)
    BY <2>4, <2>5, LessTotal
  <2>8. ~Less(m, k)
    BY <2>4, <2>6, <2>7, LessTransitive
  <2> QED BY <2>1, <2>3, <2>8
<1> HIDE DEF Q
<1>7. \A d \in Nat : d \in Q
  BY <1>5, <1>6, NatInduct
<1>8. ASSUME NEW j \in i .. len PROVE ~Less(key[seq[j]], key[seq[i]])
  <2>1. j - i \in Nat /\ i + (j - i) = j /\ j <= len
    BY <1>2
  <2>2. j - i \in Q
    BY <1>7, <2>1
  <2> QED BY <2>1, <2>2 DEF Q
<1> QED BY <1>1, <1>8

(* Up to here, keys that tie are those of one entry.                       *)
Alike(l, m, key, c) == \A i \in 1 .. c : key[l[i]] = key[m[i]] => l[i] = m[i]

Begin(l, m, k) == \A i \in 1 .. k : l[i] = m[i]

(* What stands at a place in one order is, in another that agrees with it  *)
(* so far, not less than what stands there.                                *)
LEMMA NotBefore ==
  ASSUME NEW n \in Nat, NEW S, IsFiniteSet(S), NEW key \in [S -> KeysOf(n)],
         NEW l \in SortedAnyhow(key), NEW m \in SortedAnyhow(key),
         NEW k \in 1 .. Cardinality(S), Begin(l, m, k - 1)
  PROVE  ~Less(key[l[k]], key[m[k]])
<1>1. PICK K, c, x : K = KeysOf(n) /\ c = Cardinality(S) /\ x = l[k]
  OBVIOUS
<1>2. /\ l \in Seq(S) /\ Len(l) = c /\ \A i, j \in 1 .. c : i # j => l[i] # l[j]
      /\ m \in Seq(S) /\ Len(m) = c
  <2>1. /\ l \in Seq(S) /\ Len(l) = Cardinality(S)
        /\ \A i, j \in 1 .. Len(l) : i # j => l[i] # l[j]
    BY <1>1, SortedIs
  <2>2. m \in Seq(S) /\ Len(m) = Cardinality(S)
    BY <1>1, SortedIs
  <2> QED BY <1>1, <2>1, <2>2
<1>3. c \in Nat /\ k \in 1 .. c
  BY <1>1, FS_CardinalityType
<1>4. x \in S
  BY <1>1, <1>2, <1>3, ElementOfSeq
<1>5. PICK a \in 1 .. c : m[a] = x
  <2>1. \E a \in 1 .. Len(m) : m[a] = x
    BY <1>4, SortedAll
  <2> QED BY <1>2, <2>1
<1>6. a \in k .. c
  <2> SUFFICES ASSUME a < k PROVE FALSE
    BY <1>3
  <2>1. a \in 1 .. k - 1
    BY <1>3
  <2>2. l[a] = l[k] /\ a # k
    BY <1>1, <1>5, <2>1 DEF Begin
  <2> QED BY <1>2, <1>3, <2>2
<1>7. k \in 1 .. Len(m) /\ a \in k .. Len(m)
  BY <1>2, <1>3, <1>6
<1>8. ~Less(key[m[a]], key[m[k]])
  BY <1>7, SortedPairs
<1> QED BY <1>1, <1>5, <1>8

LEMMA SortedAgree ==
  ASSUME NEW n \in Nat, NEW S, IsFiniteSet(S), NEW key \in [S -> KeysOf(n)],
         NEW l \in SortedAnyhow(key), NEW m \in SortedAnyhow(key),
         NEW c \in 0 .. Cardinality(S), Alike(l, m, key, c)
  PROVE  Begin(l, m, c)
<1>1. PICK K, all : K = KeysOf(n) /\ all = Cardinality(S)
  OBVIOUS
<1>2. l \in Seq(S) /\ Len(l) = all /\ m \in Seq(S) /\ Len(m) = all
  BY <1>1, SortedIs
<1>3. all \in Nat /\ c \in Nat /\ c <= all
  BY <1>1, FS_CardinalityType
<1> DEFINE Q == {k \in Nat : k <= c => \A i \in 1 .. k : l[i] = m[i]}
<1>4. 0 \in Q
  OBVIOUS
<1>5. ASSUME NEW k \in Nat, k \in Q PROVE k + 1 \in Q
  <2> SUFFICES ASSUME k + 1 <= c PROVE \A i \in 1 .. k + 1 : l[i] = m[i]
    OBVIOUS
  <2>1. PICK j : j = k + 1
    OBVIOUS
  <2>2. j \in 1 .. all /\ j \in 1 .. c /\ j \in 1 .. Cardinality(S)
    BY <1>1, <1>3, <2>1
  <2>3. \A i \in 1 .. k : l[i] = m[i]
    BY <1>3, <1>5
  <2>4. Begin(l, m, j - 1) /\ Begin(m, l, j - 1)
    BY <2>1, <2>3 DEF Begin
  <2>5. ~Less(key[l[j]], key[m[j]])
    BY <2>2, <2>4, NotBefore
  <2>6. ~Less(key[m[j]], key[l[j]])
    BY <2>2, <2>4, NotBefore
  <2>7. key[l[j]] \in KeysOf(n) /\ key[m[j]] \in KeysOf(n)
    <3>1. l[j] \in S /\ m[j] \in S
      BY <1>2, <2>2, ElementOfSeq
    <3> QED BY <3>1
  <2>8. key[l[j]] = key[m[j]]
    BY <2>5, <2>6, <2>7, LessTotal
  <2>9. l[j] = m[j]
    BY <2>2, <2>8 DEF Alike
  <2> QED BY <2>1, <2>3, <2>9
<1> HIDE DEF Q
<1>6. c \in Q
  BY <1>3, <1>4, <1>5, NatInduct
<1> QED BY <1>3, <1>6 DEF Q, Begin

(* Two containers are told apart by what a view sorts them by.             *)
Discerned(mode, e, f) ==
  IF mode.view = "recent_albums" THEN Newest(e.id) # Newest(f.id) ELSE e.title # f.title

KeysTell(mode, key, S) == \A e, f \in S : key[e] = key[f] => ~Discerned(mode, e, f)

(* Any two containers that come at one place of two of these listings are. *)
PairApart(mode, l, m, c) ==
  \A i \in 1 .. c : l[i].path = None /\ m[i].path = None /\ l[i].id # m[i].id
                      => Discerned(mode, l[i], m[i])

Apart(mode, listings) == \A l, m \in listings : PairApart(mode, l, m, Len(l))

Boxes(S) == \A e \in S : e.path = None /\ e.title \in Names /\ \E old : EntryAt(e, old)

LEMMA SortedApart ==
  ASSUME NEW mode, NEW n \in Nat, NEW S, IsFiniteSet(S), Once(S), Boxes(S),
         NEW key \in [S -> KeysOf(n)], KeysTell(mode, key, S),
         NEW l \in SortedAnyhow(key), NEW m \in SortedAnyhow(key),
         NEW c \in 0 .. Cardinality(S), PairApart(mode, l, m, c)
  PROVE  Begin(l, m, c)
<1>1. PICK K, all : K = KeysOf(n) /\ all = Cardinality(S)
  OBVIOUS
<1>2. l \in Seq(S) /\ Len(l) = all /\ m \in Seq(S) /\ Len(m) = all
  BY <1>1, SortedIs
<1>3. all \in Nat /\ c \in Nat /\ c <= all
  BY <1>1, FS_CardinalityType
<1>4. ASSUME NEW i \in 1 .. c, key[l[i]] = key[m[i]] PROVE l[i] = m[i]
  <2>1. i \in 1 .. all
    BY <1>3
  <2>2. PICK e, f : e = l[i] /\ f = m[i]
    OBVIOUS
  <2>3. e \in S /\ f \in S
    BY <1>2, <2>1, <2>2, ElementOfSeq
  <2>4. ~Discerned(mode, e, f)
    BY <1>4, <2>2, <2>3 DEF KeysTell
  <2>5. e.path = None /\ f.path = None
    BY <2>3 DEF Boxes
  <2>6. e.id = f.id
    BY <2>2, <2>4, <2>5 DEF PairApart
  <2> QED BY <2>2, <2>3, <2>6 DEF Once
<1>5. Alike(l, m, key, c)
  BY <1>4 DEF Alike
<1> QED BY <1>5, SortedAgree

(* The top of a view: so many of a sorted listing, below the root.         *)
Heads(top, l, c) == top = [i \in 1 .. c |-> reparent_to_root(l[i])]

LEMMA HeadsApart ==
  ASSUME NEW mode, NEW n \in Nat, NEW S, IsFiniteSet(S), Once(S), Boxes(S),
         NEW key \in [S -> KeysOf(n)], KeysTell(mode, key, S),
         NEW l \in SortedAnyhow(key), NEW m \in SortedAnyhow(key), NEW c \in 0 .. Cardinality(S),
         NEW top, Heads(top, l, c), NEW other, Heads(other, m, c), PairApart(mode, top, other, c)
  PROVE  top = other
<1>1. PICK K, all : K = KeysOf(n) /\ all = Cardinality(S)
  OBVIOUS
<1>2. l \in Seq(S) /\ Len(l) = all /\ m \in Seq(S) /\ Len(m) = all
  BY <1>1, SortedIs
<1>3. all \in Nat /\ c \in Nat /\ c <= all
  BY <1>1, FS_CardinalityType
<1>4. ASSUME NEW e \in S, NEW up, up = reparent_to_root(e)
      PROVE  up.id = e.id /\ up.path = e.path /\ up.title = e.title
  BY <1>4, UnderIs DEF Boxes, reparent_to_root
<1>5. ASSUME NEW i \in 1 .. c PROVE l[i] \in S /\ m[i] \in S
  <2>1. i \in 1 .. all
    BY <1>3
  <2> QED BY <1>2, <2>1, ElementOfSeq
<1>6. ASSUME NEW i \in 1 .. c, l[i].path = None, m[i].path = None, l[i].id # m[i].id
      PROVE  Discerned(mode, l[i], m[i])
  <2>1. PICK e, f, up, down : /\ e = l[i] /\ f = m[i]
                              /\ up = reparent_to_root(e) /\ down = reparent_to_root(f)
    OBVIOUS
  <2>2. /\ up.id = e.id /\ up.path = e.path /\ up.title = e.title
        /\ down.id = f.id /\ down.path = f.path /\ down.title = f.title
    BY <1>4, <1>5, <2>1
  <2>3. up = top[i] /\ down = other[i]
    BY <2>1 DEF Heads
  <2>4. Discerned(mode, up, down)
    BY <1>6, <2>1, <2>2, <2>3 DEF PairApart
  <2> QED BY <2>1, <2>2, <2>4 DEF Discerned
<1>7. PairApart(mode, l, m, c)
  BY <1>6 DEF PairApart
<1>8. Begin(l, m, c)
  BY <1>7, SortedApart
<1> QED BY <1>8 DEF Begin, Heads

(* What the keys of the views tell.                                        *)
LEMMA TitlesTell ==
  ASSUME NEW mode, mode.view # "recent_albums", NEW S, Boxes(S)
  PROVE  KeysTell(mode, [e \in S |-> ByTitle(e)], S) /\ KeysTell(mode, [e \in S |-> ByShelf(e)], S)
<1>1. ASSUME NEW e \in S, NEW f \in S, ByTitle(e) = ByTitle(f) \/ ByShelf(e) = ByShelf(f)
      PROVE  ~Discerned(mode, e, f)
  <2>1. PICK a, b : a = e.title /\ b = f.title
    OBVIOUS
  <2>2. a \in Names /\ b \in Names
    BY <2>1 DEF Boxes
  <2>3. Rank[a] = Rank[b]
    <3>1. ByTitle(e) = <<Rank[a]>> /\ ByTitle(f) = <<Rank[b]>>
      BY <2>1 DEF ByTitle
    <3>2. ByShelf(e) = <<ShelfRank[a], Rank[a]>> /\ ByShelf(f) = <<ShelfRank[b], Rank[b]>>
      BY <2>1 DEF ByShelf
    <3> QED BY <1>1, <3>1, <3>2
  <2>4. a = b
    BY <2>2, <2>3, RankAssumption
  <2> QED BY <2>1, <2>4 DEF Discerned
<1> QED BY <1>1 DEF KeysTell

LEMMA AgesTell ==
  ASSUME NEW mode, mode.view = "recent_albums", NEW S, \A e \in S : Newest(e.id) \in Nat
  PROVE  KeysTell(mode, [e \in S |-> ByAge(Newest(e.id))], S)
<1>1. ASSUME NEW e \in S, NEW f \in S, ByAge(Newest(e.id)) = ByAge(Newest(f.id))
      PROVE  ~Discerned(mode, e, f)
  <2>1. PICK a, b : a = Newest(e.id) /\ b = Newest(f.id)
    OBVIOUS
  <2>2. <<-a>> = <<-b>>
    BY <1>1, <2>1 DEF ByAge
  <2>3. a \in Nat /\ b \in Nat
    BY <2>1
  <2>4. -a = -b
    BY <2>2
  <2>5. a = b
    BY <2>3, <2>4
  <2> QED BY <2>1, <2>5 DEF Discerned
<1> QED BY <1>1 DEF KeysTell

(* The top of Albums, Artists and the recent albums.                       *)
LEMMA BoxesSound ==
  ASSUME NEW mode, mode.view \in AlbumViews, NEW S, \A e \in S : Sound(mode, e),
         \A e \in S : e.title \in Names
  PROVE  Boxes(S)
  BY DEF Sound, Boxes

LEMMA TopsApart ==
  ASSUME NEW mode, mode.view # "folders", NEW n \in Nat, NEW S, IsFiniteSet(S), Once(S), Boxes(S),
         NEW key \in [S -> KeysOf(n)], KeysTell(mode, key, S), TopOf(mode) = SortedAnyhow(key),
         Apart(mode, Children(mode, Root))
  PROVE  Sole(mode, Root)
<1>1. PICK c : c = Cardinality(S)
  OBVIOUS
<1>2. c \in Nat /\ c \in 0 .. Cardinality(S)
  BY <1>1, FS_CardinalityType
<1>3. Children(mode, Root) = Rerooted(SortedAnyhow(key))
  BY TopListed
<1>4. ASSUME NEW o \in SortedAnyhow(key), NEW top, top = [i \in DOMAIN o |-> reparent_to_root(o[i])]
      PROVE  Heads(top, o, c) /\ Len(top) = c
  <2>1. Made(SortedAnyhow(key), Cardinality(S), S)
    BY SortedMade
  <2>2. DOMAIN o = 1 .. c
    BY <1>1, <2>1 DEF Made, Holds, Listing
  <2>3. top = [i \in 1 .. c |-> reparent_to_root(o[i])]
    BY <1>4, <2>2
  <2>4. DOMAIN top = 1 .. c /\ top = [i \in 1 .. c |-> top[i]]
    BY <2>3
  <2> QED BY <1>2, <2>3, <2>4, MadeListing DEF Heads
<1>5. ASSUME NEW top \in Children(mode, Root), NEW other \in Children(mode, Root)
      PROVE  top = other
  <2>1. PICK l \in SortedAnyhow(key) : top = [i \in DOMAIN l |-> reparent_to_root(l[i])]
    BY <1>3 DEF Rerooted
  <2>2. PICK m \in SortedAnyhow(key) : other = [i \in DOMAIN m |-> reparent_to_root(m[i])]
    BY <1>3 DEF Rerooted
  <2>3. Heads(top, l, c) /\ Len(top) = c /\ Heads(other, m, c)
    BY <1>4, <2>1, <2>2
  <2>4. PairApart(mode, top, other, c)
    BY <2>3 DEF Apart
  <2> QED BY <1>2, <2>3, <2>4, HeadsApart
<1> QED BY <1>5 DEF Sole

LEMMA AlbumsApart ==
  ASSUME IndexBuilt(lib), NEW mode, mode.view = "albums", Apart(mode, Children(mode, Root))
  PROVE  Sole(mode, Root)
<1>1. PICK S, key, one : /\ S = album_containers(Snapshot, Snapshot.album_ids)
                         /\ key = [e \in S |-> ByTitle(e)] /\ one = 1
  OBVIOUS
<1>2. IsFiniteSet(S) /\ Once(S) /\ (\A e \in S : Sound(mode, e)) /\ \A e \in S : e.title \in Names
  BY <1>1, AlbumsSound
<1>3. key \in [S -> KeysOf(one)] /\ one \in Nat
  BY <1>1, <1>2, TitleKeys
<1>4. TopOf(mode) = SortedAnyhow(key)
  BY <1>1 DEF albums, TopOf
<1>5. Boxes(S)
  BY <1>2, BoxesSound DEF AlbumViews
<1>6. KeysTell(mode, key, S)
  BY <1>1, <1>5, TitlesTell
<1> QED BY <1>2, <1>3, <1>4, <1>5, <1>6, TopsApart

LEMMA ArtistsApart ==
  ASSUME IndexBuilt(lib), NEW mode, mode.view = "artists", Apart(mode, Children(mode, Root))
  PROVE  Sole(mode, Root)
<1>1. PICK S, key, two : /\ S = {artist_container(a) : a \in Snapshot.artists}
                         /\ key = [e \in S |-> ByShelf(e)] /\ two = 2
  OBVIOUS
<1>2. Once(S)
  BY <1>1, ArtistsMade
<1>3. IsFiniteSet(S)
  <2> DEFINE f == [a \in Snapshot.artists |-> artist_container(a)]
  <2>1. S = {f[a] : a \in Snapshot.artists}
    BY <1>1
  <2>2. IsFiniteSet(Snapshot.artists)
    BY ArtistsAre
  <2> HIDE DEF f
  <2> QED BY <2>1, <2>2, ImageFinite
<1>4. Boxes(S)
  <2>1. ASSUME NEW artist \in Snapshot.artists, NEW e, e = artist_container(artist)
        PROVE  e.path = None /\ e.title \in Names /\ EntryAt(e, None)
    BY <2>1, ArtistEntry
  <2> QED BY <1>1, <2>1 DEF Boxes
<1>5. key \in [S -> KeysOf(two)] /\ two \in Nat
  BY <1>1, <1>4, TitleKeys DEF Boxes
<1>6. TopOf(mode) = SortedAnyhow(key)
  BY <1>1 DEF artists, TopOf
<1>7. KeysTell(mode, key, S)
  BY <1>1, <1>4, TitlesTell
<1> QED BY <1>2, <1>3, <1>4, <1>5, <1>6, <1>7, TopsApart

(* An artist's albums.                                                     *)
LEMMA UnderApart ==
  ASSUME IndexBuilt(lib), NEW mode, mode.view = "artists", NEW artist \in Snapshot.artists,
         Apart(mode, Children(mode, artist.id))
  PROVE  Sole(mode, artist.id)
<1>1. PICK S, key, one : S = ArtistAlbums(artist) /\ key = [e \in S |-> ByTitle(e)] /\ one = 1
  OBVIOUS
<1>2. artist.albums \subseteq Snapshot.album_ids
  BY ArtistsAre DEF ArtistIs
<1>3. IsFiniteSet(S) /\ Cardinality(S) \in Nat
  BY <1>1, <1>2, AlbumsCounted, FS_CardinalityType DEF ArtistAlbums
<1>4. ASSUME NEW album \in artist.albums, NEW e, e = Under(artist.id, album_container(Snapshot, album))
      PROVE  EntryAt(e, artist.id) /\ e.path = None /\ e.title \in Names /\ e.id = album
  <2>1. PICK old : old = album_container(Snapshot, album)
    OBVIOUS
  <2>2. /\ EntryAt(old, lib.containers[album].parent) /\ old.id = album /\ old.path = None
        /\ old.title \in Names
    BY <1>2, <2>1, AlbumEntry
  <2> QED BY <1>4, <2>1, <2>2, UnderIs
<1>5. Boxes(S) /\ Once(S)
  BY <1>1, <1>4 DEF ArtistAlbums, album_containers, Boxes, Once
<1>6. key \in [S -> KeysOf(one)] /\ one \in Nat
  BY <1>1, <1>5, TitleKeys DEF Boxes
<1>7. Children(mode, artist.id) = SortedAnyhow(key)
  <2>1. {a \in Snapshot.artists : a.id = artist.id} = {artist}
    BY ArtistsAre
  <2>2. artist.id # Root
    BY ArtistsAre DEF ArtistIs
  <2>3. Children(mode, artist.id) = UNION {albums_under_artist(Snapshot, a) : a \in {artist}}
    BY <2>1, <2>2 DEF Children, children_within
  <2>4. albums_under_artist(Snapshot, artist) = SortedAnyhow(key)
    BY <1>1 DEF albums_under_artist, ArtistAlbums
  <2> QED BY <2>3, <2>4
<1>8. KeysTell(mode, key, S)
  BY <1>1, <1>5, TitlesTell
<1>9. ASSUME NEW l \in SortedAnyhow(key), NEW m \in SortedAnyhow(key) PROVE l = m
  <2>1. PICK c : c = Cardinality(S)
    OBVIOUS
  <2>2. c \in Nat /\ c \in 0 .. Cardinality(S)
    BY <1>3, <2>1
  <2>3. Made(SortedAnyhow(key), Cardinality(S), S)
    BY <1>3, <1>6, SortedMade
  <2>4. l \in Seq(ToSet(l)) /\ m \in Seq(ToSet(m)) /\ Len(l) = c /\ Len(m) = c
    BY <2>1, <2>3 DEF Made, Holds, Listing
  <2>5. PairApart(mode, l, m, c)
    BY <1>7, <2>4 DEF Apart
  <2>6. Begin(l, m, c)
    BY <1>3, <1>5, <1>6, <1>8, <2>2, <2>5, SortedApart
  <2> QED BY <2>4, <2>6, SeqsEqual DEF Begin
<1> QED BY <1>7, <1>9 DEF Sole

(* The recent albums: the first of them, by age.                           *)
LEMMA RecentApart ==
  ASSUME IndexBuilt(lib), NEW mode, ModeIs(mode), mode.view = "recent_albums",
         Apart(mode, Children(mode, Root))
  PROVE  Sole(mode, Root)
<1>1. PICK recent, S, ages, one :
        /\ recent = {album \in Snapshot.album_ids : Newest(album) >= Cutoff}
        /\ S = album_containers(Snapshot, recent)
        /\ ages = [e \in S |-> ByAge(Newest(e.id))] /\ one = 1
  OBVIOUS
<1>2. recent \subseteq Snapshot.album_ids
  BY <1>1
<1>3. /\ IsFiniteSet(S) /\ Once(S) /\ (\A e \in S : Sound(mode, e))
      /\ \A e \in S : e.title \in Names /\ e.id \in recent
  BY <1>1, <1>2, AlbumsSound
<1>4. \A e \in S : Newest(e.id) \in Nat
  BY <1>2, <1>3, NewestIs
<1>5. ages \in [S -> KeysOf(one)] /\ one \in Nat
  <2>1. ASSUME NEW e \in S PROVE ByAge(Newest(e.id)) \in KeysOf(one)
    <3>1. PICK m : m = Newest(e.id)
      OBVIOUS
    <3>2. m \in Nat
      BY <1>4, <3>1
    <3> QED BY <1>1, <3>1, <3>2 DEF ByAge, KeysOf
  <2> QED BY <1>1, <2>1
<1>6. Boxes(S)
  BY <1>3, BoxesSound DEF AlbumViews
<1>7. KeysTell(mode, ages, S)
  BY <1>1, <1>4, AgesTell
<1>8. mode.count \in Nat /\ mode.view # "folders"
  BY DEF ModeIs
<1>9. PICK size, least : /\ size = Cardinality(S)
                         /\ least = IF mode.count <= size THEN mode.count ELSE size
  OBVIOUS
<1>10. size \in Nat /\ least \in Nat /\ least \in 0 .. Cardinality(S)
  BY <1>3, <1>8, <1>9, FS_CardinalityType
<1>11. Children(mode, Root) = Rerooted({First(mode.count, o) : o \in SortedAnyhow(ages)})
  <2>1. TopOf(mode) = recently_added_albums(Snapshot, mode.count)
    BY DEF TopOf
  <2>2. recently_added_albums(Snapshot, mode.count) = {First(mode.count, o) : o \in SortedAnyhow(ages)}
    BY <1>1 DEF recently_added_albums
  <2> QED BY <1>8, <2>1, <2>2, TopListed
<1>12. ASSUME NEW o \in SortedAnyhow(ages), NEW f, f = First(mode.count, o),
              NEW top, top = [i \in DOMAIN f |-> reparent_to_root(f[i])]
       PROVE  Heads(top, o, least) /\ Len(top) = least
  <2>1. Made(SortedAnyhow(ages), Cardinality(S), S)
    BY <1>3, <1>5, SortedMade
  <2>2. Listing(o) /\ Len(o) = size
    BY <1>9, <2>1 DEF Made, Holds
  <2>3. Listing(f) /\ Len(f) = least /\ \A i \in 1 .. least : f[i] = o[i]
    BY <1>8, <1>9, <1>12, <2>2, FirstIs
  <2>4. DOMAIN f = 1 .. least
    BY <2>3 DEF Listing
  <2>5. top = [i \in 1 .. least |-> reparent_to_root(o[i])]
    BY <1>12, <2>3, <2>4
  <2>6. DOMAIN top = 1 .. least /\ top = [i \in 1 .. least |-> top[i]]
    BY <2>5
  <2> QED BY <1>10, <2>5, <2>6, MadeListing DEF Heads
<1>13. ASSUME NEW top \in Children(mode, Root), NEW other \in Children(mode, Root)
       PROVE  top = other
  <2>1. PICK l, f : /\ l \in SortedAnyhow(ages) /\ f = First(mode.count, l)
                    /\ top = [i \in DOMAIN f |-> reparent_to_root(f[i])]
    BY <1>11 DEF Rerooted
  <2>2. PICK m, g : /\ m \in SortedAnyhow(ages) /\ g = First(mode.count, m)
                    /\ other = [i \in DOMAIN g |-> reparent_to_root(g[i])]
    BY <1>11 DEF Rerooted
  <2>3. Heads(top, l, least) /\ Len(top) = least /\ Heads(other, m, least)
    BY <1>12, <2>1, <2>2
  <2>4. PairApart(mode, top, other, least)
    BY <2>3 DEF Apart
  <2> QED BY <1>3, <1>5, <1>6, <1>7, <1>10, <2>1, <2>2, <2>3, <2>4, HeadsApart
<1> QED BY <1>13 DEF Sole

(* Wherever what is listed is told apart, it is listed in one order.       *)
LEMMA ApartAlike ==
  ASSUME IndexBuilt(lib), NEW mode, ModeIs(mode), mode.view # "folders", NEW id,
         Apart(mode, Children(mode, id))
  PROVE  Sole(mode, id)
<1>1. CASE id = Root
  <2>1. CASE mode.view = "recent_songs"
    <3>1. PICK o : recently_added_songs(Snapshot, mode.count) = {o}
      BY DEF recently_added_songs
    <3>2. TopOf(mode) = {o}
      BY <2>1, <3>1 DEF TopOf
    <3>3. Children(mode, Root) = Rerooted({o})
      BY <3>2, TopListed
    <3> QED BY <1>1, <3>3 DEF Sole, Rerooted
  <2>2. CASE mode.view = "songs"
    BY <1>1, <2>2, SongsBring
  <2> QED BY <1>1, <2>1, <2>2, AlbumsApart, ArtistsApart, RecentApart DEF ModeIs
<1>2. CASE id # Root
  <2>1. PICK found : found = {a \in Snapshot.artists : a.id = id}
    OBVIOUS
  <2>2. Children(mode, id) =
          IF mode.view = "artists" /\ found # {}
          THEN UNION {albums_under_artist(Snapshot, a) : a \in found}
          ELSE IF mode.view \in AlbumViews
          THEN {tracks_of_album(a) : a \in {id} \cap Snapshot.album_ids} ELSE {}
    BY <1>2, <2>1 DEF Children, children_within, AlbumViews
  <2>3. CASE mode.view = "artists" /\ found # {}
    <3>1. PICK artist \in Snapshot.artists : artist.id = id
      BY <2>1, <2>3
    <3> QED BY <2>3, <3>1, UnderApart
  <2>4. CASE ~(mode.view = "artists" /\ found # {})
    <3>1. \A l \in Children(mode, id) : l = tracks_of_album(id)
      BY <2>2, <2>4
    <3> QED BY <3>1 DEF Sole
  <2> QED BY <2>3, <2>4
<1> QED BY <1>1, <1>2
=============================================================================
