--------------------------- MODULE LibraryWalkProofs ---------------------------
(***************************************************************************)
(* A request for the albums while rescans exchange the index, for any      *)
(* indexes a scan can build and any number of rescans: what is answered    *)
(* was served meanwhile, it is the whole index if no rescan came between,  *)
(* and the ids listed play what was listed.                                *)
(***************************************************************************)
EXTENDS LibraryWalk, NatRecursion, SequenceTheorems, TLAPS

-----------------------------------------------------------------------------
(* The indexes.                                                            *)

Ids(ix) == DOMAIN ix.children \cup DOMAIN ix.track

(* The folders, and the tracks, that stand in a container.                 *)
FoldersOf(ix, parent) == ToSet(ix.children[parent]) \cap DOMAIN ix.children
TracksOf(ix, parent)  == ToSet(ix.children[parent]) \cap DOMAIN ix.track

Items == [id : Nat, parent : Nat, file : Tracks]

(* This item is a track of this container, as the index has it.            *)
ItemOf(ix, item, parent) ==
  item.parent = parent /\ item.id \in TracksOf(ix, parent) /\ item.file = ix.track[item.id]

LEMMA IndexIsTree ==
  ASSUME NEW ix \in Indexes
  PROVE  /\ 0 \in DOMAIN ix.children /\ DOMAIN ix.title = DOMAIN ix.children
         /\ Ids(ix) \subseteq Nat /\ IsFiniteSet(Ids(ix))
         /\ ix.track \in [DOMAIN ix.track -> Tracks]
         /\ DOMAIN ix.children \cap DOMAIN ix.track = {}
         /\ \A parent \in DOMAIN ix.children :
              /\ ix.children[parent] \in Seq(Ids(ix))
              /\ IsInjective(ix.children[parent])
              /\ \A id \in ToSet(ix.children[parent]) : id > parent
         /\ \A id \in Ids(ix) \ {0} :
              \E parent \in DOMAIN ix.children : id \in ToSet(ix.children[parent])
         /\ \A p, q \in DOMAIN ix.children :
              ToSet(ix.children[p]) \cap ToSet(ix.children[q]) # {} => p = q
<1> DEFINE containers == DOMAIN ix.children
           ids == containers \cup DOMAIN ix.track
<1>1. /\ 0 \in containers /\ DOMAIN ix.title = containers
      /\ ids \subseteq Nat /\ IsFiniteSet(ids)
      /\ ix.track \in [DOMAIN ix.track -> Tracks]
      /\ containers \cap DOMAIN ix.track = {}
      /\ ix.children \in [containers -> Seq(ids)]
  BY IndexAssumption
<1>2. /\ \A id \in containers : \A i \in DOMAIN ix.children[id] : ix.children[id][i] > id
      /\ \A id \in ids \ {0} : \E parent \in containers : id \in ToSet(ix.children[parent])
  BY IndexAssumption
<1>3. \A id, other \in containers :
        \A i \in DOMAIN ix.children[id], j \in DOMAIN ix.children[other] :
          ix.children[id][i] = ix.children[other][j] => id = other /\ i = j
  BY IndexAssumption
<1>4. ASSUME NEW parent \in containers
      PROVE  /\ ix.children[parent] \in Seq(ids)
             /\ IsInjective(ix.children[parent])
             /\ \A id \in ToSet(ix.children[parent]) : id > parent
  BY <1>1, <1>2, <1>3 DEF IsInjective, ToSet
<1>5. ASSUME NEW p \in containers, NEW q \in containers,
             ToSet(ix.children[p]) \cap ToSet(ix.children[q]) # {}
      PROVE  p = q
  BY <1>3, <1>5 DEF ToSet
<1> QED BY <1>1, <1>2, <1>4, <1>5 DEF Ids

LEMMA IntervalCount ==
  ASSUME NEW n \in Nat PROVE IsFiniteSet(1 .. n) /\ Cardinality(1 .. n) = n
<1>1. IsFiniteSet(1 .. n) /\ Cardinality(1 .. n) = IF 1 > n THEN 0 ELSE n - 1 + 1
  BY FS_Interval
<1> QED BY <1>1

(* What a container is read for: its folders, and its tracks, each once.   *)
LEMMA FoldersRead ==
  ASSUME index \in Indexes, NEW parent \in DOMAIN index.children
  PROVE  /\ Folders(parent) \in Seq(Nat)
         /\ ToSet(Folders(parent)) = FoldersOf(index, parent)
         /\ IsInjective(Folders(parent))
<1>1. index.children[parent] \in Seq(Ids(index)) /\ IsInjective(index.children[parent])
      /\ Ids(index) \subseteq Nat
  BY IndexIsTree
<1>2. /\ Folders(parent) \in Seq(Ids(index) \cap DOMAIN index.children)
      /\ ToSet(Folders(parent)) = FoldersOf(index, parent)
      /\ IsInjective(Folders(parent))
  BY <1>1, OnlyCollects DEF Folders, FoldersOf
<1> QED BY <1>1, <1>2, SeqMonotonic

LEMMA FilesRead ==
  ASSUME index \in Indexes, NEW parent \in DOMAIN index.children
  PROVE  /\ Files(parent) \in Seq(Items)
         /\ \A i \in DOMAIN Files(parent) : ItemOf(index, Files(parent)[i], parent)
         /\ \A track \in TracksOf(index, parent) :
              \E i \in DOMAIN Files(parent) : Files(parent)[i].id = track
         /\ \A i, j \in DOMAIN Files(parent) :
              Files(parent)[i].id = Files(parent)[j].id => i = j
         /\ Len(Files(parent)) \in Nat
         /\ Len(Files(parent)) = Cardinality(TracksOf(index, parent))
<1> DEFINE found == Only(index.children[parent], DOMAIN index.track)
           files == Files(parent)
           n == Len(found)
<1>1. index.children[parent] \in Seq(Ids(index)) /\ IsInjective(index.children[parent])
      /\ Ids(index) \subseteq Nat /\ index.track \in [DOMAIN index.track -> Tracks]
  BY IndexIsTree
<1>2. /\ found \in Seq(Ids(index) \cap DOMAIN index.track)
      /\ ToSet(found) = TracksOf(index, parent)
      /\ IsInjective(found)
  BY <1>1, OnlyCollects DEF TracksOf
<1>3. files = [i \in DOMAIN found |-> [id |-> found[i], parent |-> parent,
                                       file |-> index.track[found[i]]]]
  BY DEF Files
<1> HIDE DEF found, files
<1>4. n \in Nat /\ DOMAIN found = 1 .. n /\ DOMAIN files = 1 .. n
  BY <1>2, <1>3, LenProperties
<1>5. ASSUME NEW i \in 1 .. n
      PROVE  /\ files[i] \in Items /\ files[i].id = found[i] /\ ItemOf(index, files[i], parent)
  <2>1. found[i] \in TracksOf(index, parent) /\ found[i] \in Ids(index) \cap DOMAIN index.track
    <3>1. found[i] \in ToSet(found)
      BY <1>4 DEF ToSet
    <3> QED BY <1>2, <1>4, <3>1, ElementOfSeq
  <2>2. files[i] = [id |-> found[i], parent |-> parent, file |-> index.track[found[i]]]
    BY <1>3, <1>4
  <2>3. parent \in Nat /\ found[i] \in Nat /\ index.track[found[i]] \in Tracks
    BY <1>1, <2>1 DEF Ids
  <2> QED BY <2>1, <2>2, <2>3 DEF ItemOf, Items
<1>6. files \in Seq(Items) /\ Len(files) = n
  BY <1>3, <1>4, <1>5
<1>7. \A track \in TracksOf(index, parent) : \E i \in 1 .. n : files[i].id = track
  BY <1>2, <1>4, <1>5 DEF ToSet
<1>8. \A i, j \in 1 .. n : files[i].id = files[j].id => i = j
  BY <1>2, <1>4, <1>5 DEF IsInjective
<1>9. n = Cardinality(TracksOf(index, parent))
  <2>1. \A i \in 1 .. n : found[i] \in TracksOf(index, parent)
    BY <1>2, <1>4 DEF ToSet
  <2>2. found \in [1 .. n -> TracksOf(index, parent)]
    BY <1>2, <1>4, <2>1, LenProperties
  <2>3. found \in Bijection(1 .. n, TracksOf(index, parent))
    <3>1. \A i, j \in 1 .. n : found[i] = found[j] => i = j
      BY <1>2, <1>4 DEF IsInjective
    <3>2. \A track \in TracksOf(index, parent) : \E i \in 1 .. n : found[i] = track
      BY <1>2, <1>4 DEF ToSet
    <3>3. found \in Injection(1 .. n, TracksOf(index, parent))
      BY <1>4, <2>2, <3>1 DEF Injection, IsInjective
    <3>4. found \in Surjection(1 .. n, TracksOf(index, parent))
      BY <2>2, <3>2 DEF Surjection
    <3> QED BY <3>3, <3>4 DEF Bijection
  <2>4. IsFiniteSet(1 .. n) /\ Cardinality(1 .. n) = n
    BY <1>4, IntervalCount
  <2> QED BY <2>3, <2>4, FS_Bijection DEF ExistsBijection
<1>10. /\ \A i \in DOMAIN files : ItemOf(index, files[i], parent)
       /\ \A track \in TracksOf(index, parent) : \E i \in DOMAIN files : files[i].id = track
       /\ \A i, j \in DOMAIN files : files[i].id = files[j].id => i = j
  BY <1>4, <1>5, <1>7, <1>8
<1> QED BY <1>4, <1>6, <1>9, <1>10 DEF files

LEMMA TracksInIs ==
  ASSUME NEW ix, NEW album
  PROVE  TracksIn(ix, album)
           = IF album \in DOMAIN ix.children THEN TracksOf(ix, album) ELSE {}
<1>1. CASE album \in DOMAIN ix.children
  <2>1. {ToSet(ix.children[c]) : c \in {album} \cap DOMAIN ix.children} = {ToSet(ix.children[album])}
    BY <1>1
  <2> QED BY <1>1, <2>1 DEF TracksIn, TracksOf
<1>2. CASE album \notin DOMAIN ix.children
  <2>1. {ToSet(ix.children[c]) : c \in {album} \cap DOMAIN ix.children} = {}
    BY <1>2
  <2> QED BY <1>2, <2>1 DEF TracksIn
<1> QED BY <1>1, <1>2

-----------------------------------------------------------------------------
(* The invariant.                                                          *)

(* What a request has at hand in each of its phases.                       *)
PhaseInv ==
  /\ phase \in {"idle", "walking", "resolving", "listing", "answered"}
  /\ phase \in {"idle", "answered"} \/ index \in served
  /\ phase # "walking" => stack = <<>>
  /\ phase \in {"resolving", "listing"} \/ facts = <<>>
  /\ phase = "listing" \/ fetched = None
  /\ phase \in {"listing", "answered"} \/ listed = <<>>
  /\ phase \in {"resolving", "listing"} \/ todo = {}
  /\ phase = "idle" => items = <<>> /\ served = {}

TypeInv ==
  /\ index \in Indexes /\ served \subseteq Indexes
  /\ stack \in Seq(Nat) /\ items \in Seq(Items)
  /\ todo \subseteq Albums
  /\ fetched = None \/ fetched \in [album : Nat, title : Titles]
  /\ listed \in [DOMAIN listed -> [title : Titles, count : Nat]]

Titled(ix, album, title) == album \in DOMAIN ix.title /\ ix.title[album] = title

(* Whatever is at hand was so in an index served meanwhile.                *)
ServedInv ==
  /\ \A i \in DOMAIN items :
       \E ix \in served : \E parent \in DOMAIN ix.children : ItemOf(ix, items[i], parent)
  /\ \A album \in DOMAIN facts : \E ix \in served : Titled(ix, album, facts[album])
  /\ fetched # None => \E ix \in served : Titled(ix, fetched.album, fetched.title)
  /\ \A album \in DOMAIN listed :
       /\ \E ix \in served : Titled(ix, album, listed[album].title)
       /\ \E ix \in served : listed[album].count = Cardinality(TracksIn(ix, album))

(* The items are the tracks of these containers, each once.                *)
Collected(ix, read) ==
  /\ \A i \in DOMAIN items : \E parent \in read : ItemOf(ix, items[i], parent)
  /\ \A parent \in read : \A track \in TracksOf(ix, parent) :
       \E i \in DOMAIN items : items[i].id = track
  /\ \A i, j \in DOMAIN items : items[i].id = items[j].id => i = j

(* These containers were read: what stands in them was read too, or is on  *)
(* the stack, and nothing else is.                                         *)
Walked(ix, read) ==
  /\ read \cap ToSet(stack) = {} /\ IsInjective(stack)
  /\ 0 \in read \cup ToSet(stack)
  /\ read \cup ToSet(stack) \subseteq DOMAIN ix.children
  /\ \A id \in (read \cup ToSet(stack)) \ {0} : \E parent \in read : id \in FoldersOf(ix, parent)
  /\ \A parent \in read : FoldersOf(ix, parent) \subseteq read \cup ToSet(stack)
  /\ Collected(ix, read)

Pending == IF fetched = None THEN {} ELSE {fetched.album}

(* All of an index is walked, and every album of it listed, ...            *)
Whole(ix) ==
  /\ phase = "walking" => \E read \in SUBSET DOMAIN ix.children : Walked(ix, read)
  /\ phase \in {"resolving", "listing", "answered"} => Collected(ix, DOMAIN ix.children)
  /\ phase = "listing" => todo \cup Pending \cup DOMAIN listed = Albums
  /\ phase = "answered" => DOMAIN listed = Albums

(* ... while no rescan comes between.                                      *)
WholeInv == \A ix \in Indexes : served = {ix} => Whole(ix)


Inv == PhaseInv /\ TypeInv /\ ServedInv /\ WholeInv

LEMMA InitInv == Init => Inv
<1> SUFFICES ASSUME Init PROVE Inv
  OBVIOUS
<1>0. DOMAIN <<>> = {}
  OBVIOUS
<1>1. PhaseInv
  BY DEF Init, PhaseInv
<1>2. TypeInv
  <2>1. stack \in Seq(Nat) /\ items \in Seq(Items)
    BY EmptySeq DEF Init
  <2>2. listed \in [DOMAIN listed -> [title : Titles, count : Nat]]
    <3>1. <<>> \in Seq([title : Titles, count : Nat]) /\ Len(<<>>) = 0
      BY EmptySeq
    <3>2. <<>> \in [1 .. 0 -> [title : Titles, count : Nat]] /\ DOMAIN <<>> = 1 .. 0
      BY <3>1, LenProperties
    <3> QED BY <3>2 DEF Init
  <2> QED BY <2>1, <2>2 DEF Init, TypeInv
<1>3. ServedInv
  BY <1>0 DEF Init, ServedInv
<1>4. WholeInv
  BY DEF Init, WholeInv
<1> QED BY <1>1, <1>2, <1>3, <1>4 DEF Inv

LEMMA PhaseStep == ASSUME Inv, [Next]_vars PROVE PhaseInv'
<1> USE DEF Inv
<1>1. CASE Request
  BY <1>1 DEF Request, PhaseInv
<1>2. CASE Read
  BY <1>2 DEF Read, PhaseInv
<1>3. CASE EndWalk
  BY <1>3 DEF EndWalk, PhaseInv
<1>4. ASSUME NEW album \in Albums, Resolve(album) PROVE PhaseInv'
  BY <1>4 DEF Resolve, PhaseInv
<1>5. CASE EndSnapshot
  BY <1>5 DEF EndSnapshot, PhaseInv
<1>6. ASSUME NEW album \in Albums, Fetch(album) PROVE PhaseInv'
  BY <1>6 DEF Fetch, PhaseInv
<1>7. CASE CountTracks
  BY <1>7 DEF CountTracks, PhaseInv
<1>8. CASE Answer
  BY <1>8 DEF Answer, PhaseInv
<1>9. ASSUME NEW i \in DOMAIN items, Play(i) PROVE PhaseInv'
  BY <1>9 DEF Play, PhaseInv
<1>10. CASE Close
  BY <1>10 DEF Close, PhaseInv
<1>11. CASE Replace
  BY <1>11 DEF Replace, PhaseInv
<1>12. CASE UNCHANGED vars
  BY <1>12 DEF vars, PhaseInv
<1> QED
  BY <1>1, <1>2, <1>3, <1>4, <1>5, <1>6, <1>7, <1>8, <1>9, <1>10, <1>11, <1>12 DEF Next, Thread

(* The titles come from the indexes.                                       *)
LEMMA TitledIn ==
  ASSUME NEW ix \in Indexes, NEW album, NEW title, Titled(ix, album, title)
  PROVE  album \in Nat /\ title \in Titles /\ album \in DOMAIN ix.children
<1>1. DOMAIN ix.title = DOMAIN ix.children /\ Ids(ix) \subseteq Nat
  BY IndexIsTree
<1> QED BY <1>1 DEF Titled, Titles, Ids

(* Taking the last container off the stack.                                *)
LEMMA FrontLast ==
  ASSUME stack \in Seq(Nat), stack # <<>>
  PROVE  /\ Front(stack) \in Seq(Nat)
         /\ ToSet(stack) = ToSet(Front(stack)) \cup {Last(stack)}
         /\ Last(stack) \in Nat
         /\ IsInjective(stack) => IsInjective(Front(stack)) /\ Last(stack) \notin ToSet(Front(stack))
<1> DEFINE n == Len(stack)
           front == Front(stack)
<1>1. n \in Nat \ {0} /\ DOMAIN stack = 1 .. n /\ \A i \in 1 .. n : stack[i] \in Nat
  BY EmptySeq, LenProperties, ElementOfSeq
<1>2. /\ front \in Seq(Nat) /\ DOMAIN front = 1 .. n - 1
      /\ \A i \in 1 .. n - 1 : front[i] = stack[i]
  <2>1. front = SubSeq(stack, 1, n - 1)
    BY DEF Front
  <2>2. \A i \in 1 .. n - 1 : stack[i] \in Nat
    BY <1>1
  <2> QED BY <1>1, <2>1, <2>2, SubSeqProperties, LenProperties
<1>3. Last(stack) = stack[n]
  BY DEF Last
<1> HIDE DEF front, n
<1>4. \A i \in 1 .. n : i = n \/ i \in 1 .. n - 1
  BY <1>1
<1>5. n \in 1 .. n /\ n \notin 1 .. n - 1 /\ 1 .. n - 1 \subseteq 1 .. n
  BY <1>1
<1>6. ToSet(stack) = ToSet(front) \cup {stack[n]}
  <2>1. ASSUME NEW x \in ToSet(stack) PROVE x \in ToSet(front) \cup {stack[n]}
    BY <1>1, <1>2, <1>4 DEF ToSet
  <2>2. ASSUME NEW x \in ToSet(front) PROVE x \in ToSet(stack)
    BY <1>1, <1>2, <1>5 DEF ToSet
  <2>3. stack[n] \in ToSet(stack)
    BY <1>1, <1>5 DEF ToSet
  <2> QED BY <2>1, <2>2, <2>3
<1>7. ASSUME IsInjective(stack) PROVE IsInjective(front) /\ stack[n] \notin ToSet(front)
  <2>1. IsInjective(front)
    BY <1>1, <1>2, <1>5, <1>7 DEF IsInjective
  <2>2. \A i \in 1 .. n - 1 : front[i] # stack[n]
    BY <1>1, <1>2, <1>5, <1>7 DEF IsInjective
  <2> QED BY <1>2, <2>1, <2>2 DEF ToSet
<1> QED BY <1>1, <1>2, <1>3, <1>5, <1>6, <1>7 DEF front, n

(* The items once a container was read.                                    *)
LEMMA ItemsRead ==
  ASSUME TypeInv, NEW parent \in DOMAIN index.children, items' = items \o Files(parent)
  PROVE  /\ items' \in Seq(Items)
         /\ \A i \in DOMAIN items : i \in DOMAIN items' /\ items'[i] = items[i]
         /\ \A i \in DOMAIN Files(parent) :
              Len(items) + i \in DOMAIN items' /\ items'[Len(items) + i] = Files(parent)[i]
         /\ \A i \in DOMAIN items' :
              \/ i \in DOMAIN items
              \/ i - Len(items) \in DOMAIN Files(parent) /\ i = Len(items) + (i - Len(items))
<1>1. items \in Seq(Items) /\ Files(parent) \in Seq(Items)
  BY FilesRead DEF TypeInv
<1> DEFINE files == Files(parent)
<1> HIDE DEF files
<1>2. files \in Seq(Items) /\ items' = items \o files
  BY <1>1 DEF files
<1>3. /\ Len(items) \in Nat /\ Len(files) \in Nat
      /\ DOMAIN items = 1 .. Len(items) /\ DOMAIN files = 1 .. Len(files)
  BY <1>1, <1>2, LenProperties
<1>4. /\ items' \in Seq(Items) /\ Len(items') = Len(items) + Len(files)
      /\ \A i \in 1 .. Len(items) + Len(files) :
           items'[i] = IF i <= Len(items) THEN items[i] ELSE files[i - Len(items)]
  BY <1>1, <1>2, ConcatProperties
<1>5. DOMAIN items' = 1 .. Len(items) + Len(files)
  BY <1>4, LenProperties
<1>6. \A i \in 1 .. Len(items) : i \in DOMAIN items' /\ items'[i] = items[i]
  BY <1>3, <1>4, <1>5
<1>7. \A i \in 1 .. Len(files) :
        Len(items) + i \in DOMAIN items' /\ items'[Len(items) + i] = files[i]
  <2> SUFFICES ASSUME NEW i \in 1 .. Len(files)
               PROVE  Len(items) + i \in DOMAIN items' /\ items'[Len(items) + i] = files[i]
    OBVIOUS
  <2>1. /\ Len(items) + i \in 1 .. Len(items) + Len(files) /\ ~(Len(items) + i <= Len(items))
        /\ (Len(items) + i) - Len(items) = i
    BY <1>3
  <2> QED BY <1>4, <1>5, <2>1
<1>8. \A i \in DOMAIN items' :
        \/ i \in DOMAIN items
        \/ i - Len(items) \in DOMAIN files /\ i = Len(items) + (i - Len(items))
  BY <1>3, <1>5
<1> QED BY <1>3, <1>4, <1>6, <1>7, <1>8 DEF files

LEMMA AlbumsType == ASSUME TypeInv PROVE Albums \subseteq Nat
<1>1. \A i \in DOMAIN items : items[i] \in Items
  BY ElementOfSeq, LenProperties DEF TypeInv
<1> QED BY <1>1 DEF Albums, Items

(* A container taken for an album comes with a title.                      *)
LEMMA FetchedType ==
  ASSUME TypeInv, ServedInv, NEW album \in DOMAIN index.children, Fetch(album)
  PROVE  /\ fetched' \in [album : Nat, title : Titles]
         /\ fetched'.album = album /\ fetched' # None
<1>1. index.title[album] \in Titles /\ album \in Nat
  BY IndexIsTree, TitledIn DEF TypeInv, Titled
<1>2. album \in DOMAIN facts => facts[album] \in Titles
  BY TitledIn DEF ServedInv, TypeInv
<1>3. fetched' = [album |-> album, title |-> IF album \in DOMAIN facts THEN facts[album]
                                             ELSE index.title[album]]
  BY DEF Fetch
<1> QED BY <1>1, <1>2, <1>3, NoneAssumption

LEMMA TypeStep == ASSUME Inv, [Next]_vars PROVE TypeInv'
<1> USE DEF Inv
<1>1. CASE Request
  <2>1. stack' \in Seq(Nat)
    BY <1>1 DEF Request, Root
  <2> QED BY <1>1, <2>1 DEF Request, TypeInv, Albums
<1>2. CASE Read
  <2>1. /\ UNCHANGED <<index, served, todo, fetched, listed>> /\ todo = {} /\ stack # <<>>
        /\ Front(stack) \in Seq(Nat)
    BY <1>2, FrontLast DEF Read, PhaseInv, TypeInv
  <2>2. CASE Last(stack) \in DOMAIN index.children
    <3>1. Folders(Last(stack)) \in Seq(Nat) /\ items' \in Seq(Items)
      BY <1>2, <2>2, FoldersRead, ItemsRead DEF Read, TypeInv
    <3>2. stack' \in Seq(Nat)
      BY <1>2, <2>1, <2>2, <3>1, ConcatProperties DEF Read
    <3> QED BY <2>1, <3>1, <3>2 DEF TypeInv
  <2>3. CASE Last(stack) \notin DOMAIN index.children
    BY <1>2, <2>1, <2>3 DEF Read, TypeInv
  <2> QED BY <2>2, <2>3
<1>3. CASE EndWalk \/ EndSnapshot
  BY <1>3 DEF EndWalk, EndSnapshot, TypeInv, Albums
<1>4. ASSUME NEW album \in Albums, Resolve(album) PROVE TypeInv'
  BY <1>4 DEF Resolve, TypeInv, Albums
<1>5. ASSUME NEW album \in Albums, Fetch(album) PROVE TypeInv'
  <2>1. CASE album \in DOMAIN index.children
    BY <1>5, <2>1, FetchedType DEF Fetch, TypeInv, Albums
  <2>2. CASE album \notin DOMAIN index.children
    BY <1>5, <2>2 DEF Fetch, TypeInv, Albums
  <2> QED BY <2>1, <2>2
<1>6. CASE CountTracks
  <2>1. fetched \in [album : Nat, title : Titles]
    BY <1>6 DEF CountTracks, TypeInv
  <2> DEFINE count(album) == IF album \in DOMAIN index.children THEN Len(Files(album)) ELSE 0
  <2>2. \A album : count(album) \in Nat
    BY FilesRead DEF TypeInv
  <2> HIDE DEF count
  <2>3. listed' = [album \in DOMAIN listed \cup {fetched.album} |->
                     IF album \in DOMAIN listed THEN listed[album]
                     ELSE [title |-> fetched.title, count |-> count(album)]]
    BY <1>6 DEF CountTracks, count
  <2>4. \A album : [title |-> fetched.title, count |-> count(album)] \in [title : Titles, count : Nat]
    BY <2>1, <2>2
  <2>5. listed' \in [DOMAIN listed' -> [title : Titles, count : Nat]]
    BY <2>3, <2>4 DEF TypeInv
  <2> QED BY <1>6, <2>5 DEF CountTracks, TypeInv, Albums
<1>7. CASE Answer
  BY <1>7 DEF Answer, TypeInv, Albums
<1>8. ASSUME NEW i \in DOMAIN items, Play(i) PROVE TypeInv'
  BY <1>8 DEF Play, TypeInv, Albums
<1>9. CASE Close
  <2>1. items' \in Seq(Items) /\ stack' = stack /\ todo' = {} /\ fetched' = None
    BY <1>9, EmptySeq DEF Close, PhaseInv
  <2>2. listed' \in [DOMAIN listed' -> [title : Titles, count : Nat]]
    <3>1. <<>> \in Seq([title : Titles, count : Nat]) /\ Len(<<>>) = 0
      BY EmptySeq
    <3>2. <<>> \in [1 .. 0 -> [title : Titles, count : Nat]] /\ DOMAIN <<>> = 1 .. 0
      BY <3>1, LenProperties
    <3> QED BY <1>9, <3>2 DEF Close
  <2> QED BY <1>9, <2>1, <2>2 DEF Close, TypeInv
<1>10. CASE Replace
  BY <1>10 DEF Replace, TypeInv, Albums
<1>11. CASE UNCHANGED vars
  BY <1>11 DEF vars, TypeInv, Albums
<1> QED
  BY <1>1, <1>2, <1>3, <1>4, <1>5, <1>6, <1>7, <1>8, <1>9, <1>10, <1>11 DEF Next, Thread

(* The index serves meanwhile, so what is read of it was served.           *)
LEMMA ServedStep == ASSUME Inv, [Next]_vars PROVE ServedInv'
<1> USE DEF Inv
<1>0. DOMAIN <<>> = {}
  OBVIOUS
<1>a. ASSUME served \subseteq served', UNCHANGED <<items, facts, fetched, listed>>
      PROVE  ServedInv'
  BY <1>a DEF ServedInv
<1>1. CASE Request
  <2>1. items = <<>> /\ facts = <<>> /\ fetched = None /\ listed = <<>>
    BY <1>1 DEF Request, PhaseInv
  <2> QED BY <1>0, <1>1, <2>1 DEF Request, ServedInv
<1>2. CASE Read
  <2>1. /\ UNCHANGED <<index, served, facts, fetched, listed>> /\ index \in served
    BY <1>2 DEF Read, PhaseInv
  <2>2. CASE Last(stack) \in DOMAIN index.children
    <3> DEFINE parent == Last(stack)
    <3>1. items' = items \o Files(parent)
      BY <1>2, <2>2 DEF Read
    <3>2. ASSUME NEW i \in DOMAIN items'
          PROVE  \E ix \in served : \E p \in DOMAIN ix.children : ItemOf(ix, items'[i], p)
      <4>1. CASE i \in DOMAIN items
        <5>1. items'[i] = items[i]
          BY <2>2, <3>1, <4>1, ItemsRead
        <5> QED BY <4>1, <5>1 DEF ServedInv
      <4>2. CASE i \notin DOMAIN items
        <5>1. PICK j \in DOMAIN Files(parent) : items'[i] = Files(parent)[j]
          BY <2>2, <3>1, <3>2, <4>2, ItemsRead
        <5>2. ItemOf(index, Files(parent)[j], parent)
          BY <2>2, FilesRead DEF TypeInv
        <5> QED BY <2>1, <2>2, <5>1, <5>2
      <4> QED BY <4>1, <4>2
    <3> QED BY <2>1, <3>2 DEF ServedInv
  <2>3. CASE Last(stack) \notin DOMAIN index.children
    BY <1>a, <1>2, <2>3 DEF Read
  <2> QED BY <2>2, <2>3
<1>3. CASE EndWalk \/ EndSnapshot
  BY <1>a, <1>3 DEF EndWalk, EndSnapshot
<1>4. ASSUME NEW album \in Albums, Resolve(album) PROVE ServedInv'
  <2>1. UNCHANGED <<index, served, items, fetched, listed>> /\ index \in served
    BY <1>4 DEF Resolve, PhaseInv
  <2>2. facts' = [id \in DOMAIN facts \cup ({album} \cap DOMAIN index.children) |->
                    IF id \in DOMAIN facts THEN facts[id] ELSE index.title[id]]
    BY <1>4 DEF Resolve
  <2>3. ASSUME NEW id \in DOMAIN facts' PROVE \E ix \in served : Titled(ix, id, facts'[id])
    <3>1. CASE id \in DOMAIN facts
      BY <2>2, <3>1 DEF ServedInv
    <3>2. CASE id \notin DOMAIN facts
      <4>1. id \in DOMAIN index.title /\ facts'[id] = index.title[id]
        BY <2>2, <2>3, <3>2, IndexIsTree DEF TypeInv
      <4> QED BY <2>1, <4>1 DEF Titled
    <3> QED BY <3>1, <3>2
  <2> QED BY <2>1, <2>3 DEF ServedInv
<1>5. ASSUME NEW album \in Albums, Fetch(album) PROVE ServedInv'
  <2>1. UNCHANGED <<index, served, items, facts, listed>> /\ index \in served
    BY <1>5 DEF Fetch, PhaseInv
  <2>2. ASSUME fetched' # None
        PROVE  \E ix \in served : Titled(ix, fetched'.album, fetched'.title)
    <3>1. album \in DOMAIN index.title
      BY <1>5, <2>2, IndexIsTree DEF Fetch, TypeInv
    <3>2. fetched' = [album |-> album, title |-> IF album \in DOMAIN facts THEN facts[album]
                                                 ELSE index.title[album]]
      BY <1>5, <2>2 DEF Fetch
    <3>3. CASE album \in DOMAIN facts
      BY <3>2, <3>3 DEF ServedInv
    <3>4. CASE album \notin DOMAIN facts
      BY <2>1, <3>1, <3>2, <3>4 DEF Titled
    <3> QED BY <3>3, <3>4
  <2> QED BY <2>1, <2>2 DEF ServedInv
<1>6. CASE CountTracks
  <2>1. /\ UNCHANGED <<index, served, items, facts>> /\ index \in served
        /\ fetched # None /\ fetched' = None
    BY <1>6 DEF CountTracks, PhaseInv
  <2>2. /\ listed' = [album \in DOMAIN listed \cup {fetched.album} |->
                        IF album \in DOMAIN listed THEN listed[album]
                        ELSE [title |-> fetched.title,
                              count |-> IF album \in DOMAIN index.children
                                        THEN Len(Files(album)) ELSE 0]]
    BY <1>6 DEF CountTracks
  <2>3. ASSUME NEW album
        PROVE  (IF album \in DOMAIN index.children THEN Len(Files(album)) ELSE 0)
                 = Cardinality(TracksIn(index, album))
    BY FilesRead, TracksInIs, FS_EmptySet DEF TypeInv
  <2>4. ASSUME NEW album \in DOMAIN listed'
        PROVE  /\ \E ix \in served : Titled(ix, album, listed'[album].title)
               /\ \E ix \in served : listed'[album].count = Cardinality(TracksIn(ix, album))
    <3>1. CASE album \in DOMAIN listed
      BY <2>2, <3>1 DEF ServedInv
    <3>2. CASE album \notin DOMAIN listed
      <4>1. /\ album = fetched.album /\ listed'[album].title = fetched.title
            /\ listed'[album].count = Cardinality(TracksIn(index, album))
        BY <2>2, <2>3, <2>4, <3>2
      <4> QED BY <2>1, <4>1 DEF ServedInv
    <3> QED BY <3>1, <3>2
  <2> QED BY <2>1, <2>4 DEF ServedInv
<1>7. CASE Answer
  BY <1>0, <1>7 DEF Answer, ServedInv
<1>8. ASSUME NEW i \in DOMAIN items, Play(i) PROVE ServedInv'
  BY <1>a, <1>8 DEF Play
<1>9. CASE Close
  <2>1. facts' = <<>> /\ fetched' = None /\ items' = <<>> /\ listed' = <<>>
    BY <1>9 DEF Close, PhaseInv
  <2> QED BY <1>0, <2>1 DEF ServedInv
<1>10. CASE Replace
  BY <1>a, <1>10 DEF Replace
<1>11. CASE UNCHANGED vars
  BY <1>a, <1>11 DEF vars
<1> QED
  BY <1>1, <1>2, <1>3, <1>4, <1>5, <1>6, <1>7, <1>8, <1>9, <1>10, <1>11 DEF Next, Thread

(* What was collected comes from a container each.                         *)
LEMMA AlbumsCollected ==
  ASSUME NEW ix \in Indexes, Collected(ix, DOMAIN ix.children)
  PROVE  Albums = {album \in DOMAIN ix.children : TracksOf(ix, album) # {}}
<1>1. ASSUME NEW i \in DOMAIN items
      PROVE  /\ items[i].parent \in DOMAIN ix.children
             /\ TracksOf(ix, items[i].parent) # {}
  BY DEF Collected, ItemOf
<1>2. ASSUME NEW album \in DOMAIN ix.children, NEW track \in TracksOf(ix, album)
      PROVE  album \in Albums
  <2>1. PICK i \in DOMAIN items : items[i].id = track
    BY DEF Collected
  <2>2. PICK parent \in DOMAIN ix.children : ItemOf(ix, items[i], parent)
    BY DEF Collected
  <2>3. parent = album
    BY IndexIsTree, <2>1, <2>2 DEF ItemOf, TracksOf
  <2> QED BY <2>2, <2>3 DEF ItemOf, Albums
<1>3. Albums \subseteq {album \in DOMAIN ix.children : TracksOf(ix, album) # {}}
  BY <1>1 DEF Albums
<1>4. {album \in DOMAIN ix.children : TracksOf(ix, album) # {}} \subseteq Albums
  BY <1>2
<1> QED BY <1>3, <1>4

(* Nothing is left to walk: all of the index was.                          *)
LEMMA AllWalked ==
  ASSUME NEW ix \in Indexes, NEW read, Walked(ix, read), stack = <<>>
  PROVE  read = DOMAIN ix.children
<1> DEFINE S == {n \in Nat : n \in DOMAIN ix.children => n \in read}
<1>0. read \subseteq DOMAIN ix.children /\ 0 \in read
      /\ \A parent \in read : FoldersOf(ix, parent) \subseteq read
  BY ToSetEmpty DEF Walked
<1>1. ASSUME NEW n \in Nat, \A m \in Nat : m < n => m \in S PROVE n \in S
  <2> SUFFICES ASSUME n \in DOMAIN ix.children, n # 0 PROVE n \in read
    BY <1>0
  <2>1. PICK parent \in DOMAIN ix.children : n \in ToSet(ix.children[parent])
    BY IndexIsTree DEF Ids
  <2>2. parent \in Nat /\ parent < n
    BY <2>1, IndexIsTree DEF Ids
  <2>3. parent \in read
    BY <1>1, <2>2
  <2> QED BY <1>0, <2>1, <2>3 DEF FoldersOf
<1> HIDE DEF S
<1>2. \A n \in Nat : n \in S
  BY <1>1, NatInductBelow
<1>3. DOMAIN ix.children \subseteq Nat
  BY IndexIsTree DEF Ids
<1> QED BY <1>0, <1>2, <1>3 DEF S

(* One more container is read of an index that stays.                      *)
LEMMA WalkStep ==
  ASSUME TypeInv, Read, NEW read \in SUBSET DOMAIN index.children, Walked(index, read)
  PROVE  \E more \in SUBSET DOMAIN index.children : Walked(index, more)'
<1>p. PICK p : p = Last(stack)
  OBVIOUS
<1>m. PICK more : more = read \cup {p}
  OBVIOUS
<1> DEFINE front == Front(stack)
           below == FoldersOf(index, p)
<1> USE <1>p, <1>m
<1>0. stack # <<>> /\ index \in Indexes /\ index' = index
  BY DEF Read, TypeInv
<1>1. /\ front \in Seq(Nat) /\ ToSet(stack) = ToSet(front) \cup {p}
      /\ IsInjective(front) /\ p \notin ToSet(front)
      /\ p \in DOMAIN index.children /\ p \in Nat
  BY <1>0, FrontLast DEF Walked, TypeInv
<1>2. stack' = front \o Folders(p) /\ items' = items \o Files(p)
  BY <1>1 DEF Read
<1>3. /\ Folders(p) \in Seq(Nat) /\ ToSet(Folders(p)) = below
      /\ IsInjective(Folders(p))
  BY <1>0, <1>1, FoldersRead
<1>4. \A q \in read : q # p /\ ToSet(index.children[q]) \cap ToSet(index.children[p]) = {}
  <2>1. p \notin read
    BY <1>1 DEF Walked
  <2> QED BY <1>0, <1>1, <2>1, IndexIsTree
<1>5. \A id \in below : id # 0 /\ id # p /\ id \notin read \cup ToSet(stack)
  <2> SUFFICES ASSUME NEW id \in below PROVE id # 0 /\ id # p /\ id \notin read \cup ToSet(stack)
    OBVIOUS
  <2>1. id > p /\ id \in ToSet(index.children[p]) /\ id \in Nat
    BY <1>0, <1>1, IndexIsTree DEF FoldersOf, Ids
  <2>2. id # 0 /\ id # p
    BY <1>1, <2>1
  <2>3. \A q \in read : id \notin FoldersOf(index, q)
    BY <1>4, <2>1 DEF FoldersOf
  <2> QED BY <2>2, <2>3 DEF Walked
<1>6. /\ ToSet(stack') = ToSet(front) \cup below /\ IsInjective(stack')
  <2>1. ToSet(front) \cap ToSet(Folders(p)) = {}
    BY <1>1, <1>3, <1>5
  <2> QED BY <1>1, <1>2, <1>3, <2>1, ToSetConcat
<1>7. more \cup ToSet(stack') = read \cup ToSet(stack) \cup below
  BY <1>1, <1>6
<1>8. /\ more \cap ToSet(stack') = {}
      /\ 0 \in more \cup ToSet(stack')
      /\ more \cup ToSet(stack') \subseteq DOMAIN index.children
      /\ \A id \in (more \cup ToSet(stack')) \ {0} : \E q \in more : id \in FoldersOf(index, q)
      /\ \A q \in more : FoldersOf(index, q) \subseteq more \cup ToSet(stack')
  <2>1. read \cap ToSet(stack) = {}
    BY DEF Walked
  <2>2. more \cap ToSet(stack') = {}
    BY <1>1, <1>5, <1>6, <2>1
  <2>3. 0 \in read \cup ToSet(stack) /\ read \cup ToSet(stack) \subseteq DOMAIN index.children
    BY DEF Walked
  <2>4. below \subseteq DOMAIN index.children
    BY DEF FoldersOf
  <2>5. \A id \in (read \cup ToSet(stack)) \ {0} : \E q \in read : id \in FoldersOf(index, q)
    BY DEF Walked
  <2>6. \A q \in read : FoldersOf(index, q) \subseteq read \cup ToSet(stack)
    BY DEF Walked
  <2> HIDE DEF below
  <2>7. \A id \in (more \cup ToSet(stack')) \ {0} : \E q \in more : id \in FoldersOf(index, q)
    <3> SUFFICES ASSUME NEW id \in (more \cup ToSet(stack')) \ {0}
                 PROVE  \E q \in more : id \in FoldersOf(index, q)
      OBVIOUS
    <3>1. CASE id \in below
      BY <3>1 DEF below
    <3>2. CASE id \notin below
      <4>1. id \in (read \cup ToSet(stack)) \ {0}
        BY <1>7, <3>2
      <4> QED BY <2>5, <4>1
    <3> QED BY <3>1, <3>2
  <2>8. \A q \in more : FoldersOf(index, q) \subseteq more \cup ToSet(stack')
    <3>1. FoldersOf(index, p) \subseteq more \cup ToSet(stack')
      BY <1>6 DEF below
    <3> QED BY <1>7, <2>6, <3>1
  <2> QED BY <1>7, <2>2, <2>3, <2>4, <2>7, <2>8
<1>9. Collected(index, more)'
  <2>0. /\ \A i \in DOMAIN items : i \in DOMAIN items' /\ items'[i] = items[i]
        /\ \A i \in DOMAIN Files(p) :
             Len(items) + i \in DOMAIN items' /\ items'[Len(items) + i] = Files(p)[i]
        /\ \A i \in DOMAIN items' :
             \/ i \in DOMAIN items
             \/ i - Len(items) \in DOMAIN Files(p) /\ i = Len(items) + (i - Len(items))
    BY <1>1, <1>2, ItemsRead
  <2>1. /\ \A i \in DOMAIN Files(p) : ItemOf(index, Files(p)[i], p)
        /\ \A track \in TracksOf(index, p) : \E i \in DOMAIN Files(p) : Files(p)[i].id = track
        /\ \A i, j \in DOMAIN Files(p) : Files(p)[i].id = Files(p)[j].id => i = j
    BY <1>0, <1>1, FilesRead
  <2> DEFINE files == Files(p)
             n == Len(items)
  <2> HIDE DEF files, n
  <2>2. /\ \A i \in DOMAIN items : \E q \in read : ItemOf(index, items[i], q)
        /\ \A q \in read : \A track \in TracksOf(index, q) : \E i \in DOMAIN items : items[i].id = track
        /\ \A i, j \in DOMAIN items : items[i].id = items[j].id => i = j
    BY DEF Walked, Collected
  <2>3. \A i \in DOMAIN items' :
          \/ i \in DOMAIN items /\ items'[i] = items[i]
          \/ i - n \in DOMAIN files /\ items'[i] = files[i - n] /\ i = n + (i - n)
    BY <2>0 DEF files, n
  <2>4. \A i \in DOMAIN files : ItemOf(index, files[i], p)
    BY <2>1 DEF files
  <2>5. ASSUME NEW i \in DOMAIN items' PROVE \E q \in more : ItemOf(index, items'[i], q)
    BY <2>2, <2>3, <2>4
  <2>6. ASSUME NEW q \in more, NEW track \in TracksOf(index, q)
        PROVE  \E i \in DOMAIN items' : items'[i].id = track
    <3>1. CASE q = p
      BY <2>0, <2>1, <2>6, <3>1
    <3>2. CASE q \in read
      BY <2>0, <2>2, <2>6, <3>2
    <3> QED BY <3>1, <3>2
  <2>7. ASSUME NEW i \in DOMAIN items, NEW j \in DOMAIN files PROVE items[i].id # files[j].id
    <3>1. PICK q \in read : ItemOf(index, items[i], q)
      BY <2>2
    <3>2. ItemOf(index, files[j], p)
      BY <2>4
    <3> QED BY <1>4, <3>1, <3>2 DEF ItemOf, TracksOf
  <2>8. ASSUME NEW i \in DOMAIN items', NEW j \in DOMAIN items', items'[i].id = items'[j].id
        PROVE  i = j
    <3>1. CASE i \in DOMAIN items /\ items'[i] = items[i] /\ j \in DOMAIN items /\ items'[j] = items[j]
      BY <2>2, <2>8, <3>1
    <3>2. CASE /\ i - n \in DOMAIN files /\ items'[i] = files[i - n] /\ i = n + (i - n)
               /\ j - n \in DOMAIN files /\ items'[j] = files[j - n] /\ j = n + (j - n)
      <4>1. i - n = j - n
        BY <2>1, <2>8, <3>2 DEF files
      <4> QED BY <3>2, <4>1
    <3>3. CASE /\ i \in DOMAIN items /\ items'[i] = items[i]
               /\ j - n \in DOMAIN files /\ items'[j] = files[j - n]
      BY <2>7, <2>8, <3>3
    <3>4. CASE /\ j \in DOMAIN items /\ items'[j] = items[j]
               /\ i - n \in DOMAIN files /\ items'[i] = files[i - n]
      BY <2>7, <2>8, <3>4
    <3> QED BY <2>3, <3>1, <3>2, <3>3, <3>4
  <2>9. index' = index
    BY <1>0
  <2> QED BY <2>5, <2>6, <2>8, <2>9 DEF Collected
<1>10. Walked(index, more)'
  BY <1>0, <1>6, <1>8, <1>9 DEF Walked
<1>11. more \in SUBSET DOMAIN index.children
  BY <1>1
<1> QED BY <1>10, <1>11

(* A walk that no rescan has come into goes on in the one index there is.  *)
LEMMA WholeStep == ASSUME Inv, [Next]_vars PROVE WholeInv'
<1> USE DEF Inv
<1> SUFFICES ASSUME NEW ix \in Indexes, served' = {ix} PROVE Whole(ix)'
  BY DEF WholeInv
<1>0. DOMAIN <<>> = {}
  OBVIOUS
<1>a. ASSUME served' = served PROVE Whole(ix)
  BY <1>a DEF WholeInv
<1>b. ASSUME served' = served, phase \notin {"idle", "answered"} PROVE index = ix
  BY <1>b DEF PhaseInv
<1>1. CASE Request
  <2>1. /\ phase' = "walking" /\ stack' = <<0>> /\ items' = items /\ items = <<>>
    BY <1>1 DEF Request, Root, PhaseInv
  <2>2. ToSet(<<0>>) = {0} /\ IsInjective(<<0>>)
    BY DEF ToSet, IsInjective
  <2>3. 0 \in DOMAIN ix.children
    BY IndexIsTree
  <2>4. Collected(ix, {})'
    BY <1>0, <2>1 DEF Collected
  <2>5. Walked(ix, {})'
    BY <2>1, <2>2, <2>3, <2>4 DEF Walked
  <2> QED BY <2>1, <2>5 DEF Whole
<1>2. CASE Read
  <2>1. served' = served /\ phase = "walking" /\ phase' = "walking"
    BY <1>2 DEF Read
  <2>2. index = ix /\ \E read \in SUBSET DOMAIN ix.children : Walked(ix, read)
    BY <1>a, <1>b, <2>1 DEF Whole
  <2>3. PICK read \in SUBSET DOMAIN index.children : Walked(index, read)
    BY <2>2
  <2>4. \E more \in SUBSET DOMAIN index.children : Walked(index, more)'
    BY <1>2, <2>3, WalkStep
  <2>5. index' = ix
    BY <1>2, <2>2 DEF Read
  <2>6. \E more \in SUBSET DOMAIN ix.children : Walked(ix, more)'
    BY <2>2, <2>4, <2>5
  <2> QED BY <2>1, <2>6 DEF Whole
<1>3. CASE EndWalk
  <2>1. /\ served' = served /\ phase = "walking" /\ phase' = "resolving"
        /\ items' = items /\ stack = <<>>
    BY <1>3 DEF EndWalk
  <2>2. PICK read \in SUBSET DOMAIN ix.children : Walked(ix, read)
    BY <1>a, <2>1 DEF Whole
  <2>3. Collected(ix, DOMAIN ix.children)
    BY <2>1, <2>2, AllWalked DEF Walked
  <2> QED BY <2>1, <2>3 DEF Whole, Collected
<1>4. ASSUME NEW album \in Albums, Resolve(album) PROVE Whole(ix)'
  <2>1. served' = served /\ phase = "resolving" /\ phase' = "resolving" /\ items' = items
    BY <1>4 DEF Resolve
  <2> QED BY <1>a, <2>1 DEF Whole, Collected
<1>5. CASE EndSnapshot
  <2>1. /\ served' = served /\ phase = "resolving" /\ phase' = "listing" /\ items' = items
        /\ todo' = Albums /\ fetched' = None /\ listed' = <<>>
    BY <1>5 DEF EndSnapshot, PhaseInv
  <2>2. (todo \cup Pending \cup DOMAIN listed = Albums)'
    BY <1>0, <2>1 DEF Pending, Albums
  <2> QED BY <1>a, <2>1, <2>2 DEF Whole, Collected
<1>6. ASSUME NEW album \in Albums, Fetch(album) PROVE Whole(ix)'
  <2>1. /\ served' = served /\ phase = "listing" /\ phase' = "listing" /\ items' = items
        /\ album \in todo /\ fetched = None /\ todo' = todo \ {album} /\ listed' = listed
    BY <1>6 DEF Fetch
  <2>2. /\ Collected(ix, DOMAIN ix.children) /\ index = ix
        /\ todo \cup Pending \cup DOMAIN listed = Albums
    BY <1>a, <1>b, <2>1 DEF Whole
  <2>3. album \in DOMAIN index.children
    BY <2>2, AlbumsCollected
  <2>4. fetched'.album = album /\ fetched' # None
    BY <1>6, <2>3, FetchedType
  <2>5. (todo \cup Pending \cup DOMAIN listed = Albums)'
    <3>1. Pending = {} /\ Pending' = {album} /\ Albums' = Albums
      BY <2>1, <2>4 DEF Pending, Albums
    <3> QED BY <2>1, <2>2, <3>1
  <2> QED BY <2>1, <2>2, <2>5 DEF Whole, Collected
<1>7. CASE CountTracks
  <2>1. /\ served' = served /\ phase = "listing" /\ phase' = "listing" /\ items' = items
        /\ fetched # None /\ fetched' = None /\ todo' = todo
        /\ DOMAIN listed' = DOMAIN listed \cup {fetched.album}
    BY <1>7 DEF CountTracks
  <2>2. /\ Collected(ix, DOMAIN ix.children)
        /\ todo \cup Pending \cup DOMAIN listed = Albums
    BY <1>a, <2>1 DEF Whole
  <2>3. (todo \cup Pending \cup DOMAIN listed = Albums)'
    <3>1. Pending = {fetched.album} /\ Pending' = {} /\ Albums' = Albums
      BY <2>1 DEF Pending, Albums
    <3> QED BY <2>1, <2>2, <3>1
  <2> QED BY <2>1, <2>2, <2>3 DEF Whole, Collected
<1>8. CASE Answer
  <2>1. /\ served' = served /\ phase = "listing" /\ phase' = "answered" /\ items' = items
        /\ fetched = None /\ todo = {} /\ listed' = listed
    BY <1>8 DEF Answer
  <2>2. /\ Collected(ix, DOMAIN ix.children)
        /\ todo \cup Pending \cup DOMAIN listed = Albums
    BY <1>a, <2>1 DEF Whole
  <2>3. (DOMAIN listed = Albums)'
    BY <2>1, <2>2 DEF Pending, Albums
  <2> QED BY <2>1, <2>2, <2>3 DEF Whole, Collected
<1>9. ASSUME NEW i \in DOMAIN items, Play(i) PROVE Whole(ix)'
  <2>1. /\ served' = served /\ phase = "answered" /\ phase' = "answered" /\ items' = items
        /\ listed' = listed
    BY <1>9 DEF Play
  <2> QED BY <1>a, <2>1 DEF Whole, Collected, Albums
<1>10. CASE Close
  BY <1>10 DEF Close, Whole
<1>11. CASE Replace
  <2>1. /\ phase' = phase /\ items' = items /\ listed' = listed /\ index' # index
        /\ served' = IF phase \in {"idle", "answered"} THEN served ELSE served \cup {index'}
    BY <1>11 DEF Replace
  <2>2. CASE phase = "idle"
    BY <2>1, <2>2 DEF Whole
  <2>3. CASE phase = "answered"
    <3>1. served' = served
      BY <2>1, <2>3
    <3> QED BY <1>a, <2>1, <2>3, <3>1 DEF Whole, Collected, Albums
  <2>4. CASE phase \notin {"idle", "answered"}
    <3>1. index \in served /\ index' \in served'
      BY <2>1, <2>4 DEF PhaseInv
    <3> QED BY <2>1, <2>4, <3>1
  <2> QED BY <2>2, <2>3, <2>4
<1>12. CASE UNCHANGED vars
  <2>1. /\ UNCHANGED <<phase, stack, items, todo, listed, fetched>> /\ served' = served
    BY <1>12 DEF vars
  <2> QED BY <1>a, <2>1 DEF Whole, Walked, Collected, Albums, Pending
<1> QED
  BY <1>1, <1>2, <1>3, <1>4, <1>5, <1>6, <1>7, <1>8, <1>9, <1>10, <1>11, <1>12 DEF Next, Thread

LEMMA InvAlways == Spec => []Inv
<1>1. ASSUME Inv, [Next]_vars PROVE Inv'
  BY <1>1, PhaseStep, TypeStep, ServedStep, WholeStep DEF Inv
<1> QED BY <1>1, InitInv, PTL DEF Spec

-----------------------------------------------------------------------------
(* The theorems.                                                           *)

(* Each file of an index that stays is an item once for each id it has.    *)
LEMMA TimesHeld ==
  ASSUME TypeInv, NEW ix \in Indexes, Collected(ix, DOMAIN ix.children), NEW file
  PROVE  Times(file) = Cardinality({id \in DOMAIN ix.track : ix.track[id] = file})
<1> DEFINE listing == {i \in DOMAIN items : items[i].file = file}
           holding == {id \in DOMAIN ix.track : ix.track[id] = file}
           id == [i \in listing |-> items[i].id]
<1>1. IsFiniteSet(listing)
  <2>1. Len(items) \in Nat /\ DOMAIN items = 1 .. Len(items)
    BY LenProperties DEF TypeInv
  <2>2. IsFiniteSet(1 .. Len(items)) /\ listing \subseteq 1 .. Len(items)
    BY <2>1, IntervalCount
  <2> QED BY <2>2, FS_Subset
<1>2. ASSUME NEW i \in listing PROVE items[i].id \in holding
  BY DEF Collected, ItemOf, TracksOf
<1>3. ASSUME NEW i \in listing, NEW j \in listing, items[i].id = items[j].id PROVE i = j
  BY <1>3 DEF Collected
<1>4. ASSUME NEW track \in holding PROVE \E i \in listing : items[i].id = track
  <2>1. 0 \notin DOMAIN ix.track /\ track \in Ids(ix) \ {0}
    BY IndexIsTree DEF Ids
  <2>2. PICK parent \in DOMAIN ix.children : track \in TracksOf(ix, parent)
    BY <2>1, IndexIsTree DEF TracksOf
  <2>3. PICK i \in DOMAIN items : items[i].id = track
    BY <2>2 DEF Collected
  <2>4. items[i].file = ix.track[track]
    BY <2>3 DEF Collected, ItemOf
  <2> QED BY <2>3, <2>4
<1> HIDE DEF listing, holding
<1>5. id \in Bijection(listing, holding)
  <2>1. id \in [listing -> holding]
    BY <1>2
  <2>2. id \in Injection(listing, holding)
    BY <1>3, <2>1 DEF Injection, IsInjective
  <2>3. id \in Surjection(listing, holding)
    BY <1>4, <2>1 DEF Surjection
  <2> QED BY <2>2, <2>3 DEF Bijection
<1> QED BY <1>1, <1>5, FS_Bijection DEF ExistsBijection, Times, listing, holding

(* A listing answered has no file but from an index served meanwhile, and  *)
(* all of an index, as often as it holds them, when no rescan came between *)
(* (all_items, which takes the lock anew for every container it reads).    *)
THEOREM ListsServed == Spec => []ListsOnlyServed
<1>1. Inv => ListsOnlyServed
  <2> SUFFICES ASSUME Inv, phase = "answered" PROVE ListsOnlyServed
    BY DEF ListsOnlyServed
  <2>1. ASSUME NEW i \in DOMAIN items PROVE items[i].file \in UNION {Held(ix) : ix \in served}
    <3>1. PICK ix \in served : \E parent \in DOMAIN ix.children : ItemOf(ix, items[i], parent)
      BY DEF Inv, ServedInv
    <3>2. items[i].file \in Held(ix)
      BY <3>1 DEF ItemOf, TracksOf, Held
    <3> QED BY <3>2
  <2>2. ASSUME NEW ix \in Indexes, served = {ix}, NEW file \in Tracks
        PROVE  Times(file) = Cardinality({id \in DOMAIN ix.track : ix.track[id] = file})
    BY <2>2, TimesHeld DEF Inv, WholeInv, Whole
  <2> QED BY <2>1, <2>2 DEF ListsOnlyServed
<1> QED BY <1>1, InvAlways, PTL

(* The albums answered have their titles and counts from indexes served    *)
(* meanwhile that had them, and are those of the index, all of them and as *)
(* they are there, when no rescan came between (snapshot, albums and       *)
(* album_container, which reads again what was derived from the index).    *)
THEOREM AlbumsServed == Spec => []AlbumsAsServed
<1>1. Inv => AlbumsAsServed
  <2> SUFFICES ASSUME Inv, phase = "answered" PROVE AlbumsAsServed
    BY DEF AlbumsAsServed
  <2>1. ASSUME NEW album \in DOMAIN listed
        PROVE  /\ \E ix \in served : album \in DOMAIN ix.title
                                     /\ ix.title[album] = listed[album].title
               /\ \E ix \in served : listed[album].count = Cardinality(TracksIn(ix, album))
    BY DEF Inv, ServedInv, Titled
  <2>2. ASSUME NEW ix \in Indexes, served = {ix}
        PROVE  listed = [album \in {id \in DOMAIN ix.children : TracksIn(ix, id) # {}} |->
                           [title |-> ix.title[album],
                            count |-> Cardinality(TracksIn(ix, album))]]
    <3>1. Collected(ix, DOMAIN ix.children) /\ DOMAIN listed = Albums
      BY <2>2 DEF Inv, WholeInv, Whole
    <3>2. DOMAIN listed = {id \in DOMAIN ix.children : TracksIn(ix, id) # {}}
      BY <3>1, AlbumsCollected, TracksInIs
    <3>3. listed \in [DOMAIN listed -> [title : Titles, count : Nat]]
      BY DEF Inv, TypeInv
    <3>4. ASSUME NEW album \in DOMAIN listed
          PROVE  listed[album] = [title |-> ix.title[album],
                                  count |-> Cardinality(TracksIn(ix, album))]
      <4>1. listed[album].title = ix.title[album]
        BY <2>1, <2>2
      <4>2. listed[album].count = Cardinality(TracksIn(ix, album))
        BY <2>1, <2>2
      <4>3. listed[album] \in [title : Titles, count : Nat]
        BY <3>3
      <4> QED BY <4>1, <4>2, <4>3
    <3> QED BY <3>2, <3>3, <3>4
  <2> QED BY <2>1, <2>2 DEF AlbumsAsServed
<1> QED BY <1>1, InvAlways, PTL

(* A client that asks for an id it was listed from the index being served  *)
(* is sent the track it was listed for, though rescans came since          *)
(* (resolve_item_path looks the id up in the index as it is by then).      *)
THEOREM PlaysListed == Spec => PlaysWhatWasListed
<1>1. ASSUME Inv, NEW i \in DOMAIN items, Play(i), served = {index} PROVE played' = items[i].file
  <2>1. PICK parent \in DOMAIN index.children : ItemOf(index, items[i], parent)
    BY <1>1 DEF Inv, ServedInv
  <2> QED BY <1>1, <2>1 DEF ItemOf, TracksOf, Play
<1>2. Inv => [\A i \in DOMAIN items :
                Play(i) /\ served = {index} => played' = items[i].file]_vars
  BY <1>1
<1> QED BY <1>2, InvAlways, PTL DEF PlaysWhatWasListed
=============================================================================
