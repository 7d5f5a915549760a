--------------------------- MODULE TreeScanProofs ---------------------------
(***************************************************************************)
(* Proofs about TreeScan, for every directory tree and configuration.      *)
(*                                                                         *)
(* StackInv is the heart: as far as container_at_depth reaches, it names,  *)
(* depth by depth, the containers made for the directories walkdir is      *)
(* inside of.  It either reaches as deep as the walk, or it is empty       *)
(* because the configured directory was a link reported as one.            *)
(***************************************************************************)
EXTENDS TreeScan, NatRecursion, SequenceTheorems, FiniteSetTheorems, TLAPS

OpenPath(depth) == [i \in 1 .. depth |-> open[i].entry]

StackInv ==
  /\ container_at_depth = <<>> \/ Depth <= Len(container_at_depth)
  /\ open # <<>> => at \in 1 .. Len(media.roots)
                    /\ open[1].entry = media.roots[at]
  /\ \A depth \in 1 .. Depth :
       depth <= Len(container_at_depth) =>
         LET id == container_at_depth[depth]
         IN /\ id \in 1 .. next_id - 1
            /\ nodes[id].kind = "container"
            /\ nodes[id].walk = at
            /\ nodes[id].path = OpenPath(depth)

Filed(id) ==
  LET node == nodes[id]
  IN /\ node.parent \in 0 .. id - 1
     /\ nodes[node.parent].kind = "container"
     /\ Len(node.path) \in Nat \ {0}
     /\ IF Len(node.path) = 1
        THEN node.parent = Root /\ node.path[1] = media.roots[node.walk]
        ELSE /\ nodes[node.parent].walk = node.walk
             /\ nodes[node.parent].path = Front(node.path)

TreeInv == nodes[Root].kind = "container" /\ \A id \in 1 .. next_id - 1 : Filed(id)

Inv == TypeOK /\ StackInv /\ TreeInv
Frame == [entry : Entries, rest : SUBSET Entries]

-----------------------------------------------------------------------------
(* Types.                                                                  *)

LEMMA ParentType ==
  ASSUME TypeOK, StackInv, ~Orphan, TreeInv
  PROVE  Parent \in 0 .. next_id - 1 /\ nodes[Parent].kind = "container"
<1>1. CASE Depth = 0
  BY <1>1 DEF Parent, Root, TypeOK, TreeInv
<1>2. CASE Depth # 0
  <2>1. Depth \in Nat /\ Len(container_at_depth) \in Nat
    BY DEF TypeOK, Depth
  <2>2. open # <<>>
    BY <1>2 DEF Depth
  <2>3. containers = container_at_depth
    BY <2>2 DEF containers
  <2>4. Depth \in 1 .. Depth /\ Depth <= Len(container_at_depth)
    BY <1>2, <2>1, <2>3 DEF Orphan
  <2>5. Parent = container_at_depth[Depth]
    BY <1>2, <2>3 DEF Parent
  <2>6. Parent \in 1 .. next_id - 1 /\ nodes[Parent].kind = "container"
    BY <2>4, <2>5 DEF StackInv
  <2> QED
    BY <2>6 DEF TypeOK
<1> QED
  BY <1>1, <1>2

(* Taking an entry off the innermost listing leaves the stack as deep.     *)
LEMMA ConsumedType ==
  ASSUME TypeOK, NEW e \in Entries, Yields(e)
  PROVE  /\ Consumed(e) \in Seq(Frame)
         /\ Len(Consumed(e)) = Depth
         /\ \A i \in 1 .. Depth : Consumed(e)[i].entry = open[i].entry
<1>1. CASE open = <<>>
  BY <1>1 DEF Consumed, Depth
<1>2. CASE open # <<>>
  <2>1. open \in Seq(Frame) /\ Depth \in 1 .. Len(open)
    BY <1>2 DEF TypeOK, Frame, Depth
  <2>2. Consumed(e) = [open EXCEPT ![Depth].rest = @ \ {e}]
    BY <1>2 DEF Consumed
  <2> DEFINE top == [open[Depth] EXCEPT !.rest = @ \ {e}]
  <2>a. open[Depth] \in Frame
    BY <2>1 DEF Depth
  <2>b. ASSUME NEW f \in Frame
        PROVE  LET g == [f EXCEPT !.rest = @ \ {e}]
               IN g \in Frame /\ g.entry = f.entry
    BY DEF Frame
  <2>3. top \in Frame /\ top.entry = open[Depth].entry
    BY <2>a, <2>b
  <2>4. Consumed(e) = [open EXCEPT ![Depth] = top]
    BY <2>2
  <2> QED
    BY <2>1, <2>3, <2>4 DEF Depth
<1> QED
  BY <1>1, <1>2

LEMMA PathType ==
  ASSUME TypeOK, NEW e \in Entries
  PROVE  /\ PathTo(e) \in Seq(Entries)
         /\ Len(PathTo(e)) = Depth + 1
         /\ PathTo(e)[Depth + 1] = e
         /\ \A i \in 1 .. Depth : PathTo(e)[i] = open[i].entry
<1>1. open \in Seq(Frame) /\ Depth = Len(open) /\ Depth \in Nat
  BY DEF TypeOK, Frame, Depth
<1>a. \A i \in 1 .. Depth : open[i].entry \in Entries
  <2> SUFFICES ASSUME NEW i \in 1 .. Depth PROVE open[i].entry \in Entries
    OBVIOUS
  <2>1. open[i] \in Frame
    BY <1>1
  <2> QED
    BY <2>1 DEF Frame
<1>2. OpenPath(Depth) \in Seq(Entries) /\ Len(OpenPath(Depth)) = Depth
  BY <1>1, <1>a DEF OpenPath
<1>3. PathTo(e) = Append(OpenPath(Depth), e)
  BY DEF PathTo, OpenPath
<1> QED
  BY <1>1, <1>2, <1>3 DEF OpenPath

(* IndexBuilder::insert adds one node and changes no other but for the     *)
(* parent's children.                                                      *)
LEMMA InsertType ==
  ASSUME TypeOK, NEW parent \in 0 .. next_id - 1, NEW node \in Node,
         Insert(parent, node)
  PROVE  /\ next_id' = next_id + 1
         /\ next_id' \in Nat \ {0}
         /\ nodes' \in [0 .. next_id' - 1 -> Node]
         /\ nodes'[next_id] = node
         /\ \A id \in 0 .. next_id - 1 :
              /\ nodes'[id].kind = nodes[id].kind
              /\ nodes'[id].parent = nodes[id].parent
              /\ nodes'[id].walk = nodes[id].walk
              /\ nodes'[id].path = nodes[id].path
<1>1. next_id \in Nat \ {0} /\ nodes \in [0 .. next_id - 1 -> Node]
  BY DEF TypeOK
<1>2. next_id' = next_id + 1
  BY DEF Insert
<1> DEFINE Told(id) == [nodes[id] EXCEPT !.children = Append(@, next_id)]
<1>3. \A id \in 0 .. next_id - 1 :
        /\ Told(id) \in Node
        /\ Told(id).kind = nodes[id].kind
        /\ Told(id).parent = nodes[id].parent
        /\ Told(id).walk = nodes[id].walk
        /\ Told(id).path = nodes[id].path
  <2> SUFFICES ASSUME NEW id \in 0 .. next_id - 1
               PROVE  /\ Told(id) \in Node
                      /\ Told(id).kind = nodes[id].kind
                      /\ Told(id).parent = nodes[id].parent
                      /\ Told(id).walk = nodes[id].walk
                      /\ Told(id).path = nodes[id].path
    OBVIOUS
  <2>1. nodes[id] \in Node
    BY <1>1
  <2>2. ASSUME NEW r \in Node
        PROVE  LET told == [r EXCEPT !.children = Append(@, next_id)]
               IN /\ told \in Node
                  /\ told.kind = r.kind /\ told.parent = r.parent
                  /\ told.walk = r.walk /\ told.path = r.path
    <3>1. Append(r.children, next_id) \in Seq(Nat)
      BY <1>1 DEF Node
    <3> QED
      BY <3>1 DEF Node
  <2> QED
    BY <2>1, <2>2
<1>4. nodes' = [id \in 0 .. next_id |->
                  IF id = next_id THEN node
                  ELSE IF id = parent THEN Told(id) ELSE nodes[id]]
  BY DEF Insert
<1> HIDE DEF Told
<1> QED
  BY <1>1, <1>2, <1>3, <1>4

(* Which configured directory is walked, before and after an entry.        *)
LEMMA WalkType ==
  ASSUME TypeOK, NEW e \in Entries, Yields(e)
  PROVE  /\ at' \in 0 .. Len(media.roots) /\ at' \in Nat
         /\ open = <<>> => at' \in 1 .. Len(media.roots) /\ e = media.roots[at']
         /\ open # <<>> => at' = at
<1>1. media \in [roots : Seq(Entries), follow : BOOLEAN]
  BY ConfigAssumption DEF TypeOK
<1>2. Len(media.roots) \in Nat
  BY <1>1
<1>3. at \in 0 .. Len(media.roots)
  BY DEF TypeOK
<1> QED
  BY <1>2, <1>3 DEF Yields, Starts, Continues

LEMMA TargetType ==
  ASSUME NEW e \in Entries
  PROVE  /\ Target(e) \in Entries
         /\ FileType(e) = "dir" => Kind[Target(e)] = "dir"
         /\ Kind[Target(e)] = "dir" => Inside[Target(e)] \subseteq Entries
<1>1. Target(e) \in Entries
  BY LinkAssumption DEF Target, Links
<1>2. Kind[Target(e)] = "dir" => Inside[Target(e)] \subseteq Entries
  BY <1>1, InsideAssumption DEF Dirs
<1> QED
  BY <1>1, <1>2 DEF FileType

LEMMA FrontType ==
  ASSUME NEW S, NEW s \in Seq(S), s # <<>>
  PROVE  /\ Front(s) \in Seq(S) /\ Len(Front(s)) = Len(s) - 1
         /\ \A i \in 1 .. Len(s) - 1 : Front(s)[i] = s[i]
<1> DEFINE n == Len(s) - 1
<1>1. n \in Nat /\ Len(s) \in Nat
  OBVIOUS
<1>2. \A i \in 1 .. n : s[i] \in S
  BY <1>1
<1>3. Front(s) = SubSeq(s, 1, n)
  BY DEF Front
<1> HIDE DEF n
<1>4. /\ SubSeq(s, 1, n) \in Seq(S)
      /\ Len(SubSeq(s, 1, n)) = IF 1 <= n THEN n - 1 + 1 ELSE 0
      /\ \A i \in 1 .. n - 1 + 1 : SubSeq(s, 1, n)[i] = s[1 + i - 1]
  BY <1>1, <1>2, SubSeqProperties
<1>5. n - 1 + 1 = n /\ \A i \in 1 .. n : 1 + i - 1 = i
  BY <1>1
<1> QED
  BY <1>1, <1>3, <1>4, <1>5 DEF n

(* Going into a directory adds it to walkdir's stack.                      *)
LEMMA EnterType ==
  ASSUME TypeOK, NEW e \in Entries, Yields(e), Kind[Target(e)] = "dir", Enter(e)
  PROVE  /\ open' \in Seq(Frame)
         /\ Len(open') = Depth + 1
         /\ open'[Depth + 1].entry = e
         /\ \A i \in 1 .. Depth : open'[i].entry = open[i].entry
         /\ failed' \subseteq Nat \X Seq(Entries)
<1>1. Inside[Target(e)] \subseteq Entries
  BY TargetType
<1>2. PICK frame \in Frame : frame.entry = e /\ open' = Append(Consumed(e), frame)
  BY <1>1 DEF Enter, Frame
<1>3. /\ Consumed(e) \in Seq(Frame) /\ Len(Consumed(e)) = Depth
      /\ \A i \in 1 .. Depth : Consumed(e)[i].entry = open[i].entry
  BY ConsumedType
<1>4. Depth \in Nat
  BY DEF TypeOK, Depth
<1>5. failed' \subseteq Nat \X Seq(Entries)
  <2>1. at' \in Nat /\ PathTo(e) \in Seq(Entries)
    BY WalkType, PathType
  <2>2. \A f \in Inside[Target(e)] : <<at', Append(PathTo(e), f)>> \in Nat \X Seq(Entries)
    <3>1. \A f \in Inside[Target(e)] : Append(PathTo(e), f) \in Seq(Entries)
      BY <1>1, <2>1
    <3> QED
      BY <2>1, <3>1
  <2>3. failed \subseteq Nat \X Seq(Entries)
    BY DEF TypeOK
  <2>4. \/ failed' = failed
        \/ failed' = failed \cup
                       {<<at', Append(PathTo(e), f)>> : f \in Inside[Target(e)]}
    BY DEF Enter
  <2>5. ASSUME NEW x \in failed' PROVE x \in Nat \X Seq(Entries)
    <3>1. x \in failed \/ \E f \in Inside[Target(e)] : x = <<at', Append(PathTo(e), f)>>
      BY <2>4, <2>5
    <3> QED
      BY <2>2, <2>3, <3>1
  <2> QED
    BY <2>5
<1> QED
  BY <1>2, <1>3, <1>4, <1>5

-----------------------------------------------------------------------------
(* The tree.                                                               *)

(* A node inserted for the entry walkdir yielded is filed where the entry  *)
(* lies, and the nodes there already stay where they are.                  *)
LEMMA InsertFiles ==
  ASSUME Inv, NEW e \in Entries, Yields(e), ~Orphan, UNCHANGED media,
         NEW node \in Node, node.parent = Parent, node.walk = at',
         node.path = PathTo(e), Insert(Parent, node)
  PROVE  TreeInv'
<1> USE DEF Inv
<1>1. Parent \in 0 .. next_id - 1 /\ nodes[Parent].kind = "container"
  BY ParentType
<1>2. next_id \in Nat \ {0} /\ nodes \in [0 .. next_id - 1 -> Node]
  BY DEF TypeOK
<1>3. /\ next_id' = next_id + 1
      /\ nodes'[next_id] = node
      /\ \A id \in 0 .. next_id - 1 :
           /\ nodes'[id].kind = nodes[id].kind
           /\ nodes'[id].parent = nodes[id].parent
           /\ nodes'[id].walk = nodes[id].walk
           /\ nodes'[id].path = nodes[id].path
  BY <1>1, InsertType
<1>4. nodes'[Root].kind = "container"
  BY <1>2, <1>3 DEF TreeInv, Root
<1>5. ASSUME NEW id \in 1 .. next_id - 1
      PROVE  Filed(id)'
  <2>1. Filed(id)
    BY <1>5 DEF TreeInv
  <2>2. nodes[id].parent \in 0 .. id - 1 /\ nodes[id].parent \in 0 .. next_id - 1
    BY <2>1, <1>2 DEF Filed
  <2>3. /\ nodes'[id].parent = nodes[id].parent /\ nodes'[id].walk = nodes[id].walk
        /\ nodes'[id].path = nodes[id].path
    BY <1>2, <1>3
  <2>4. /\ nodes'[nodes[id].parent].kind = nodes[nodes[id].parent].kind
        /\ nodes'[nodes[id].parent].walk = nodes[nodes[id].parent].walk
        /\ nodes'[nodes[id].parent].path = nodes[nodes[id].parent].path
    BY <2>2, <1>3
  <2> QED
    BY <2>1, <2>2, <2>3, <2>4 DEF Filed
<1>6. ASSUME NEW id \in {next_id}
      PROVE  Filed(id)'
  <2>1. /\ PathTo(e) \in Seq(Entries) /\ Len(PathTo(e)) = Depth + 1
        /\ PathTo(e)[Depth + 1] = e
        /\ \A i \in 1 .. Depth : PathTo(e)[i] = open[i].entry
    BY PathType
  <2>2. Depth \in Nat /\ Len(container_at_depth) \in Nat
    BY DEF TypeOK, Depth
  <2>3. CASE Depth = 0
    <3>1. open = <<>>
      BY <2>3 DEF Depth, TypeOK
    <3>2. e = media.roots[at']
      BY <3>1, WalkType
    <3> QED
      BY <1>1, <1>2, <1>3, <2>1, <2>3, <3>2 DEF Filed, Parent, Root
  <2>4. CASE Depth # 0
    <3>1. open # <<>> /\ at' = at
      BY <2>4, WalkType DEF Depth
    <3>2. Parent = container_at_depth[Depth] /\ Depth <= Len(container_at_depth)
      BY <2>2, <2>4, <3>1 DEF Parent, Orphan, containers
    <3>3. nodes[Parent].walk = at /\ nodes[Parent].path = OpenPath(Depth)
      BY <2>2, <2>4, <3>2 DEF StackInv
    <3>4. Front(PathTo(e)) = OpenPath(Depth)
      BY <2>1, <2>2 DEF Front, OpenPath
    <3>5. /\ nodes'[Parent].kind = "container" /\ nodes'[Parent].walk = at'
          /\ nodes'[Parent].path = Front(node.path)
      BY <1>1, <1>3, <3>1, <3>3, <3>4
    <3>6. /\ nodes'[id] = node /\ Parent \in 0 .. id - 1
          /\ Len(node.path) \in Nat \ {0} /\ Len(node.path) # 1
      BY <1>1, <1>2, <1>3, <2>1, <2>2, <2>4
    <3> QED
      BY <3>5, <3>6 DEF Filed
  <2> QED
    BY <2>3, <2>4
<1>7. \A id \in 1 .. next_id' - 1 : id \in 1 .. next_id - 1 \/ id \in {next_id}
  BY <1>2, <1>3
<1> QED
  BY <1>4, <1>5, <1>6, <1>7 DEF TreeInv

-----------------------------------------------------------------------------
(* The stack.                                                              *)

(* An entry that is not gone into, and adds no container, leaves both      *)
(* stacks as they are.                                                     *)
LEMMA ConsumeKeepsStack ==
  ASSUME Inv, NEW e \in Entries, Yields(e), UNCHANGED media,
         open' = Consumed(e), container_at_depth' = containers,
         next_id' \in Nat, next_id' >= next_id,
         \A id \in 1 .. next_id - 1 :
           /\ nodes'[id].kind = nodes[id].kind
           /\ nodes'[id].walk = nodes[id].walk
           /\ nodes'[id].path = nodes[id].path
  PROVE  StackInv'
<1>1. /\ Len(open') = Depth
      /\ \A i \in 1 .. Depth : open'[i].entry = open[i].entry
  BY ConsumedType DEF Inv
<1>2. Depth \in Nat /\ next_id \in Nat /\ Depth' = Depth
  BY <1>1 DEF Inv, TypeOK, Depth
<1>3. CASE open = <<>>
  <2>1. open' = <<>> /\ container_at_depth' = <<>> /\ Depth' = 0
    BY <1>1, <1>2, <1>3 DEF Consumed, containers, Depth
  <2> QED
    BY <2>1 DEF StackInv
<1>4. CASE open # <<>>
  <2>1. container_at_depth' = container_at_depth /\ at' = at
    BY <1>4, WalkType DEF containers, Inv
  <2>2. \A depth \in 1 .. Depth : OpenPath(depth)' = OpenPath(depth)
    BY <1>1, <1>2 DEF OpenPath
  <2>3. open'[1].entry = open[1].entry
    <3>1. 1 \in 1 .. Depth
      BY <1>2, <1>4 DEF Depth, Inv, TypeOK
    <3> QED
      BY <1>1, <3>1
  <2>4. \A depth \in 1 .. Depth' :
          depth <= Len(container_at_depth') =>
            LET id == container_at_depth'[depth]
            IN /\ id \in 1 .. next_id' - 1
               /\ nodes'[id].kind = "container"
               /\ nodes'[id].walk = at'
               /\ nodes'[id].path = OpenPath(depth)'
    <3> SUFFICES ASSUME NEW depth \in 1 .. Depth,
                        depth <= Len(container_at_depth)
                 PROVE  LET id == container_at_depth[depth]
                        IN /\ id \in 1 .. next_id' - 1
                           /\ nodes'[id].kind = "container"
                           /\ nodes'[id].walk = at
                           /\ nodes'[id].path = OpenPath(depth)'
      BY <1>2, <2>1
    <3>1. LET id == container_at_depth[depth]
          IN /\ id \in 1 .. next_id - 1
             /\ nodes[id].kind = "container"
             /\ nodes[id].walk = at
             /\ nodes[id].path = OpenPath(depth)
      BY DEF Inv, StackInv
    <3>2. OpenPath(depth)' = OpenPath(depth)
      BY <2>2
    <3> QED
      BY <1>2, <3>1, <3>2
  <2>5. container_at_depth' = <<>> \/ Depth' <= Len(container_at_depth')
    BY <1>2, <2>1 DEF Inv, StackInv
  <2>6. at' \in 1 .. Len(media'.roots) /\ open'[1].entry = media'.roots[at']
    BY <1>4, <2>1, <2>3 DEF Inv, StackInv
  <2> QED
    BY <2>4, <2>5, <2>6 DEF StackInv
<1> QED
  BY <1>3, <1>4

(* A container becomes the one to file under at the depth below it.        *)
LEMMA EnterKeepsStack ==
  ASSUME Inv, NEW e \in Entries, VisitDir(e)
  PROVE  StackInv' /\ TypeOK' /\ TreeInv'
<1> DEFINE node == Container(Parent, PathTo(e))
<1>1. /\ Yields(e) /\ ~Orphan /\ Kind[Target(e)] = "dir" /\ Enter(e)
      /\ Insert(Parent, node) /\ UNCHANGED <<media, status>>
      /\ container_at_depth' = Append(SubSeq(containers, 1, Depth), next_id)
  BY TargetType DEF VisitDir, Visits
<1>2. Parent \in 0 .. next_id - 1
  BY <1>1, ParentType DEF Inv
<1>3. /\ PathTo(e) \in Seq(Entries)
      /\ PathTo(e) = Append(OpenPath(Depth), e)
      /\ Len(PathTo(e)) = Depth + 1
      /\ PathTo(e)[Depth + 1] = e
      /\ \A i \in 1 .. Depth : PathTo(e)[i] = open[i].entry
  BY PathType DEF Inv, PathTo, OpenPath
<1>4. /\ at' \in 0 .. Len(media.roots) /\ at' \in Nat
      /\ open = <<>> => at' \in 1 .. Len(media.roots) /\ e = media.roots[at']
      /\ open # <<>> => at' = at
  BY <1>1, WalkType DEF Inv
<1>5. /\ node \in Node /\ node.parent = Parent /\ node.walk = at'
      /\ node.path = PathTo(e) /\ node.kind = "container"
  <2>1. next_id \in Nat \ {0}
    BY DEF Inv, TypeOK
  <2> QED
    BY <1>2, <1>3, <1>4, <2>1 DEF Container, Node
<1> HIDE DEF node
<1>6. TreeInv'
  BY <1>1, <1>5, InsertFiles
<1>7. /\ next_id' = next_id + 1 /\ next_id' \in Nat \ {0}
      /\ nodes' \in [0 .. next_id' - 1 -> Node]
      /\ nodes'[next_id] = node
      /\ \A id \in 0 .. next_id - 1 :
           /\ nodes'[id].kind = nodes[id].kind
           /\ nodes'[id].walk = nodes[id].walk
           /\ nodes'[id].path = nodes[id].path
  BY <1>1, <1>2, <1>5, InsertType DEF Inv
<1>8. /\ open' \in Seq(Frame) /\ Len(open') = Depth + 1
      /\ open'[Depth + 1].entry = e
      /\ \A i \in 1 .. Depth : open'[i].entry = open[i].entry
      /\ failed' \subseteq Nat \X Seq(Entries)
  BY <1>1, EnterType DEF Inv
<1>9. Depth \in Nat /\ next_id \in Nat \ {0} /\ containers \in Seq(Nat)
      /\ Depth <= Len(containers) /\ Len(containers) \in Nat
  BY <1>1 DEF Inv, TypeOK, Depth, containers, Orphan
<1>10. /\ container_at_depth' \in Seq(Nat)
       /\ Len(container_at_depth') = Depth + 1
       /\ container_at_depth'[Depth + 1] = next_id
       /\ \A i \in 1 .. Depth : container_at_depth'[i] = containers[i]
  BY <1>1, <1>9
<1>11. TypeOK'
  BY <1>1, <1>4, <1>7, <1>8, <1>10 DEF Inv, TypeOK, Frame
<1>12. Depth' = Depth + 1
  BY <1>8 DEF Depth
<1>13. open'[1].entry = media.roots[at'] /\ at' \in 1 .. Len(media.roots)
  <2>1. CASE open = <<>>
    <3>1. Depth = 0
      BY <2>1 DEF Depth
    <3> QED
      BY <1>4, <1>8, <2>1, <3>1
  <2>2. CASE open # <<>>
    <3>1. 1 \in 1 .. Depth
      BY <2>2 DEF Depth, Inv, TypeOK
    <3> QED
      BY <1>4, <1>8, <2>2, <3>1 DEF Inv, StackInv
  <2> QED
    BY <2>1, <2>2
<1>14. ASSUME NEW depth \in 1 .. Depth
       PROVE  LET id == container_at_depth'[depth]
              IN /\ id \in 1 .. next_id' - 1
                 /\ nodes'[id].kind = "container"
                 /\ nodes'[id].walk = at'
                 /\ nodes'[id].path = OpenPath(depth)'
  <2>1. open # <<>>
    BY <1>9 DEF Depth
  <2>2. container_at_depth'[depth] = container_at_depth[depth]
        /\ depth <= Len(container_at_depth) /\ at' = at
    <3>1. containers = container_at_depth
      BY <2>1 DEF containers
    <3>2. depth <= Len(container_at_depth)
      BY <1>9, <3>1
    <3> QED
      BY <1>4, <1>10, <2>1, <3>1, <3>2
  <2>3. OpenPath(depth)' = OpenPath(depth)
    <3>1. \A i \in 1 .. depth : i \in 1 .. Depth
      BY <1>9
    <3>2. \A i \in 1 .. depth : open'[i].entry = open[i].entry
      BY <1>8, <3>1
    <3> QED
      BY <3>2 DEF OpenPath
  <2>4. LET id == container_at_depth[depth]
        IN /\ id \in 1 .. next_id - 1
           /\ nodes[id].kind = "container"
           /\ nodes[id].walk = at
           /\ nodes[id].path = OpenPath(depth)
    BY <2>2 DEF Inv, StackInv
  <2>5. container_at_depth[depth] \in 0 .. next_id - 1
        /\ container_at_depth[depth] \in 1 .. next_id' - 1
    BY <1>7, <1>9, <2>4
  <2> QED
    BY <1>7, <2>2, <2>3, <2>4, <2>5
<1>15. /\ nodes'[next_id].kind = "container" /\ nodes'[next_id].walk = at'
       /\ \A depth \in {Depth + 1} : nodes'[next_id].path = OpenPath(depth)'
  <2>1. ASSUME NEW depth \in {Depth + 1}
        PROVE  PathTo(e) = [i \in 1 .. depth |-> open'[i].entry]
    <3> DEFINE path == [i \in 1 .. depth |-> open'[i].entry]
    <3>1. \A i \in 1 .. depth : PathTo(e)[i] = open'[i].entry
      <4>1. \A i \in 1 .. depth : i \in 1 .. Depth \/ i = Depth + 1
        BY <1>9
      <4>2. \A i \in 1 .. Depth : PathTo(e)[i] = open'[i].entry
        BY <1>3, <1>8
      <4>3. PathTo(e)[Depth + 1] = open'[Depth + 1].entry
        BY <1>3, <1>8
      <4> HIDE DEF path
      <4> QED
        BY <4>1, <4>2, <4>3
    <3>2. Len(PathTo(e)) = depth /\ depth \in Nat
      BY <1>3, <1>9
    <3>3. \A i \in 1 .. depth : PathTo(e)[i] \in Entries
      BY <1>3, <3>2
    <3>4. path \in Seq(Entries) /\ Len(path) = depth
      BY <3>1, <3>2, <3>3
    <3> QED
      BY <1>3, <3>1, <3>2, <3>4, SeqEqual
  <2> QED
    BY <1>5, <1>7, <2>1 DEF OpenPath
<1>16. \A depth \in 1 .. Depth' :
         LET id == container_at_depth'[depth]
         IN /\ id \in 1 .. next_id' - 1
            /\ nodes'[id].kind = "container"
            /\ nodes'[id].walk = at'
            /\ nodes'[id].path = OpenPath(depth)'
  <2>1. \A depth \in 1 .. Depth' : depth \in 1 .. Depth \/ depth \in {Depth + 1}
    BY <1>9, <1>12
  <2>2. next_id \in 1 .. next_id' - 1
    BY <1>7, <1>9
  <2> QED
    BY <1>10, <1>14, <1>15, <2>1, <2>2
<1>17. StackInv'
  <2>1. media' = media
    BY <1>1
  <2>2. container_at_depth' = <<>> \/ Depth' <= Len(container_at_depth')
    BY <1>9, <1>10, <1>12
  <2> QED
    BY <1>13, <1>16, <2>1, <2>2 DEF StackInv
<1> QED
  BY <1>6, <1>11, <1>17

(* An item is added, and nothing entered.                                  *)
LEMMA AudioKeepsInv ==
  ASSUME Inv, NEW e \in Entries, VisitAudio(e)
  PROVE  Inv'
<1> DEFINE node == Item(Parent, PathTo(e))
<1>1. /\ Yields(e) /\ ~Orphan /\ open' = Consumed(e) /\ Insert(Parent, node)
      /\ container_at_depth' = containers /\ media' = media
      /\ failed' = failed /\ status' = status
  BY DEF VisitAudio, Visits
<1>2. Parent \in 0 .. next_id - 1
  BY <1>1, ParentType DEF Inv
<1>3. PathTo(e) \in Seq(Entries)
  BY PathType DEF Inv
<1>4. at' \in 0 .. Len(media.roots) /\ at' \in Nat
  BY <1>1, WalkType DEF Inv
<1>5. /\ node \in Node /\ node.parent = Parent /\ node.walk = at'
      /\ node.path = PathTo(e)
  <2>1. next_id \in Nat \ {0}
    BY DEF Inv, TypeOK
  <2>2. node = [parent |-> Parent, kind |-> "item", children |-> <<>>,
                walk |-> at', path |-> PathTo(e)]
    BY DEF Item, Container
  <2> HIDE DEF node
  <2> QED
    BY <1>2, <1>3, <1>4, <2>1, <2>2 DEF Node
<1> HIDE DEF node
<1>6. TreeInv'
  BY <1>1, <1>5, InsertFiles
<1>7. /\ next_id' = next_id + 1 /\ next_id' \in Nat \ {0}
      /\ nodes' \in [0 .. next_id' - 1 -> Node]
      /\ \A id \in 0 .. next_id - 1 :
           /\ nodes'[id].kind = nodes[id].kind
           /\ nodes'[id].walk = nodes[id].walk
           /\ nodes'[id].path = nodes[id].path
  BY <1>1, <1>2, <1>5, InsertType DEF Inv
<1>8. open' \in Seq(Frame)
  BY <1>1, ConsumedType DEF Inv
<1>9. container_at_depth' \in Seq(Nat)
  BY <1>1 DEF Inv, TypeOK, containers
<1>10. TypeOK'
  BY <1>1, <1>4, <1>7, <1>8, <1>9 DEF Inv, TypeOK, Frame
<1>11. StackInv'
  <2>1. next_id \in Nat /\ next_id' \in Nat /\ next_id' >= next_id
    BY <1>7 DEF Inv, TypeOK
  <2>2. \A id \in 1 .. next_id - 1 : id \in 0 .. next_id - 1
    BY <2>1
  <2> QED
    BY <1>1, <1>7, <2>1, <2>2, ConsumeKeepsStack
<1> QED
  BY <1>6, <1>10, <1>11 DEF Inv

(* Steps that add no node leave the tree as it is.                         *)
LEMMA TreeUntouched ==
  ASSUME TreeInv, UNCHANGED <<media, nodes, next_id>>
  PROVE  TreeInv'
BY DEF TreeInv, Filed

LEMMA ConsumeKeepsInv ==
  ASSUME Inv, NEW e \in Entries, Yields(e), open' = Consumed(e),
         container_at_depth' = containers,
         UNCHANGED <<media, nodes, next_id, status>>,
         failed' \subseteq Nat \X Seq(Entries)
  PROVE  Inv'
<1>1. TreeInv'
  BY TreeUntouched DEF Inv
<1>2. next_id' = next_id /\ nodes' = nodes /\ media' = media /\ next_id \in Nat
      /\ status' = status
  BY DEF Inv, TypeOK
<1>3. StackInv'
  BY <1>2, ConsumeKeepsStack
<1>4. open' \in Seq(Frame) /\ at' \in 0 .. Len(media.roots)
  BY ConsumedType, WalkType DEF Inv
<1>5. container_at_depth' \in Seq(Nat)
  BY DEF Inv, TypeOK, containers
<1>6. TypeOK'
  BY <1>2, <1>4, <1>5 DEF Inv, TypeOK, Frame
<1> QED
  BY <1>1, <1>3, <1>6 DEF Inv

LEMMA SkipKeepsInv ==
  ASSUME Inv, NEW e \in Entries, Skip(e)
  PROVE  Inv'
<1>1. /\ Yields(e) /\ open' = Consumed(e) /\ container_at_depth' = containers
      /\ UNCHANGED <<media, nodes, next_id, status>>
  BY DEF Skip
<1>2. at' \in Nat /\ PathTo(e) \in Seq(Entries)
  BY <1>1, WalkType, PathType DEF Inv
<1>3. failed' \subseteq Nat \X Seq(Entries)
  BY <1>2 DEF Skip, Inv, TypeOK
<1> QED
  BY <1>1, <1>3, ConsumeKeepsInv

(* A configured directory that is an unfollowed link is entered without a  *)
(* container; nothing is open then, and no container is remembered.        *)
LEMMA OtherKeepsInv ==
  ASSUME Inv, NEW e \in Entries, VisitOther(e)
  PROVE  Inv'
<1>1. /\ Yields(e) /\ container_at_depth' = containers
      /\ UNCHANGED <<media, nodes, next_id, status>>
      /\ FileType(e) # "dir"
      /\ IF Descends(e, Depth)
         THEN Enter(e)
         ELSE open' = Consumed(e) /\ UNCHANGED failed
  BY DEF VisitOther, Visits
<1>2. CASE ~Descends(e, Depth)
  <2>1. failed' \subseteq Nat \X Seq(Entries)
    BY <1>1, <1>2 DEF Inv, TypeOK
  <2> QED
    BY <1>1, <1>2, <2>1, ConsumeKeepsInv
<1>3. CASE Descends(e, Depth)
  <2>1. Depth = 0 /\ Kind[Target(e)] = "dir" /\ Enter(e)
    BY <1>1, <1>3 DEF Descends
  <2>2. open = <<>> /\ container_at_depth' = <<>>
    BY <1>1, <2>1 DEF Depth, Inv, TypeOK, containers
  <2>3. /\ open' \in Seq(Frame) /\ Len(open') = 1 /\ open'[1].entry = e
        /\ failed' \subseteq Nat \X Seq(Entries)
    BY <1>1, <2>1, EnterType DEF Inv
  <2>4. /\ at' \in 0 .. Len(media.roots) /\ at' \in 1 .. Len(media.roots)
        /\ e = media.roots[at']
    BY <1>1, <2>2, WalkType DEF Inv
  <2>5. TypeOK'
    BY <1>1, <2>2, <2>3, <2>4 DEF Inv, TypeOK, Frame
  <2>6. StackInv'
    <3>1. Len(container_at_depth') = 0 /\ media' = media
      BY <1>1, <2>2
    <3>2. \A depth \in 1 .. Depth' : ~(depth <= Len(container_at_depth'))
      BY <3>1
    <3> QED
      BY <2>2, <2>3, <2>4, <3>1, <3>2 DEF StackInv
  <2>7. TreeInv'
    BY <1>1, TreeUntouched DEF Inv
  <2> QED
    BY <2>5, <2>6, <2>7 DEF Inv
<1> QED
  BY <1>2, <1>3

LEMMA LeaveKeepsInv ==
  ASSUME Inv, Leave
  PROVE  Inv'
<1>1. /\ open # <<>> /\ open' = Front(open)
      /\ media' = media /\ at' = at /\ container_at_depth' = container_at_depth
      /\ nodes' = nodes /\ next_id' = next_id /\ failed' = failed /\ status' = status
  BY DEF Leave
<1>2. open \in Seq(Frame) /\ Len(open) \in Nat \ {0} /\ Len(container_at_depth) \in Nat
  BY <1>1 DEF Inv, TypeOK, Frame
<1>3. /\ open' \in Seq(Frame) /\ Len(open') = Len(open) - 1
      /\ \A i \in 1 .. Len(open) - 1 : open'[i] = open[i]
  BY <1>1, <1>2, FrontType
<1>4. TypeOK'
  BY <1>1, <1>3 DEF Inv, TypeOK, Frame
<1>5. TreeInv'
  BY <1>1, TreeUntouched DEF Inv
<1>6. Depth' = Depth - 1 /\ Depth = Len(open)
  BY <1>3 DEF Depth
<1>7. \A depth \in 1 .. Depth' :
        depth \in 1 .. Depth /\ OpenPath(depth)' = OpenPath(depth)
  <2>1. \A depth \in 1 .. Depth' :
          /\ depth \in 1 .. Depth
          /\ \A i \in 1 .. depth : i \in 1 .. Len(open) - 1
    BY <1>2, <1>6
  <2>2. \A depth \in 1 .. Depth' :
          \A i \in 1 .. depth : open'[i].entry = open[i].entry
    BY <1>3, <2>1
  <2> QED
    BY <2>1, <2>2 DEF OpenPath
<1>8. open' # <<>> => open'[1] = open[1]
  BY <1>2, <1>3
<1>9. container_at_depth' = <<>> \/ Depth' <= Len(container_at_depth')
  BY <1>1, <1>2, <1>6 DEF Inv, StackInv
<1>10. open' # <<>> => at' \in 1 .. Len(media'.roots)
                      /\ open'[1].entry = media'.roots[at']
  BY <1>1, <1>8 DEF Inv, StackInv
<1>11. \A depth \in 1 .. Depth' :
         depth <= Len(container_at_depth') =>
           LET id == container_at_depth'[depth]
           IN /\ id \in 1 .. next_id' - 1
              /\ nodes'[id].kind = "container"
              /\ nodes'[id].walk = at'
              /\ nodes'[id].path = OpenPath(depth)'
  BY <1>1, <1>7 DEF Inv, StackInv
<1>12. StackInv'
  BY <1>9, <1>10, <1>11 DEF StackInv
<1> QED
  BY <1>4, <1>5, <1>12 DEF Inv

-----------------------------------------------------------------------------
(* The theorems.                                                           *)

LEMMA InitInv == Init => Inv
<1> SUFFICES ASSUME Init PROVE Inv
  OBVIOUS
<1>1. media.roots \in Seq(Entries) /\ Len(media.roots) \in Nat
  BY ConfigAssumption DEF Init
<1>2. TypeOK
  BY <1>1 DEF Init, TypeOK, Node, Root, NoParent
<1>3. StackInv
  BY DEF Init, StackInv, Depth
<1>4. TreeInv
  BY DEF Init, TreeInv, Root
<1> QED
  BY <1>2, <1>3, <1>4 DEF Inv

LEMMA StepInv == Inv /\ [Next]_vars => Inv'
<1> SUFFICES ASSUME Inv, [Next]_vars PROVE Inv'
  OBVIOUS
<1>1. ASSUME NEW e \in Entries, Skip(e) PROVE Inv'
  BY <1>1, SkipKeepsInv
<1>2. ASSUME NEW e \in Entries, VisitDir(e) PROVE Inv'
  BY <1>2, EnterKeepsStack DEF Inv
<1>3. ASSUME NEW e \in Entries, VisitAudio(e) PROVE Inv'
  BY <1>3, AudioKeepsInv
<1>4. ASSUME NEW e \in Entries, VisitOther(e) PROVE Inv'
  BY <1>4, OtherKeepsInv
<1>5. CASE UNCHANGED <<media, at, open, container_at_depth, nodes, next_id, failed>>
           /\ status' \in {"walking", "built", "panicked"}
  BY <1>5 DEF Inv, TypeOK, StackInv, TreeInv, Filed, Depth, OpenPath
<1>6. ASSUME NEW e \in Entries, Panic(e) PROVE Inv'
  BY <1>5, <1>6 DEF Panic
<1>7. CASE Leave
  BY <1>7, LeaveKeepsInv
<1>8. CASE Build
  BY <1>5, <1>8 DEF Build
<1>9. CASE UNCHANGED vars
  BY <1>5, <1>9 DEF vars, Inv, TypeOK
<1> QED
  BY <1>1, <1>2, <1>3, <1>4, <1>6, <1>7, <1>8, <1>9 DEF Next

(* The scan keeps the type of everything it builds, for every tree of      *)
(* directories and links and every configuration (scanner.rs, scan).       *)
THEOREM TypeCorrect == Spec => []TypeOK
<1>1. Inv => TypeOK
  BY DEF Inv
<1> QED
  BY <1>1, InitInv, StepInv, PTL DEF Spec

(* Every entry is filed under the container of the directory it lies in,   *)
(* for every tree of directories and links, every configuration and every  *)
(* way errors may strike (scanner.rs, scan_one_directory).                 *)
THEOREM FiledCorrectly == Spec => []FiledWhereItLies
<1>1. Inv => FiledWhereItLies
  <2> SUFFICES ASSUME Inv, NEW id \in DOMAIN nodes \ {Root}
               PROVE  LET node == nodes[id]  parent == nodes[node.parent]
                      IN IF Len(node.path) = 1
                         THEN node.parent = Root
                              /\ node.path[1] = media.roots[node.walk]
                         ELSE /\ parent.walk = node.walk
                              /\ parent.path = Front(node.path)
    BY DEF FiledWhereItLies
  <2>1. id \in 1 .. next_id - 1
    BY DEF Inv, TypeOK, Root
  <2> QED
    BY <2>1 DEF Inv, TreeInv, Filed
<1> QED
  BY <1>1, InitInv, StepInv, PTL DEF Spec

-----------------------------------------------------------------------------
(* Parents and children.                                                   *)

(* A sequence and the next id after it.                                    *)
Extends(new, old) ==
  /\ new # <<>> /\ Len(new) = Len(old) + 1
  /\ \A i \in 1 .. Len(old) : new[i] = old[i]
  /\ new[Len(old) + 1] = next_id

(* A node inserted under a container agrees with it, and with the others.  *)
LEMMA InsertAgrees ==
  ASSUME Inv, ParentsAndChildrenAgree,
         NEW parent \in 0 .. next_id - 1, nodes[parent].kind = "container",
         NEW node \in Node, node.parent = parent, node.children = <<>>,
         Insert(parent, node)
  PROVE  ParentsAndChildrenAgree'
<1>1. next_id \in Nat \ {0} /\ nodes \in [0 .. next_id - 1 -> Node]
  BY DEF Inv, TypeOK
<1>2. /\ next_id' = next_id + 1
      /\ nodes' \in [0 .. next_id -> Node]
      /\ nodes'[next_id] = node
      /\ \A id \in 0 .. next_id - 1 : /\ nodes'[id].kind = nodes[id].kind
                                      /\ nodes'[id].parent = nodes[id].parent
  BY <1>1, InsertType DEF Inv
<1>3. ASSUME NEW other \in 0 .. next_id - 1
      PROVE  /\ Len(nodes[other].children) \in Nat
             /\ \A i \in 1 .. Len(nodes[other].children) :
                  nodes[other].children[i] \in 0 .. next_id - 1
             /\ other # parent => nodes'[other].children = nodes[other].children
             /\ other = parent => Extends(nodes'[other].children, nodes[other].children)
  <2>1. nodes[other] \in Node
    BY <1>1
  <2>2. nodes[other].children \in Seq(Nat)
    BY <2>1 DEF Node
  <2>3. \A i \in 1 .. Len(nodes[other].children) :
          nodes[other].children[i] \in 0 .. next_id - 1
    BY <1>1 DEF ParentsAndChildrenAgree
  <2>4. Extends(Append(nodes[other].children, next_id), nodes[other].children)
    <3>1. PICK old : old = nodes[other].children
      OBVIOUS
    <3>2. old \in Seq(Nat) /\ next_id \in Nat
      BY <1>1, <2>2, <3>1
    <3>3. Extends(Append(old, next_id), old)
      BY <3>2 DEF Extends
    <3> QED BY <3>1, <3>3
  <2>5. ASSUME NEW n \in Node
        PROVE  [n EXCEPT !.children = Append(@, next_id)].children
                 = Append(n.children, next_id)
    BY DEF Node
  <2>6. nodes'[other] = IF other = parent
                        THEN [nodes[other] EXCEPT !.children = Append(@, next_id)]
                        ELSE nodes[other]
    BY <1>1 DEF Insert
  <2>7. Len(nodes[other].children) \in Nat
    BY <2>2
  <2> QED BY <2>1, <2>3, <2>4, <2>5, <2>6, <2>7
<1>4. ASSUME NEW id \in 0 .. next_id - 1
      PROVE  id # Root => nodes[id].parent < id /\ nodes[id].parent \in 0 .. next_id - 1
  <2>1. nodes[id] \in Node
    BY <1>1
  <2>2. nodes[id].parent \in Nat
    BY <2>1 DEF Node
  <2> QED BY <1>1, <2>2 DEF ParentsAndChildrenAgree
<1>5. ASSUME NEW other \in 0 .. next_id
      PROVE  /\ nodes'[other].children # <<>> => nodes'[other].kind = "container"
             /\ \A i \in 1 .. Len(nodes'[other].children) :
                  nodes'[other].children[i] \in 0 .. next_id
  <2>1. CASE other = next_id
    BY <1>2, <2>1
  <2>2. CASE other \in 0 .. next_id - 1 /\ other # parent
    <3>1. nodes[other].children # <<>> => nodes[other].kind = "container"
      BY <1>1, <2>2 DEF ParentsAndChildrenAgree
    <3> QED BY <1>1, <1>2, <1>3, <2>2, <3>1
  <2>3. CASE other = parent
    <3>1. nodes'[other].kind = "container"
      BY <1>2, <2>3
    <3>2. ASSUME NEW i \in 1 .. Len(nodes'[other].children)
          PROVE  nodes'[other].children[i] \in 0 .. next_id
      <4>1. i \in 1 .. Len(nodes[other].children) \/ i = Len(nodes[other].children) + 1
        BY <1>3, <2>3 DEF Extends
      <4>2. CASE i \in 1 .. Len(nodes[other].children)
        <5>1. nodes'[other].children[i] = nodes[other].children[i]
          BY <1>3, <2>3, <4>2 DEF Extends
        <5>2. nodes[other].children[i] \in 0 .. next_id - 1
          BY <1>3, <2>3, <4>2
        <5> QED BY <1>1, <5>1, <5>2
      <4>3. CASE i = Len(nodes[other].children) + 1
        BY <1>1, <1>3, <2>3, <4>3 DEF Extends
      <4> QED BY <4>1, <4>2, <4>3
    <3> QED BY <3>1, <3>2
  <2> QED BY <1>1, <2>1, <2>2, <2>3
<1>6. ASSUME NEW id \in 0 .. next_id
      PROVE  id # Root => nodes'[id].parent < id
  <2>1. CASE id = next_id
    BY <1>1, <1>2, <2>1
  <2>2. CASE id \in 0 .. next_id - 1
    BY <1>2, <1>4, <2>2
  <2> QED BY <1>1, <2>1, <2>2
<1>7. ASSUME NEW id \in 0 .. next_id, NEW other \in 0 .. next_id
      PROVE  Cardinality(Places(id, other)')
               = IF id # Root /\ nodes'[id].parent = other THEN 1 ELSE 0
  <2>1. CASE other = next_id
    <3>1. Places(id, other)' = {}
      BY <1>2, <2>1 DEF Places
    <3>2. id # Root => nodes'[id].parent # other
      BY <1>6, <2>1
    <3> QED BY <3>1, <3>2, FS_EmptySet
  <2>2. CASE other \in 0 .. next_id - 1 /\ id \in 0 .. next_id - 1
    <3>1. Places(id, other)' = Places(id, other)
      <4>1. CASE other = parent
        BY <1>1, <1>3, <2>2, <4>1 DEF Places, Extends
      <4>2. CASE other # parent
        BY <1>3, <2>2, <4>2 DEF Places
      <4> QED BY <4>1, <4>2
    <3>2. Cardinality(Places(id, other))
            = IF id # Root /\ nodes[id].parent = other THEN 1 ELSE 0
      BY <1>1, <2>2 DEF ParentsAndChildrenAgree
    <3> QED BY <1>2, <2>2, <3>1, <3>2
  <2>3. CASE other \in 0 .. next_id - 1 /\ id = next_id /\ other # parent
    <3>1. Places(id, other)' = {}
      BY <1>1, <1>3, <2>3 DEF Places
    <3> QED BY <1>2, <2>3, <3>1, FS_EmptySet
  <2>4. CASE other = parent /\ id = next_id
    <3> DEFINE n == Len(nodes[other].children) + 1
    <3>0. n \in Nat /\ Len(nodes'[other].children) = n /\ nodes'[other].children[n] = id
      BY <1>3, <2>4 DEF Extends
    <3>a. \A i \in 1 .. n - 1 : nodes'[other].children[i] # id
      BY <1>1, <1>3, <2>4 DEF Extends
    <3>b. n >= 1 /\ \A i \in 1 .. n : i = n \/ i \in 1 .. n - 1
      BY <1>3, <2>4
    <3>1. Places(id, other)' = {n}
      BY <3>0, <3>a, <3>b DEF Places
    <3>2. id # Root
      BY <1>1, <2>4 DEF Root
    <3> HIDE DEF n
    <3> QED BY <1>2, <2>4, <3>1, <3>2, FS_Singleton
  <2> QED BY <1>1, <2>1, <2>2, <2>3, <2>4
<1>8. DOMAIN nodes' = 0 .. next_id
  BY <1>2
<1> QED BY <1>5, <1>6, <1>7, <1>8 DEF ParentsAndChildrenAgree

LEMMA StepAgrees ==
  ASSUME Inv, ParentsAndChildrenAgree, [Next]_vars
  PROVE  ParentsAndChildrenAgree'
<1>1. ASSUME nodes' = nodes PROVE ParentsAndChildrenAgree'
  <2>1. \A id, other \in DOMAIN nodes : Places(id, other)' = Places(id, other)
    BY <1>1 DEF Places
  <2> QED BY <1>1, <2>1 DEF ParentsAndChildrenAgree
<1>2. ASSUME NEW e \in Entries, Yields(e), ~Orphan,
             NEW kind \in {"container", "item"},
             Insert(Parent, [parent |-> Parent, kind |-> kind, children |-> <<>>,
                             walk |-> at', path |-> PathTo(e)])
      PROVE  ParentsAndChildrenAgree'
  <2> DEFINE node == [parent |-> Parent, kind |-> kind, children |-> <<>>,
                      walk |-> at', path |-> PathTo(e)]
  <2>1. Parent \in 0 .. next_id - 1 /\ nodes[Parent].kind = "container"
    BY <1>2, ParentType DEF Inv
  <2>2. PathTo(e) \in Seq(Entries) /\ at' \in Nat /\ next_id \in Nat \ {0}
    BY <1>2, PathType, WalkType DEF Inv, TypeOK
  <2>3. node \in Node /\ node.parent = Parent /\ node.children = <<>>
    BY <2>1, <2>2 DEF Node
  <2>4. Insert(Parent, node)
    BY <1>2
  <2> HIDE DEF node
  <2> QED BY <2>1, <2>3, <2>4, InsertAgrees
<1>3. ASSUME NEW e \in Entries, VisitDir(e) PROVE ParentsAndChildrenAgree'
  BY <1>2, <1>3 DEF VisitDir, Visits, Container
<1>4. ASSUME NEW e \in Entries, VisitAudio(e) PROVE ParentsAndChildrenAgree'
  <2>1. Item(Parent, PathTo(e)) = [parent |-> Parent, kind |-> "item", children |-> <<>>,
                                   walk |-> at', path |-> PathTo(e)]
    BY DEF Item, Container
  <2> QED BY <1>2, <1>4, <2>1 DEF VisitAudio, Visits
<1> QED
  BY <1>1, <1>3, <1>4
     DEF Next, vars, Skip, VisitOther, Panic, Leave, Build

(* No dangling parent or child and no duplicate id in any index a scan     *)
(* builds, whatever it meets (index.rs, IndexBuilder): what LibraryWalk    *)
(* assumes of the indexes it reads.                                        *)
THEOREM WellFormed == Spec => []ParentsAndChildrenAgree
<1>1. Init => ParentsAndChildrenAgree
  <2> SUFFICES ASSUME Init PROVE ParentsAndChildrenAgree
    OBVIOUS
  <2>1. DOMAIN nodes = {Root} /\ nodes[Root].children = <<>>
    BY DEF Init
  <2>2. Places(Root, Root) = {}
    BY <2>1 DEF Places
  <2> QED BY <2>1, <2>2, FS_EmptySet DEF ParentsAndChildrenAgree
<1> QED
  BY <1>1, InitInv, StepInv, StepAgrees, PTL DEF Spec

-----------------------------------------------------------------------------
(* Panics.                                                                 *)

(* What no panic rests on: a container for every depth the walk is at.     *)
Reaches ==
  /\ status # "panicked"
  /\ open # <<>> => Depth <= Len(container_at_depth)

LEMMA ReachesNotOrphan ==
  ASSUME Inv, Reaches
  PROVE  ~Orphan
<1>1. CASE open = <<>>
  BY <1>1 DEF Orphan, Depth, containers
<1>2. CASE open # <<>>
  <2>1. Depth \in Nat /\ Len(container_at_depth) \in Nat
    BY DEF Inv, TypeOK, Depth
  <2> QED
    BY <1>2, <2>1 DEF Orphan, containers, Reaches
<1> QED
  BY <1>1, <1>2

LEMMA StepReaches ==
  ASSUME ~LinkedRoot, Inv, Reaches, [Next]_vars
  PROVE  Reaches'
<1>1. ~Orphan
  BY ReachesNotOrphan
<1>2. Depth \in Nat /\ Len(container_at_depth) \in Nat
  BY DEF Inv, TypeOK, Depth
<1>3. ASSUME NEW e \in Entries, Yields(e), open' = Consumed(e),
             container_at_depth' = containers, status' = status
      PROVE  Reaches'
  <2>1. Len(Consumed(e)) = Depth
    BY <1>3, ConsumedType DEF Inv
  <2>2. open = <<>> => open' = <<>>
    BY <1>3 DEF Consumed
  <2> QED
    BY <1>3, <2>1, <2>2 DEF Reaches, containers, Depth
<1>4. ASSUME NEW e \in Entries, VisitDir(e) PROVE Reaches'
  <2>1. /\ Yields(e) /\ Kind[Target(e)] = "dir" /\ Enter(e) /\ status' = status
        /\ container_at_depth' = Append(SubSeq(containers, 1, Depth), next_id)
    BY <1>4, TargetType DEF VisitDir, Visits
  <2>2. Len(open') = Depth + 1
    BY <2>1, EnterType DEF Inv
  <2>3. containers \in Seq(Nat) /\ Depth <= Len(containers) /\ Len(containers) \in Nat
        /\ next_id \in Nat
    BY <1>1, <1>2 DEF Inv, TypeOK, containers, Orphan
  <2>4. Len(container_at_depth') = Depth + 1
    BY <1>2, <2>1, <2>3
  <2> QED
    BY <1>2, <2>1, <2>2, <2>4 DEF Reaches, Depth
<1>5. ASSUME NEW e \in Entries, VisitOther(e) PROVE Reaches'
  <2>1. Yields(e) /\ FileType(e) # "dir" /\ media' = media /\ status' = status
        /\ container_at_depth' = containers
    BY <1>5 DEF VisitOther, Visits
  <2>2. ~Descends(e, Depth)
    <3> SUFFICES ASSUME Descends(e, Depth) PROVE FALSE
      OBVIOUS
    <3>1. Depth = 0 /\ Kind[Target(e)] = "dir"
      BY <2>1 DEF Descends
    <3>2. e \in Links /\ ~media.follow
      BY <2>1, <3>1 DEF FileType
    <3>3. open = <<>>
      BY <3>1 DEF Depth, Inv, TypeOK
    <3>4. at' \in 1 .. Len(media.roots) /\ e = media.roots[at']
      BY <2>1, <3>3, WalkType DEF Inv
    <3> QED
      BY <3>2, <3>4, <2>1 DEF LinkedRoot
  <2>3. open' = Consumed(e)
    BY <1>5, <2>2 DEF VisitOther
  <2> QED
    BY <1>3, <2>1, <2>3
<1>6. ASSUME NEW e \in Entries, Skip(e) \/ VisitAudio(e) PROVE Reaches'
  BY <1>3, <1>6 DEF Skip, VisitAudio, Visits
<1>7. ASSUME NEW e \in Entries, Panic(e) PROVE Reaches'
  BY <1>1, <1>7 DEF Panic
<1>8. CASE Leave
  <2>1. open \in Seq(Frame) /\ Len(open) \in Nat \ {0}
    BY <1>8 DEF Leave, Inv, TypeOK, Frame
  <2>2. Len(open') = Len(open) - 1
    BY <1>8, <2>1, FrontType DEF Leave
  <2> QED
    BY <1>2, <1>8, <2>2 DEF Leave, Reaches, Depth
<1>9. CASE Build
  BY <1>9 DEF Build, Reaches, Depth
<1>10. CASE UNCHANGED vars
  BY <1>10 DEF vars, Reaches, Depth
<1> QED
  BY <1>4, <1>5, <1>6, <1>7, <1>8, <1>9, <1>10 DEF Next

LEMMA MediaFixed == [Next]_vars => media' = media
BY DEF Next, vars, Skip, VisitDir, VisitAudio, VisitOther, Panic, Leave, Build

(* The converse of the linked-root finding: for every tree and every       *)
(* configuration, container_at_depth[depth - 1] (scanner.rs:63) can be out *)
(* of bounds only when links are not followed and a configured directory   *)
(* is itself a link.                                                       *)
THEOREM NoOtherPanics == Spec => []OnlyLinkedRootsPanic
<1>1. Init => Reaches
  BY DEF Init, Reaches
<1>2. Inv /\ (LinkedRoot \/ Reaches) /\ [Next]_vars => (LinkedRoot \/ Reaches)'
  <2> SUFFICES ASSUME Inv, LinkedRoot \/ Reaches, [Next]_vars
               PROVE  LinkedRoot' \/ Reaches'
    OBVIOUS
  <2>1. CASE LinkedRoot
    BY <2>1, MediaFixed DEF LinkedRoot
  <2>2. CASE ~LinkedRoot
    BY <2>2, StepReaches
  <2> QED
    BY <2>1, <2>2
<1>3. LinkedRoot \/ Reaches => OnlyLinkedRootsPanic
  BY DEF Reaches, OnlyLinkedRootsPanic
<1> QED
  BY <1>1, <1>2, <1>3, InitInv, StepInv, PTL DEF Spec

-----------------------------------------------------------------------------
(* A finished scan has found everything there was to find, and nothing     *)
(* twice.  The paths a walk should come along are pending, which is to be  *)
(* read off walkdir's stack, or dealt with: an error hides them, or they   *)
(* are filed.  Whatever an entry is, its own path and all paths below it   *)
(* are pending before it is yielded, and no path else changes sides.       *)

(* A path goes on from its n-th entry to the next.                         *)
Goes(path, n) ==
  /\ Descends(path[n], n - 1)
  /\ path[n + 1] \in Inside[Target(path[n])] \ Excluded
  /\ ~(/\ path[n + 1] \in Links /\ media.follow
       /\ \E i \in 1 .. n : Target(path[i]) = Target(path[n + 1]))

Leads(walk, path) ==
  /\ path \in Seq(Entries) /\ path # <<>>
  /\ path[1] = media.roots[walk]
  /\ \A n \in 1 .. Len(path) - 1 : Goes(path, n)

Below(path, top) == Len(top) <= Len(path) /\ \A i \in 1 .. Len(top) : path[i] = top[i]

Hidden(walk, path) == \E f \in failed : f[1] = walk /\ Below(path, f[2])

Pending(walk, path) ==
  /\ walk = at
  /\ \E d \in 1 .. Depth :
       /\ d < Len(path) /\ \A i \in 1 .. d : path[i] = open[i].entry
       /\ path[d + 1] \in open[d].rest

Found(walk, path) ==
  \E id \in 1 .. next_id - 1 : nodes[id].walk = walk /\ nodes[id].path = path

Listed(path) == FileType(path[Len(path)]) \in {"dir", "audio"}

(* Where the walk is.                                                      *)
OpenInv ==
  Depth > 0 =>
    /\ Leads(at, OpenPath(Depth)) /\ ~Hidden(at, OpenPath(Depth))
    /\ Descends(open[Depth].entry, Depth - 1)
    /\ \A d \in 1 .. Depth : open[d].rest \subseteq Inside[Target(open[d].entry)]
    /\ \A d \in 1 .. Depth - 1 : open[d + 1].entry \notin open[d].rest

(* What was filed, and what an error was reported for, was to be met, and  *)
(* will not be met again.                                                  *)
SoundInv ==
  \A id \in 1 .. next_id - 1 :
    LET walk == nodes[id].walk  path == nodes[id].path
    IN /\ walk \in 1 .. at /\ Leads(walk, path) /\ Listed(path)
       /\ ~Hidden(walk, path) /\ ~Pending(walk, path)

FailedInv ==
  \A f \in failed : f[1] \in 1 .. at /\ f[2] # <<>> /\ ~Pending(f[1], f[2])

UniqueInv ==
  \A id, other \in 1 .. next_id - 1 :
    nodes[id].walk = nodes[other].walk /\ nodes[id].path = nodes[other].path => id = other

(* What is not pending any more was dealt with.                            *)
CompleteInv ==
  \A walk \in 1 .. at : \A path \in Seq(Entries) :
    Leads(walk, path) =>
      Pending(walk, path) \/ Hidden(walk, path) \/ (Listed(path) => Found(walk, path))

BuiltInv == status = "built" => open = <<>> /\ at = Len(media.roots)

FindInv == OpenInv /\ SoundInv /\ FailedInv /\ UniqueInv /\ CompleteInv /\ BuiltInv

-----------------------------------------------------------------------------
(* One entry.                                                              *)

(* A stretch of a path leads where it led.                                 *)
LEMMA GoesSame ==
  ASSUME NEW p, NEW q, NEW n \in Nat, n >= 1, \A i \in 1 .. n + 1 : p[i] = q[i], Goes(p, n)
  PROVE  Goes(q, n)
<1>1. p[n] = q[n] /\ p[n + 1] = q[n + 1] /\ \A i \in 1 .. n : p[i] = q[i]
  <2>1. n \in 1 .. n + 1 /\ n + 1 \in 1 .. n + 1 /\ 1 .. n \subseteq 1 .. n + 1
    OBVIOUS
  <2> QED BY <2>1
<1> QED BY <1>1 DEF Goes

(* What walkdir's stack is like, in terms of OpenPath.                     *)
LEMMA OpenType ==
  ASSUME TypeOK
  PROVE  /\ Depth \in Nat /\ Depth = Len(open) /\ open \in Seq(Frame)
         /\ \A d \in 1 .. Depth : open[d] \in Frame /\ open[d].entry \in Entries
         /\ \A d \in 0 .. Depth : /\ OpenPath(d) \in Seq(Entries) /\ Len(OpenPath(d)) = d
                                  /\ \A i \in 1 .. d : OpenPath(d)[i] = open[i].entry
         /\ failed \subseteq Nat \X Seq(Entries) /\ at \in Nat
<1>1. Depth \in Nat /\ Depth = Len(open) /\ open \in Seq(Frame)
  BY DEF TypeOK, Depth, Frame
<1>2. ASSUME NEW d \in 1 .. Depth PROVE open[d] \in Frame /\ open[d].entry \in Entries
  <2>1. open[d] \in Frame
    BY <1>1
  <2> QED BY <2>1 DEF Frame
<1>3. ASSUME NEW d \in 0 .. Depth
      PROVE  /\ OpenPath(d) \in Seq(Entries) /\ Len(OpenPath(d)) = d
             /\ \A i \in 1 .. d : OpenPath(d)[i] = open[i].entry
  BY <1>1, <1>2 DEF OpenPath
<1>4. media.roots \in Seq(Entries)
  BY ConfigAssumption DEF TypeOK
<1>5. at \in Nat
  BY <1>4 DEF TypeOK
<1> QED BY <1>1, <1>2, <1>3, <1>5 DEF TypeOK

(* Before an entry is yielded, nothing at or below its path was dealt with.*)
LEMMA Untouched ==
  ASSUME Inv, FindInv, NEW e \in Entries, Yields(e), NEW P, P = PathTo(e)
  PROVE  /\ \A id \in 1 .. next_id - 1 : nodes[id].walk = at' => ~Below(nodes[id].path, P)
         /\ \A f \in failed : f[1] = at' => ~Below(f[2], P)
         /\ ~Hidden(at', P)
<1>1. /\ P \in Seq(Entries) /\ Len(P) = Depth + 1 /\ P[Depth + 1] = e
      /\ \A i \in 1 .. Depth : P[i] = open[i].entry
  BY PathType DEF Inv
<1>2. Depth \in Nat /\ at \in Nat /\ failed \subseteq Nat \X Seq(Entries)
  BY OpenType DEF Inv
<1>3. CASE open = <<>>
  <2>1. at' = at + 1
    BY <1>3 DEF Yields, Starts, Continues
  <2>2. Depth = 0
    BY <1>3 DEF Depth
  <2>3. \A id \in 1 .. next_id - 1 : nodes[id].walk # at'
    BY <1>2, <2>1 DEF FindInv, SoundInv
  <2>4. \A f \in failed : f[1] # at'
    BY <1>2, <2>1 DEF FindInv, FailedInv
  <2> QED BY <2>3, <2>4 DEF Hidden
<1>4. CASE open # <<>>
  <2>1. at' = at /\ e \in open[Depth].rest /\ Depth > 0
    BY <1>2, <1>4 DEF Yields, Starts, Continues, Depth, Inv, TypeOK
  <2>2. ASSUME NEW q, Len(q) \in Nat, Below(q, P) PROVE Pending(at', q)
    <3>1. Depth < Len(q) /\ (\A i \in 1 .. Depth + 1 : q[i] = P[i])
      BY <1>1, <1>2, <2>2 DEF Below
    <3>2. (\A i \in 1 .. Depth : q[i] = open[i].entry) /\ q[Depth + 1] = e
      BY <1>1, <1>2, <3>1
    <3>3. Depth \in 1 .. Depth
      BY <1>2, <2>1
    <3> QED BY <2>1, <3>1, <3>2, <3>3 DEF Pending
  <2>3. \A id \in 1 .. next_id - 1 : nodes[id].walk = at' => ~Below(nodes[id].path, P)
    <3>1. \A id \in 1 .. next_id - 1 : Len(nodes[id].path) \in Nat
      BY DEF Inv, TypeOK, TreeInv, Filed
    <3> QED BY <2>1, <2>2, <3>1 DEF FindInv, SoundInv
  <2>4. \A f \in failed : f[1] = at' => ~Below(f[2], P)
    BY <1>2, <2>1, <2>2 DEF FindInv, FailedInv
  <2>5. ASSUME NEW f \in failed, f[1] = at', Below(P, f[2]) PROVE FALSE
    <3>1. f[2] \in Seq(Entries) /\ Len(f[2]) \in Nat /\ Len(f[2]) <= Depth + 1
      BY <1>1, <1>2, <2>5 DEF Below
    <3>2. CASE Len(f[2]) = Depth + 1
      BY <1>1, <2>4, <2>5, <3>2 DEF Below
    <3>3. CASE Len(f[2]) <= Depth
      <4>1. Below(OpenPath(Depth), f[2])
        <5>1. /\ Len(OpenPath(Depth)) = Depth
              /\ \A i \in 1 .. Depth : OpenPath(Depth)[i] = open[i].entry
          BY <1>2, OpenType DEF Inv
        <5>2. \A i \in 1 .. Len(f[2]) : i \in 1 .. Depth /\ P[i] = f[2][i]
          BY <1>2, <2>5, <3>1, <3>3 DEF Below
        <5> QED BY <1>1, <3>3, <5>1, <5>2 DEF Below
      <4> QED BY <2>1, <2>5, <4>1 DEF FindInv, OpenInv, Hidden
    <3> QED BY <1>2, <3>1, <3>2, <3>3
  <2> QED BY <2>3, <2>4, <2>5 DEF Hidden
<1> QED BY <1>3, <1>4

(* walkdir took e off the listing, and went into it to list R.             *)
Turned(e, into, R) ==
  IF into THEN open' = Append(Consumed(e), [entry |-> e, rest |-> R])
  ELSE open' = Consumed(e) /\ R = {}

LEMMA TurnedStack ==
  ASSUME Inv, NEW e \in Entries, Yields(e), NEW into \in BOOLEAN, NEW R \in SUBSET Entries,
         Turned(e, into, R)
  PROVE  /\ Depth' = (IF into THEN Depth + 1 ELSE Depth)
         /\ \A d \in 1 .. Depth : open'[d].entry = open[d].entry
         /\ \A d \in 1 .. Depth - 1 : open'[d].rest = open[d].rest
         /\ Depth > 0 => open'[Depth].rest = open[Depth].rest \ {e}
         /\ into => open'[Depth + 1].entry = e /\ open'[Depth + 1].rest = R
         /\ Depth = 0 => at' = at + 1
         /\ Depth > 0 => at' = at /\ e \in open[Depth].rest
<1>1. /\ Depth \in Nat /\ Depth = Len(open) /\ open \in Seq(Frame)
      /\ \A d \in 1 .. Depth : open[d] \in Frame
  BY OpenType DEF Inv
<1>2. /\ Consumed(e) \in Seq(Frame) /\ Len(Consumed(e)) = Depth
      /\ \A i \in 1 .. Depth : Consumed(e)[i].entry = open[i].entry
  BY ConsumedType DEF Inv
<1>3. Depth > 0 => /\ \A d \in 1 .. Depth - 1 : Consumed(e)[d].rest = open[d].rest
                   /\ Consumed(e)[Depth].rest = open[Depth].rest \ {e}
  <2> SUFFICES ASSUME Depth > 0
               PROVE  /\ \A d \in 1 .. Depth - 1 : Consumed(e)[d].rest = open[d].rest
                      /\ Consumed(e)[Depth].rest = open[Depth].rest \ {e}
    OBVIOUS
  <2>1. Consumed(e) = [open EXCEPT ![Depth] = [open[Depth] EXCEPT !.rest = @ \ {e}]]
    BY <1>1 DEF Consumed
  <2>2. ASSUME NEW f \in Frame PROVE [f EXCEPT !.rest = @ \ {e}].rest = f.rest \ {e}
    BY DEF Frame
  <2>3. open[Depth] \in Frame /\ Depth \in DOMAIN open
    BY <1>1
  <2>4. Consumed(e)[Depth].rest = open[Depth].rest \ {e}
    BY <2>1, <2>2, <2>3
  <2>5. ASSUME NEW d \in 1 .. Depth - 1 PROVE Consumed(e)[d].rest = open[d].rest
    BY <1>1, <2>1
  <2> QED BY <2>4, <2>5
<1>4. /\ Depth' = (IF into THEN Depth + 1 ELSE Depth)
      /\ \A d \in 1 .. Depth : open'[d] = Consumed(e)[d]
      /\ into => open'[Depth + 1].entry = e /\ open'[Depth + 1].rest = R
  <2>1. CASE into
    <3> DEFINE frame == [entry |-> e, rest |-> R]
    <3>1. frame \in Frame /\ frame.entry = e /\ frame.rest = R
      BY DEF Frame
    <3>2. open' = Append(Consumed(e), frame)
      BY <2>1 DEF Turned
    <3> HIDE DEF frame
    <3>3. /\ Len(open') = Depth + 1 /\ open'[Depth + 1] = frame
          /\ \A d \in 1 .. Depth : open'[d] = Consumed(e)[d]
      BY <1>1, <1>2, <3>1, <3>2, AppendProperties
    <3> QED BY <2>1, <3>1, <3>3 DEF Depth
  <2>2. CASE ~into
    BY <1>2, <2>2 DEF Turned, Depth
  <2> QED BY <2>1, <2>2
<1>5. (Depth = 0 => at' = at + 1) /\ (Depth > 0 => at' = at /\ e \in open[Depth].rest)
  <2>1. Depth = 0 <=> open = <<>>
    BY <1>1
  <2> QED BY <2>1 DEF Yields, Starts, Continues
<1> QED BY <1>1, <1>2, <1>3, <1>4, <1>5

(* What is pending then: what was, but for the path of e and those below,  *)
(* and of those the ones that go on with an entry listed.                  *)
LEMMA PendingTurned ==
  ASSUME Inv, OpenInv, NEW e \in Entries, Yields(e), NEW into \in BOOLEAN,
         NEW R \in SUBSET Entries, Turned(e, into, R), NEW P, P = PathTo(e),
         NEW walk, NEW q \in Seq(Entries)
  PROVE  /\ Pending(walk, q)' =>
              \/ Pending(walk, q) /\ ~(walk = at' /\ Below(q, P))
              \/ walk = at' /\ Below(q, P) /\ Len(q) > Depth + 1 /\ q[Depth + 2] \in R
         /\ Pending(walk, q) => Pending(walk, q)' \/ (walk = at' /\ Below(q, P))
         /\ into /\ walk = at' /\ Below(q, P) /\ Len(q) > Depth + 1 /\ q[Depth + 2] \in R
              => Pending(walk, q)'
<1>1. /\ P \in Seq(Entries) /\ Len(P) = Depth + 1 /\ P[Depth + 1] = e
      /\ \A i \in 1 .. Depth : P[i] = open[i].entry
  BY PathType DEF Inv
<1>2. Depth \in Nat /\ at \in Nat /\ Len(q) \in Nat
  BY OpenType DEF Inv
<1>3. /\ Depth' = (IF into THEN Depth + 1 ELSE Depth)
      /\ \A d \in 1 .. Depth : open'[d].entry = open[d].entry
      /\ \A d \in 1 .. Depth - 1 : open'[d].rest = open[d].rest
      /\ Depth > 0 => open'[Depth].rest = open[Depth].rest \ {e}
      /\ into => open'[Depth + 1].entry = e /\ open'[Depth + 1].rest = R
      /\ Depth = 0 => at' = at + 1
      /\ Depth > 0 => at' = at /\ e \in open[Depth].rest
  BY TurnedStack
<1>4. ASSUME NEW d \in 1 .. Depth, d < Len(q), \A i \in 1 .. d : q[i] = open[i].entry,
             q[d + 1] \in open[d].rest, Below(q, P)
      PROVE  d = Depth /\ q[d + 1] = e
  <2>1. CASE d < Depth
    <3>1. q[d + 1] = open[d + 1].entry /\ d \in 1 .. Depth - 1
      BY <1>1, <1>2, <1>4, <2>1 DEF Below
    <3> QED BY <1>2, <1>4, <2>1, <3>1 DEF OpenInv
  <2>2. CASE d = Depth
    BY <1>1, <1>2, <1>4, <2>2 DEF Below
  <2> QED BY <1>2, <2>1, <2>2
<1>5. ASSUME Pending(walk, q)'
      PROVE  \/ Pending(walk, q) /\ ~(walk = at' /\ Below(q, P))
             \/ walk = at' /\ Below(q, P) /\ Len(q) > Depth + 1 /\ q[Depth + 2] \in R
  <2>1. PICK d \in 1 .. Depth' : /\ walk = at' /\ d < Len(q)
                                 /\ \A i \in 1 .. d : q[i] = open'[i].entry
                                 /\ q[d + 1] \in open'[d].rest
    BY <1>5 DEF Pending
  <2>2. CASE d \in 1 .. Depth
    <3>1. at' = at /\ \A i \in 1 .. d : q[i] = open[i].entry
      BY <1>2, <1>3, <2>1, <2>2
    <3>2. q[d + 1] \in open[d].rest /\ (d = Depth => q[d + 1] # e)
      <4>1. CASE d = Depth
        BY <1>2, <1>3, <2>1, <2>2, <4>1
      <4>2. CASE d # Depth
        <5>1. d \in 1 .. Depth - 1
          BY <1>2, <2>2, <4>2
        <5> QED BY <1>3, <2>1, <4>2, <5>1
      <4> QED BY <4>1, <4>2
    <3>3. Pending(walk, q)
      BY <2>1, <2>2, <3>1, <3>2 DEF Pending
    <3> QED BY <1>4, <2>1, <2>2, <3>1, <3>2, <3>3
  <2>3. CASE d \notin 1 .. Depth
    <3>1. d = Depth + 1 /\ into
      BY <1>2, <1>3, <2>1, <2>3
    <3>2. \A i \in 1 .. Depth + 1 : q[i] = P[i]
      BY <1>1, <1>2, <1>3, <2>1, <3>1
    <3>3. d + 1 = Depth + 2 /\ Depth + 1 <= Len(q)
      BY <1>2, <2>1, <3>1
    <3> QED BY <1>1, <1>3, <2>1, <3>1, <3>2, <3>3 DEF Below
  <2> QED BY <2>2, <2>3
<1>6. ASSUME Pending(walk, q), ~(walk = at' /\ Below(q, P)) PROVE Pending(walk, q)'
  <2>1. PICK d \in 1 .. Depth : /\ walk = at /\ d < Len(q)
                                /\ \A i \in 1 .. d : q[i] = open[i].entry
                                /\ q[d + 1] \in open[d].rest
    BY <1>6 DEF Pending
  <2>2. at' = at /\ d \in 1 .. Depth' /\ \A i \in 1 .. d : q[i] = open'[i].entry
    BY <1>2, <1>3, <2>1
  <2>3. q[d + 1] \in open'[d].rest
    <3>1. CASE d = Depth
      <4>1. q[d + 1] # e
        <5> SUFFICES ASSUME q[d + 1] = e PROVE Below(q, P)
          BY <1>6, <2>1, <2>2
        <5>1. \A i \in 1 .. Depth + 1 : i \in 1 .. Depth \/ i = Depth + 1
          BY <1>2
        <5> QED BY <1>1, <1>2, <2>1, <3>1, <5>1 DEF Below
      <4> QED BY <1>2, <1>3, <2>1, <3>1, <4>1
    <3>2. CASE d # Depth
      <4>1. d \in 1 .. Depth - 1
        BY <1>2, <2>1, <3>2
      <4> QED BY <1>3, <2>1, <4>1
    <3> QED BY <3>1, <3>2
  <2> QED BY <2>1, <2>2, <2>3 DEF Pending
<1>7. ASSUME into, walk = at', Below(q, P), Len(q) > Depth + 1, q[Depth + 2] \in R
      PROVE  Pending(walk, q)'
  <2> DEFINE d == Depth + 1
  <2>1. d \in 1 .. Depth' /\ d < Len(q) /\ q[d + 1] \in open'[d].rest
    BY <1>2, <1>3, <1>7
  <2>2. ASSUME NEW i \in 1 .. d PROVE q[i] = open'[i].entry
    <3>1. CASE i = d
      BY <1>1, <1>2, <1>3, <1>7, <3>1 DEF Below
    <3>2. CASE i # d
      <4>1. i \in 1 .. Depth
        BY <1>2, <3>2
      <4> QED BY <1>1, <1>2, <1>3, <1>7, <4>1 DEF Below
    <3> QED BY <3>1, <3>2
  <2> HIDE DEF d
  <2> QED BY <1>7, <2>1, <2>2 DEF Pending
<1>8. Pending(walk, q) => Pending(walk, q)' \/ (walk = at' /\ Below(q, P))
  BY <1>6
<1>9. into /\ walk = at' /\ Below(q, P) /\ Len(q) > Depth + 1 /\ q[Depth + 2] \in R
        => Pending(walk, q)'
  BY <1>7
<1> QED BY <1>5, <1>8, <1>9

(* What an entry has to come to: the node filed for it, if any, the errors *)
(* reported and the listing gone into deal with its path and those below.  *)
Dealt(e, into, R, adds, w, P) ==
  /\ media' = media /\ status' = status /\ w = at' /\ P = PathTo(e)
  /\ Yields(e) /\ Turned(e, into, R)
  /\ into => Leads(w, P) /\ Descends(e, Depth) /\ R \subseteq Inside[Target(e)]
  /\ adds => Leads(w, P) /\ Listed(P)
  /\ IF adds THEN /\ next_id' = next_id + 1
                  /\ nodes'[next_id].walk = w /\ nodes'[next_id].path = P
     ELSE next_id' = next_id
  /\ \A id \in 1 .. next_id - 1 :
       nodes'[id].walk = nodes[id].walk /\ nodes'[id].path = nodes[id].path
  /\ failed \subseteq failed'
  /\ \A f \in failed' \ failed :
       /\ f[1] = w /\ Below(f[2], P)
       /\ IF Len(f[2]) = Depth + 1 THEN ~into /\ ~adds ELSE R = {}
  /\ \A q \in Seq(Entries) : Leads(w, q) /\ Below(q, P) =>
       \/ \E f \in failed' : f[1] = w /\ Below(q, f[2])
       \/ into /\ Len(q) > Depth + 1 /\ q[Depth + 2] \in R
       \/ Len(q) = Depth + 1 /\ (Listed(q) => adds)

(* Of two paths below each other neither is longer.                        *)
LEMMA BelowBoth ==
  ASSUME NEW p \in Seq(Entries), NEW q \in Seq(Entries), Below(p, q)
  PROVE  /\ Len(p) \in Nat /\ Len(q) \in Nat /\ Len(q) <= Len(p)
         /\ Len(p) = Len(q) => p = q
         /\ \A r \in Seq(Entries) : Below(q, r) => Below(p, r)
<1>1. Len(p) \in Nat /\ Len(q) \in Nat /\ Len(q) <= Len(p) /\ \A i \in 1 .. Len(q) : p[i] = q[i]
  BY DEF Below
<1>2. Len(p) = Len(q) => p = q
  BY <1>1, SeqEqual
<1>3. ASSUME NEW r \in Seq(Entries), Below(q, r) PROVE Below(p, r)
  <2>1. Len(r) \in Nat /\ Len(r) <= Len(q) /\ \A i \in 1 .. Len(r) : q[i] = r[i]
    BY <1>3 DEF Below
  <2> QED BY <1>1, <2>1 DEF Below
<1> QED BY <1>1, <1>2, <1>3

(* The configuration stays, and with it what paths there are.              *)
LEMMA LeadsSame ==
  ASSUME media' = media
  PROVE  /\ \A walk, path : Leads(walk, path)' <=> Leads(walk, path)
         /\ \A x, n : Descends(x, n)' <=> Descends(x, n)
         /\ \A path : Listed(path)' <=> Listed(path)
BY DEF Leads, Goes, Descends, Listed, FileType

LEMMA OpenDealt ==
  ASSUME Inv, Inv', FindInv, NEW e \in Entries, NEW into \in BOOLEAN, NEW R \in SUBSET Entries,
         NEW adds \in BOOLEAN, NEW w, NEW P, Dealt(e, into, R, adds, w, P)
  PROVE  OpenInv'
<1>1. /\ P \in Seq(Entries) /\ Len(P) = Depth + 1 /\ P[Depth + 1] = e
      /\ \A i \in 1 .. Depth : P[i] = open[i].entry
  BY PathType DEF Inv, Dealt
<1>a. /\ Depth \in Nat /\ Len(OpenPath(Depth)) = Depth /\ OpenPath(Depth) \in Seq(Entries)
      /\ \A i \in 1 .. Depth : OpenPath(Depth)[i] = open[i].entry
  <2>1. Depth \in Nat /\ Depth \in 0 .. Depth
    BY OpenType DEF Inv
  <2> QED BY <2>1, OpenType DEF Inv
<1>b. failed' \subseteq Nat \X Seq(Entries)
  BY DEF Inv, TypeOK
<1>2. /\ Depth \in Nat /\ Len(OpenPath(Depth)) = Depth /\ OpenPath(Depth) \in Seq(Entries)
      /\ failed' \subseteq Nat \X Seq(Entries)
  BY <1>a, <1>b
<1>3. /\ Depth' = (IF into THEN Depth + 1 ELSE Depth)
      /\ \A d \in 1 .. Depth : open'[d].entry = open[d].entry
      /\ \A d \in 1 .. Depth - 1 : open'[d].rest = open[d].rest
      /\ Depth > 0 => open'[Depth].rest = open[Depth].rest \ {e}
      /\ into => open'[Depth + 1].entry = e /\ open'[Depth + 1].rest = R
      /\ Depth > 0 => at' = at
  BY TurnedStack DEF Dealt
<1>4. ~Hidden(w, P) /\ w = at' /\ media' = media
  BY Untouched DEF Dealt
<1>5. ASSUME NEW d \in 1 .. Depth PROVE open'[d].rest \subseteq Inside[Target(open'[d].entry)]
  <2>1. open[d].rest \subseteq Inside[Target(open[d].entry)]
    BY <1>2 DEF FindInv, OpenInv
  <2>2. open'[d].rest \subseteq open[d].rest
    <3>1. CASE d = Depth
      BY <1>2, <1>3, <3>1
    <3>2. CASE d # Depth
      <4>1. d \in 1 .. Depth - 1
        BY <1>2, <3>2
      <4> QED BY <1>3, <4>1
    <3> QED BY <3>1, <3>2
  <2> QED BY <1>3, <2>1, <2>2
<1>6. ASSUME NEW d \in 1 .. Depth - 1 PROVE open'[d + 1].entry \notin open'[d].rest
  <2>1. open[d + 1].entry \notin open[d].rest /\ d + 1 \in 1 .. Depth
    BY <1>2 DEF FindInv, OpenInv
  <2> QED BY <1>3, <2>1
<1>7. CASE into
  <2>1. Depth' = Depth + 1 /\ Leads(w, P) /\ Descends(e, Depth) /\ R \subseteq Inside[Target(e)]
    BY <1>3, <1>7 DEF Dealt
  <2>2. \A i \in 1 .. Depth + 1 : open'[i].entry = P[i]
    <3>1. \A i \in 1 .. Depth + 1 : i \in 1 .. Depth \/ i = Depth + 1
      BY <1>2
    <3> QED BY <1>1, <1>3, <1>7, <3>1
  <2>3. OpenPath(Depth)' = P
    <3>1. P = [i \in 1 .. Depth + 1 |-> P[i]]
      BY <1>1
    <3> QED BY <2>1, <2>2, <3>1 DEF OpenPath
  <2>4. Leads(w, P)'
    BY <1>4, <2>1, LeadsSame
  <2>5. ~Hidden(w, P)'
    <3> SUFFICES ASSUME NEW f \in failed', f[1] = w, Below(P, f[2]) PROVE FALSE
      BY DEF Hidden
    <3>1. f \notin failed
      BY <1>4 DEF Hidden
    <3>2. Below(f[2], P) /\ f[2] \in Seq(Entries) /\ Len(f[2]) # Depth + 1
      BY <1>2, <1>7, <3>1 DEF Dealt
    <3> QED BY <1>1, <3>2, BelowBoth
  <2>6. \A d \in 1 .. Depth + 1 : open'[d].rest \subseteq Inside[Target(open'[d].entry)]
    <3>1. \A i \in 1 .. Depth + 1 : i \in 1 .. Depth \/ i = Depth + 1
      BY <1>2
    <3> QED BY <1>3, <1>5, <1>7, <2>1, <3>1
  <2>7. \A d \in 1 .. Depth : open'[d + 1].entry \notin open'[d].rest
    <3>1. \A i \in 1 .. Depth : i \in 1 .. Depth - 1 \/ i = Depth
      BY <1>2
    <3> QED BY <1>2, <1>3, <1>6, <1>7, <3>1
  <2>8. Descends(open'[Depth'].entry, Depth' - 1)
    <3>1. Depth' - 1 = Depth /\ open'[Depth'].entry = e
      BY <1>2, <1>3, <1>7, <2>1
    <3> QED BY <2>1, <3>1
  <2>9. /\ Leads(at, OpenPath(Depth))' /\ ~Hidden(at, OpenPath(Depth))'
        /\ Descends(open[Depth].entry, Depth - 1)'
    BY <1>4, <2>3, <2>4, <2>5, <2>8, LeadsSame
  <2>10. Depth' - 1 = Depth
    BY <1>2, <2>1
  <2> QED BY <2>1, <2>6, <2>7, <2>9, <2>10 DEF OpenInv
<1>8. CASE ~into
  <2> SUFFICES ASSUME Depth > 0 PROVE OpenInv'
    BY <1>3, <1>8 DEF OpenInv
  <2>1. Depth' = Depth /\ at' = at /\ w = at
    BY <1>3, <1>4, <1>8
  <2>2. OpenPath(Depth)' = OpenPath(Depth)
    BY <1>3, <2>1 DEF OpenPath
  <2>3. /\ Leads(at, OpenPath(Depth)) /\ ~Hidden(at, OpenPath(Depth))
        /\ Descends(open[Depth].entry, Depth - 1)
    BY DEF FindInv, OpenInv
  <2> DEFINE q == OpenPath(Depth)
  <2>4. PICK way : way = q
    OBVIOUS
  <2>5. Leads(w, way)' /\ Descends(open'[Depth'].entry, Depth' - 1)
    <3>1. open'[Depth].entry = open[Depth].entry
      BY <1>2, <1>3
    <3> QED BY <1>4, <2>1, <2>3, <2>4, <3>1, LeadsSame
  <2>6. ~Hidden(w, way)'
    <3> SUFFICES ASSUME NEW f \in failed', f[1] = w, Below(way, f[2]) PROVE FALSE
      BY DEF Hidden
    <3>1. f \notin failed
      BY <2>1, <2>3, <2>4 DEF Hidden
    <3>2. Below(f[2], P) /\ f[2] \in Seq(Entries)
      BY <1>2, <3>1 DEF Dealt
    <3> QED BY <1>1, <1>2, <2>4, <3>2, BelowBoth
  <2>7. /\ Leads(at, OpenPath(Depth))' /\ ~Hidden(at, OpenPath(Depth))'
        /\ Descends(open[Depth].entry, Depth - 1)'
    BY <1>4, <2>1, <2>2, <2>4, <2>5, <2>6, LeadsSame
  <2> QED BY <1>5, <1>6, <2>1, <2>7 DEF OpenInv
<1> QED BY <1>7, <1>8

(* What there is before an entry, and after it.                            *)
AtHand(adds, w, P) ==
  /\ P \in Seq(Entries) /\ Len(P) = Depth + 1 /\ Depth \in Nat
  /\ at \in Nat /\ w = at' /\ w \in Nat /\ w >= 1 /\ at <= w /\ w <= at + 1
  /\ w = at \/ Depth = 0
  /\ next_id \in Nat /\ next_id >= 1
  /\ \A id \in 1 .. next_id - 1 : nodes[id].path \in Seq(Entries)
  /\ \A f \in failed' : f[2] \in Seq(Entries)
  /\ \A id \in 1 .. next_id' - 1 :
       \/ id \in 1 .. next_id - 1 /\ nodes'[id].walk = nodes[id].walk
                                  /\ nodes'[id].path = nodes[id].path
       \/ adds /\ id = next_id /\ nodes'[id].walk = w /\ nodes'[id].path = P
  /\ adds => next_id \in 1 .. next_id' - 1
  /\ \A id \in 1 .. next_id - 1 : id \in 1 .. next_id' - 1

LEMMA DealtTypes ==
  ASSUME Inv, Inv', FindInv, NEW e \in Entries, NEW into \in BOOLEAN, NEW R \in SUBSET Entries,
         NEW adds \in BOOLEAN, NEW w, NEW P, Dealt(e, into, R, adds, w, P)
  PROVE  AtHand(adds, w, P)
<1> USE DEF AtHand
<1>1. P \in Seq(Entries) /\ Len(P) = Depth + 1 /\ Depth \in Nat /\ at \in Nat
  BY PathType, OpenType DEF Inv, Dealt
<1>2. (Depth = 0 => at' = at + 1) /\ (Depth > 0 => at' = at) /\ w = at'
  BY TurnedStack DEF Dealt
<1>3. Depth > 0 => at >= 1
  <2>1. Depth > 0 => open # <<>>
    BY DEF Depth
  <2> QED BY <1>1, <2>1 DEF Inv, StackInv
<1>4. w \in Nat /\ w >= 1 /\ at <= w /\ w <= at + 1 /\ (w = at \/ Depth = 0)
  BY <1>1, <1>2, <1>3
<1>5. next_id \in Nat /\ next_id >= 1 /\ nodes \in [0 .. next_id - 1 -> Node]
  BY DEF Inv, TypeOK
<1>6. \A id \in 1 .. next_id - 1 : nodes[id].path \in Seq(Entries)
  BY <1>5 DEF Node
<1>7. \A f \in failed' : f[2] \in Seq(Entries)
  BY DEF Inv, TypeOK
<1>8. CASE adds
  <2>1. next_id' = next_id + 1 /\ nodes'[next_id].walk = w /\ nodes'[next_id].path = P
    BY <1>8 DEF Dealt
  <2>2. \A id \in 1 .. next_id' - 1 : id \in 1 .. next_id - 1 \/ id = next_id
    BY <1>5, <2>1
  <2>3. next_id \in 1 .. next_id' - 1 /\ \A id \in 1 .. next_id - 1 : id \in 1 .. next_id' - 1
    BY <1>5, <2>1
  <2> QED BY <1>1, <1>2, <1>4, <1>5, <1>6, <1>7, <1>8, <2>1, <2>2, <2>3 DEF Dealt
<1>9. CASE ~adds
  BY <1>1, <1>2, <1>4, <1>5, <1>6, <1>7, <1>9 DEF Dealt
<1> QED BY <1>8, <1>9

LEMMA SoundDealt ==
  ASSUME Inv, Inv', FindInv, NEW e \in Entries, NEW into \in BOOLEAN, NEW R \in SUBSET Entries,
         NEW adds \in BOOLEAN, NEW w, NEW P, Dealt(e, into, R, adds, w, P)
  PROVE  SoundInv' /\ FailedInv' /\ UniqueInv'
<1>0. AtHand(adds, w, P)
  BY DealtTypes
<1> USE <1>0 DEF AtHand
<1>1. /\ \A id \in 1 .. next_id - 1 : nodes[id].walk = w => ~Below(nodes[id].path, P)
      /\ \A f \in failed : f[1] = w => ~Below(f[2], P)
      /\ ~Hidden(w, P)
  BY Untouched DEF Dealt
<1>2. ASSUME NEW walk, NEW q \in Seq(Entries), Pending(walk, q)'
      PROVE  \/ Pending(walk, q) /\ ~(walk = w /\ Below(q, P))
             \/ walk = w /\ Below(q, P) /\ Len(q) > Depth + 1 /\ q[Depth + 2] \in R
  BY <1>2, PendingTurned DEF Dealt, FindInv
<1>3. \A f \in failed' \ failed :
        /\ f[1] = w /\ Below(f[2], P)
        /\ IF Len(f[2]) = Depth + 1 THEN ~into /\ ~adds ELSE R = {}
  BY DEF Dealt
<1>4. media' = media
  BY DEF Dealt
<1>5. Below(P, P)
  BY DEF Below
<1>6. ASSUME NEW v, NEW q \in Seq(Entries), NEW id \in 1 .. next_id - 1,
             v = nodes[id].walk, q = nodes[id].path
      PROVE  v \in 1 .. w /\ Leads(v, q)' /\ Listed(q)' /\ ~Hidden(v, q)' /\ ~Pending(v, q)'
  <2>1. /\ v \in 1 .. at /\ Leads(v, q) /\ Listed(q) /\ ~Hidden(v, q) /\ ~Pending(v, q)
        /\ v = w => ~Below(q, P)
    BY <1>1, <1>6 DEF FindInv, SoundInv
  <2>2. ASSUME NEW f \in failed', f[1] = v, Below(q, f[2]) PROVE FALSE
    <3>1. f \notin failed
      BY <2>1, <2>2 DEF Hidden
    <3>2. v = w /\ Below(f[2], P) /\ f[2] \in Seq(Entries)
      BY <1>3, <2>2, <3>1
    <3> QED BY <2>1, <2>2, <3>2, BelowBoth
  <2>3. ~Hidden(v, q)'
    BY <2>2 DEF Hidden
  <2>4. ~Pending(v, q)'
    BY <1>2, <2>1
  <2> QED BY <1>4, <2>1, <2>3, <2>4, LeadsSame
<1>7. ASSUME adds
      PROVE  w \in 1 .. w /\ Leads(w, P)' /\ Listed(P)' /\ ~Hidden(w, P)' /\ ~Pending(w, P)'
  <2>1. Leads(w, P) /\ Listed(P)
    BY <1>7 DEF Dealt
  <2>2. ASSUME NEW f \in failed', f[1] = w, Below(P, f[2]) PROVE FALSE
    <3>1. f \notin failed
      BY <1>1, <2>2 DEF Hidden
    <3>2. Below(f[2], P) /\ f[2] \in Seq(Entries) /\ Len(f[2]) # Depth + 1
      BY <1>3, <1>7, <3>1
    <3> QED BY <2>2, <3>2, BelowBoth
  <2>3. ~Hidden(w, P)'
    BY <2>2 DEF Hidden
  <2>4. ~Pending(w, P)'
    BY <1>2, <1>5
  <2> QED BY <1>4, <2>1, <2>3, <2>4, LeadsSame
<1>8. SoundInv'
  <2> SUFFICES ASSUME NEW id \in 1 .. next_id' - 1, NEW v, NEW q,
                      v = nodes'[id].walk, q = nodes'[id].path
               PROVE  /\ v \in 1 .. w /\ Leads(v, q)' /\ Listed(q)'
                      /\ ~Hidden(v, q)' /\ ~Pending(v, q)'
    BY DEF SoundInv
  <2>1. CASE id \in 1 .. next_id - 1 /\ v = nodes[id].walk /\ q = nodes[id].path
    BY <1>6, <2>1
  <2>2. CASE adds /\ v = w /\ q = P
    BY <1>7, <2>2
  <2> QED BY <2>1, <2>2
<1>9. FailedInv'
  <2> SUFFICES ASSUME NEW f \in failed', NEW v, NEW q, v = f[1], q = f[2]
               PROVE  v \in 1 .. w /\ q # <<>> /\ ~Pending(v, q)'
    BY DEF FailedInv
  <2>1. CASE f \in failed
    <3>1. v \in 1 .. at /\ q # <<>> /\ ~Pending(v, q) /\ (v = w => ~Below(q, P))
      BY <1>1, <2>1 DEF FindInv, FailedInv
    <3> QED BY <1>2, <3>1
  <2>2. CASE f \notin failed
    <3>1. /\ v = w /\ Below(q, P) /\ q \in Seq(Entries)
          /\ Len(q) = Depth + 1 \/ R = {}
      BY <1>3, <2>2
    <3>2. q # <<>>
      BY <3>1, BelowBoth
    <3> QED BY <1>2, <3>1, <3>2
  <2> QED BY <2>1, <2>2
<1>10. UniqueInv'
  <2>1. ASSUME NEW id \in 1 .. next_id - 1, NEW other \in 1 .. next_id - 1,
               nodes[id].walk = nodes[other].walk, nodes[id].path = nodes[other].path
        PROVE  id = other
    BY <2>1 DEF FindInv, UniqueInv
  <2>2. ASSUME NEW id \in 1 .. next_id - 1, nodes[id].walk = w, nodes[id].path = P PROVE FALSE
    BY <1>1, <1>5, <2>2
  <2> SUFFICES ASSUME NEW id \in 1 .. next_id' - 1, NEW other \in 1 .. next_id' - 1,
                      nodes'[id].walk = nodes'[other].walk, nodes'[id].path = nodes'[other].path
               PROVE  id = other
    BY DEF UniqueInv
  <2>3. CASE id \in 1 .. next_id - 1 /\ other \in 1 .. next_id - 1
    BY <2>1, <2>3 DEF Dealt
  <2>4. CASE id = next_id /\ other = next_id
    BY <2>4
  <2>5. CASE id = next_id /\ other \in 1 .. next_id - 1
    BY <2>2, <2>5
  <2>6. CASE id \in 1 .. next_id - 1 /\ other = next_id
    BY <2>2, <2>6
  <2> QED BY <2>3, <2>4, <2>5, <2>6
<1> QED BY <1>8, <1>9, <1>10

(* Whatever there is to find is still pending, or was dealt with.          *)
LEMMA CompleteDealt ==
  ASSUME Inv, Inv', FindInv, NEW e \in Entries, NEW into \in BOOLEAN, NEW R \in SUBSET Entries,
         NEW adds \in BOOLEAN, NEW w, NEW P, Dealt(e, into, R, adds, w, P)
  PROVE  CompleteInv'
<1>0. AtHand(adds, w, P)
  BY DealtTypes
<1> USE <1>0 DEF AtHand
<1> SUFFICES ASSUME NEW walk \in 1 .. w, NEW q \in Seq(Entries), Leads(walk, q)'
             PROVE  \/ Pending(walk, q)' \/ Hidden(walk, q)'
                    \/ (Listed(q)' => Found(walk, q)')
  BY DEF CompleteInv
<1>1. media' = media /\ Leads(walk, q) /\ (Listed(q)' <=> Listed(q))
  BY LeadsSame DEF Dealt
<1>2. CASE walk = w /\ Below(q, P)
  <2>1. \/ \E f \in failed' : f[1] = w /\ Below(q, f[2])
        \/ into /\ Len(q) > Depth + 1 /\ q[Depth + 2] \in R
        \/ Len(q) = Depth + 1 /\ (Listed(q) => adds)
    BY <1>1, <1>2 DEF Dealt
  <2>2. CASE \E f \in failed' : f[1] = w /\ Below(q, f[2])
    BY <1>2, <2>2 DEF Hidden
  <2>3. CASE into /\ Len(q) > Depth + 1 /\ q[Depth + 2] \in R
    <3>1. OpenInv /\ Yields(e) /\ Turned(e, into, R) /\ P = PathTo(e) /\ walk = at'
      BY <1>2 DEF Dealt, FindInv
    <3>2. into /\ walk = at' /\ Below(q, P) /\ Len(q) > Depth + 1 /\ q[Depth + 2] \in R
            => Pending(walk, q)'
      BY <3>1, PendingTurned
    <3> QED BY <1>2, <2>3, <3>1, <3>2
  <2>4. CASE Len(q) = Depth + 1 /\ (Listed(q) => adds)
    <3> SUFFICES ASSUME adds PROVE Found(walk, q)'
      BY <1>1, <2>4
    <3>1. q = P
      BY <1>2, <2>4, BelowBoth
    <3> QED BY <1>2, <3>1 DEF Found, Dealt
  <2> HIDE <1>0 DEF AtHand
  <2> QED BY <2>1, <2>2, <2>3, <2>4
<1>3. CASE ~(walk = w /\ Below(q, P))
  <2>1. CASE walk \in 1 .. at
    <3>1. Pending(walk, q) \/ Hidden(walk, q) \/ (Listed(q) => Found(walk, q))
      BY <1>1, <2>1 DEF FindInv, CompleteInv
    <3>2. Pending(walk, q) => Pending(walk, q)'
      BY <1>3, PendingTurned DEF Dealt, FindInv
    <3>3. Hidden(walk, q) => Hidden(walk, q)'
      BY DEF Hidden, Dealt
    <3>4. Found(walk, q) => Found(walk, q)'
      BY DEF Found, Dealt
    <3> QED BY <1>1, <3>1, <3>2, <3>3, <3>4
  <2>2. CASE walk \notin 1 .. at
    <3>1. walk = w /\ w = at + 1 /\ Depth = 0
      BY <2>2
    <3>2. open = <<>> /\ P[1] = e /\ Len(P) = 1
      BY <3>1, OpenType, PathType DEF Inv, Dealt
    <3>3. e = media.roots[w]
      BY <3>2, WalkType DEF Inv, Dealt
    <3>4. q # <<>> /\ q[1] = P[1]
      BY <1>1, <3>1, <3>2, <3>3 DEF Leads
    <3> QED BY <1>3, <3>1, <3>2, <3>4 DEF Below
  <2> QED BY <2>1, <2>2
<1> QED BY <1>2, <1>3

LEMMA DealtKeeps ==
  ASSUME Inv, Inv', FindInv, NEW e \in Entries, NEW into \in BOOLEAN, NEW R \in SUBSET Entries,
         NEW adds \in BOOLEAN, NEW w, NEW P, Dealt(e, into, R, adds, w, P)
  PROVE  FindInv'
<1>1. BuiltInv'
  BY DEF Dealt, Yields, BuiltInv
<1> QED BY <1>1, OpenDealt, SoundDealt, CompleteDealt DEF FindInv

-----------------------------------------------------------------------------
(* The actions.                                                            *)

(* What is gone into, or filed, was to be met there.                       *)
LEMMA VisitLeads ==
  ASSUME Inv, FindInv, NEW e \in Entries, Visits(e), NEW w, w = at', NEW P, P = PathTo(e)
  PROVE  Leads(w, P)
<1>1. /\ P \in Seq(Entries) /\ Len(P) = Depth + 1 /\ P[Depth + 1] = e
      /\ \A i \in 1 .. Depth : P[i] = open[i].entry
  BY PathType DEF Inv
<1>2. Depth \in Nat /\ Depth \in 0 .. Depth /\ Depth = Len(open) /\ P # <<>>
  BY <1>1, OpenType DEF Inv
<1>3. CASE Depth = 0
  <2>1. open = <<>>
    BY <1>3 DEF Depth, Inv, TypeOK
  <2>2. P[1] = media.roots[w]
    BY <1>1, <1>3, <2>1, WalkType DEF Inv, Visits
  <2> QED BY <1>1, <1>2, <1>3, <2>2 DEF Leads
<1>4. CASE Depth > 0
  <2>1. w = at /\ e \in open[Depth].rest
    BY <1>4 DEF Visits, Yields, Starts, Continues, Depth
  <2>2. /\ Leads(at, OpenPath(Depth)) /\ Len(OpenPath(Depth)) = Depth
        /\ \A i \in 1 .. Depth : OpenPath(Depth)[i] = P[i]
        /\ Descends(open[Depth].entry, Depth - 1)
        /\ e \in Inside[Target(open[Depth].entry)]
    BY <1>1, <1>2, <1>4, <2>1, OpenType DEF FindInv, OpenInv, Inv
  <2>3. P[1] = media.roots[w]
    BY <1>2, <1>4, <2>1, <2>2 DEF Leads
  <2>4. ASSUME NEW n \in 1 .. Depth - 1 PROVE Goes(P, n)
    <3>1. Goes(OpenPath(Depth), n) /\ \A i \in 1 .. n + 1 : OpenPath(Depth)[i] = P[i]
      BY <1>2, <2>2 DEF Leads
    <3> QED BY <3>1, GoesSame
  <2>5. Goes(P, Depth)
    <3>1. P[Depth] = open[Depth].entry /\ P[Depth + 1] = e
      BY <1>1, <1>2, <1>4
    <3>2. e \notin Excluded
      BY <1>4 DEF Visits, Filtered
    <3>3. ~(e \in Links /\ media.follow /\ \E i \in 1 .. Depth : Target(P[i]) = Target(e))
      BY <1>1, <1>4 DEF Visits, Loops
    <3> QED BY <2>2, <3>1, <3>2, <3>3 DEF Goes
  <2>6. \A n \in 1 .. Len(P) - 1 : Goes(P, n)
    BY <1>1, <1>2, <2>4, <2>5
  <2> QED BY <1>1, <1>2, <2>3, <2>6 DEF Leads
<1> QED BY <1>2, <1>3, <1>4

(* How a path below e's goes on.                                           *)
LEMMA LeadsOn ==
  ASSUME Inv, NEW e \in Entries, NEW w, NEW P, P = PathTo(e),
         NEW q \in Seq(Entries), Leads(w, q), Below(q, P)
  PROVE  /\ Depth > 0 => Goes(q, Depth)
         /\ Len(q) > Depth + 1 =>
              /\ Descends(e, Depth) /\ q[Depth + 2] \in Inside[Target(e)]
         /\ q[Depth + 1] = e /\ Len(q) >= Depth + 1 /\ Len(q) \in Nat
         /\ \A i \in 1 .. Depth : q[i] = open[i].entry
<1>1. /\ P \in Seq(Entries) /\ Len(P) = Depth + 1 /\ P[Depth + 1] = e /\ Depth \in Nat
      /\ \A i \in 1 .. Depth : P[i] = open[i].entry
  BY PathType, OpenType DEF Inv
<1>2. Len(q) \in Nat /\ Len(q) >= Depth + 1 /\ \A i \in 1 .. Depth + 1 : q[i] = P[i]
  BY <1>1 DEF Below
<1>3. q[Depth + 1] = e /\ \A i \in 1 .. Depth : q[i] = open[i].entry
  BY <1>1, <1>2
<1>4. Depth > 0 => Goes(q, Depth)
  BY <1>1, <1>2 DEF Leads
<1>5. ASSUME Len(q) > Depth + 1
      PROVE  Descends(e, Depth) /\ q[Depth + 2] \in Inside[Target(e)]
  <2>1. Goes(q, Depth + 1)
    BY <1>1, <1>2, <1>5 DEF Leads
  <2>2. (Depth + 1) - 1 = Depth /\ (Depth + 1) + 1 = Depth + 2
    BY <1>1
  <2> QED BY <1>3, <2>1, <2>2 DEF Goes
<1> QED BY <1>2, <1>3, <1>4, <1>5

(* Below a directory all is listed, or hidden by its error.                *)
Lists(e, R, w, P) ==
  /\ Turned(e, TRUE, R) /\ R \subseteq Inside[Target(e)]
  /\ failed \subseteq failed'
  /\ \A f \in failed' \ failed :
       f[1] = w /\ Below(f[2], P) /\ Len(f[2]) # Depth + 1 /\ R = {}
  /\ \A q \in Seq(Entries) : Leads(w, q) /\ Below(q, P) /\ Len(q) > Depth + 1 =>
       \/ \E f \in failed' : f[1] = w /\ Below(q, f[2])
       \/ q[Depth + 2] \in R

LEMMA EnterDeals ==
  ASSUME Inv, FindInv, NEW e \in Entries, Visits(e), Enter(e), Descends(e, Depth),
         NEW w, w = at', NEW P, P = PathTo(e)
  PROVE  \E R \in SUBSET Entries : Lists(e, R, w, P)
<1> DEFINE inside == Inside[Target(e)]
<1>1. inside \subseteq Entries
  BY TargetType DEF Descends
<1>2. /\ P \in Seq(Entries) /\ Len(P) = Depth + 1 /\ Depth \in Nat
  BY PathType, OpenType DEF Inv
<1>3. CASE open' = Append(Consumed(e), [entry |-> e, rest |-> inside]) /\ failed' = failed
  <2>1. Turned(e, TRUE, inside)
    BY <1>3 DEF Turned
  <2>2. \A q \in Seq(Entries) : Leads(w, q) /\ Below(q, P) /\ Len(q) > Depth + 1 =>
          q[Depth + 2] \in inside
    BY LeadsOn
  <2> QED BY <1>1, <1>3, <2>1, <2>2 DEF Lists
<1>4. CASE /\ open' = Append(Consumed(e), [entry |-> e, rest |-> {}])
           /\ failed' = failed \cup {<<w, Append(P, f)>> : f \in inside}
  <2>1. Turned(e, TRUE, {})
    BY <1>4 DEF Turned
  <2>2. ASSUME NEW x \in inside
        PROVE  /\ Append(P, x) \in Seq(Entries) /\ Len(Append(P, x)) = Depth + 2
               /\ Append(P, x)[Depth + 2] = x /\ \A i \in 1 .. Depth + 1 : Append(P, x)[i] = P[i]
    BY <1>1, <1>2
  <2>3. ASSUME NEW f \in failed' \ failed
        PROVE  f[1] = w /\ Below(f[2], P) /\ Len(f[2]) # Depth + 1
    <3>1. PICK x \in inside : f = <<w, Append(P, x)>>
      BY <1>4, <2>3
    <3>2. f[1] = w /\ f[2] = Append(P, x)
      BY <3>1
    <3> QED BY <1>2, <2>2, <3>2 DEF Below
  <2>4. ASSUME NEW q \in Seq(Entries), Leads(w, q), Below(q, P), Len(q) > Depth + 1
        PROVE  \E f \in failed' : f[1] = w /\ Below(q, f[2])
    <3> DEFINE x == q[Depth + 2]
               f == <<w, Append(P, x)>>
    <3>1. x \in inside /\ Len(q) \in Nat
      BY <2>4, LeadsOn
    <3>2. f \in failed' /\ f[1] = w /\ f[2] = Append(P, x)
      BY <1>4, <3>1
    <3>3. Below(q, Append(P, x))
      <4>1. \A i \in 1 .. Depth + 2 : i \in 1 .. Depth + 1 \/ i = Depth + 2
        BY <1>2
      <4>2. \A i \in 1 .. Depth + 1 : q[i] = P[i]
        BY <1>2, <2>4 DEF Below
      <4>3. Depth + 2 <= Len(q)
        BY <1>2, <2>4, <3>1
      <4> QED BY <2>2, <3>1, <4>1, <4>2, <4>3 DEF Below
    <3> QED BY <3>2, <3>3
  <2> QED BY <1>4, <2>1, <2>3, <2>4 DEF Lists
<1> QED BY <1>1, <1>3, <1>4 DEF Enter

(* An entry filed is the next node; the others stay what they were.        *)
LEMMA InsertDeals ==
  ASSUME Inv, NEW e \in Entries, Yields(e), ~Orphan, NEW node,
         node \in {Container(Parent, PathTo(e)), Item(Parent, PathTo(e))}, Insert(Parent, node)
  PROVE  /\ next_id' = next_id + 1
         /\ nodes'[next_id].walk = at' /\ nodes'[next_id].path = PathTo(e)
         /\ \A id \in 1 .. next_id - 1 :
              nodes'[id].walk = nodes[id].walk /\ nodes'[id].path = nodes[id].path
<1>1. Parent \in 0 .. next_id - 1 /\ next_id \in Nat
  BY ParentType DEF Inv, TypeOK
<1>2. PathTo(e) \in Seq(Entries) /\ at' \in Nat /\ Parent \in Nat
  BY <1>1, PathType, WalkType DEF Inv
<1>3. PICK kind \in {"container", "item"} :
        node = [parent |-> Parent, kind |-> kind, children |-> <<>>,
                walk |-> at', path |-> PathTo(e)]
  BY DEF Container, Item
<1>4. node \in Node /\ node.walk = at' /\ node.path = PathTo(e)
  BY <1>2, <1>3 DEF Node
<1>5. /\ next_id' = next_id + 1 /\ nodes'[next_id] = node
      /\ \A id \in 0 .. next_id - 1 :
           nodes'[id].walk = nodes[id].walk /\ nodes'[id].path = nodes[id].path
  BY <1>1, <1>4, InsertType DEF Inv
<1> QED BY <1>1, <1>4, <1>5

LEMMA SkipFinds == ASSUME Inv, Inv', FindInv, NEW e \in Entries, Skip(e) PROVE FindInv'
<1>w. PICK w : w = at'
  OBVIOUS
<1>P. PICK P : P = PathTo(e)
  OBVIOUS
<1>1. /\ Yields(e) /\ open' = Consumed(e)
      /\ UNCHANGED <<media, nodes, next_id, status>>
      /\ \/ (Filtered(e) \/ Loops(e)) /\ failed' = failed
         \/ failed' = failed \cup {<<w, P>>}
  BY <1>w, <1>P DEF Skip
<1>2. P \in Seq(Entries) /\ Len(P) = Depth + 1 /\ Below(P, P) /\ Depth \in Nat
  BY <1>P, PathType, OpenType DEF Inv, Below
<1>3. ASSUME NEW f \in failed' \ failed PROVE f[1] = w /\ f[2] = P
  BY <1>1, <1>3
<1>4. ASSUME NEW q \in Seq(Entries), Leads(w, q), Below(q, P)
      PROVE  \E f \in failed' : f[1] = w /\ Below(q, f[2])
  <2>1. CASE Filtered(e) \/ Loops(e)
    <3>1. /\ Depth > 0 => Goes(q, Depth)
          /\ q[Depth + 1] = e /\ \A i \in 1 .. Depth : q[i] = open[i].entry
      BY <1>P, <1>4, LeadsOn
    <3>2. CASE Filtered(e)
      BY <3>1, <3>2 DEF Filtered, Goes
    <3>3. CASE Loops(e)
      BY <3>1, <3>3 DEF Loops, Goes
    <3> QED BY <2>1, <3>2, <3>3
  <2>2. CASE failed' = failed \cup {<<w, P>>}
    <3>1. <<w, P>> \in failed'
      BY <2>2
    <3> QED BY <1>4, <3>1
  <2> QED BY <1>1, <2>1, <2>2
<1>5. Dealt(e, FALSE, {}, FALSE, w, P)
  <2>1. Turned(e, FALSE, {})
    BY <1>1 DEF Turned
  <2>2. \A f \in failed' \ failed :
          /\ f[1] = w /\ Below(f[2], P)
          /\ IF Len(f[2]) = Depth + 1 THEN ~FALSE /\ ~FALSE ELSE {} = {}
    BY <1>2, <1>3
  <2>3. failed \subseteq failed'
    BY <1>1
  <2> QED BY <1>w, <1>P, <1>1, <1>4, <2>1, <2>2, <2>3 DEF Dealt
<1> QED BY <1>5, DealtKeeps

LEMMA DirFinds == ASSUME Inv, Inv', FindInv, NEW e \in Entries, VisitDir(e) PROVE FindInv'
<1>w. PICK w : w = at'
  OBVIOUS
<1>P. PICK P : P = PathTo(e)
  OBVIOUS
<1>1. /\ Visits(e) /\ Yields(e) /\ ~Orphan /\ FileType(e) = "dir" /\ Enter(e)
      /\ Insert(Parent, Container(Parent, P)) /\ UNCHANGED <<media, status>>
  BY <1>P DEF VisitDir, Visits
<1>2. P \in Seq(Entries) /\ Len(P) = Depth + 1 /\ P[Depth + 1] = e
  BY <1>P, PathType DEF Inv
<1>3. Leads(w, P) /\ Descends(e, Depth) /\ Listed(P)
  BY <1>w, <1>P, <1>1, <1>2, VisitLeads DEF Descends, Listed
<1>4. PICK R \in SUBSET Entries : Lists(e, R, w, P)
  BY <1>w, <1>P, <1>1, <1>3, EnterDeals
<1>5. /\ next_id' = next_id + 1
      /\ nodes'[next_id].walk = w /\ nodes'[next_id].path = P
      /\ \A id \in 1 .. next_id - 1 :
           nodes'[id].walk = nodes[id].walk /\ nodes'[id].path = nodes[id].path
  BY <1>w, <1>P, <1>1, InsertDeals
<1>6. Dealt(e, TRUE, R, TRUE, w, P)
  <2>1. \A q \in Seq(Entries) : Leads(w, q) /\ Below(q, P) =>
          Len(q) > Depth + 1 \/ Len(q) = Depth + 1
    BY <1>P, LeadsOn, OpenType DEF Inv
  <2>2. \A q \in Seq(Entries) : Leads(w, q) /\ Below(q, P) =>
          \/ \E f \in failed' : f[1] = w /\ Below(q, f[2])
          \/ TRUE /\ Len(q) > Depth + 1 /\ q[Depth + 2] \in R
          \/ Len(q) = Depth + 1 /\ (Listed(q) => TRUE)
    BY <1>4, <2>1 DEF Lists
  <2>3. \A f \in failed' \ failed :
          /\ f[1] = w /\ Below(f[2], P)
          /\ IF Len(f[2]) = Depth + 1 THEN ~TRUE /\ ~TRUE ELSE R = {}
    BY <1>4 DEF Lists
  <2> QED BY <1>w, <1>P, <1>1, <1>3, <1>4, <1>5, <2>2, <2>3 DEF Dealt, Lists
<1> QED BY <1>6, DealtKeeps

(* What a link leads to is not gone into but at the top, nor is a file.    *)
LEMMA NotOn ==
  ASSUME Inv, NEW e \in Entries, ~Descends(e, Depth), NEW w, NEW P, P = PathTo(e),
         NEW q \in Seq(Entries), Leads(w, q), Below(q, P)
  PROVE  Len(q) = Depth + 1 /\ q = P
<1>1. ~(Len(q) > Depth + 1) /\ Len(q) >= Depth + 1 /\ Len(q) \in Nat
  BY LeadsOn
<1>2. Depth \in Nat /\ P \in Seq(Entries) /\ Len(P) = Depth + 1
  BY PathType, OpenType DEF Inv
<1>3. Len(q) = Depth + 1
  BY <1>1, <1>2
<1> QED BY <1>2, <1>3, BelowBoth

LEMMA AudioFinds == ASSUME Inv, Inv', FindInv, NEW e \in Entries, VisitAudio(e) PROVE FindInv'
<1>w. PICK w : w = at'
  OBVIOUS
<1>P. PICK P : P = PathTo(e)
  OBVIOUS
<1>1. /\ Visits(e) /\ Yields(e) /\ ~Orphan /\ FileType(e) = "audio" /\ open' = Consumed(e)
      /\ Insert(Parent, Item(Parent, P)) /\ UNCHANGED <<media, failed, status>>
  BY <1>P DEF VisitAudio, Visits
<1>2. P \in Seq(Entries) /\ Len(P) = Depth + 1 /\ P[Depth + 1] = e
  BY <1>P, PathType DEF Inv
<1>3. Leads(w, P) /\ ~Descends(e, Depth) /\ Listed(P)
  BY <1>w, <1>P, <1>1, <1>2, VisitLeads DEF Descends, FileType, Listed
<1>4. /\ next_id' = next_id + 1
      /\ nodes'[next_id].walk = w /\ nodes'[next_id].path = P
      /\ \A id \in 1 .. next_id - 1 :
           nodes'[id].walk = nodes[id].walk /\ nodes'[id].path = nodes[id].path
  BY <1>w, <1>P, <1>1, InsertDeals
<1>5. Dealt(e, FALSE, {}, TRUE, w, P)
  <2>1. Turned(e, FALSE, {})
    BY <1>1 DEF Turned
  <2>2. \A q \in Seq(Entries) : Leads(w, q) /\ Below(q, P) => Len(q) = Depth + 1
    BY <1>P, <1>3, NotOn
  <2> QED BY <1>w, <1>P, <1>1, <1>3, <1>4, <2>1, <2>2 DEF Dealt
<1> QED BY <1>5, DealtKeeps

LEMMA OtherFinds == ASSUME Inv, Inv', FindInv, NEW e \in Entries, VisitOther(e) PROVE FindInv'
<1>w. PICK w : w = at'
  OBVIOUS
<1>P. PICK P : P = PathTo(e)
  OBVIOUS
<1>1. /\ Visits(e) /\ Yields(e) /\ FileType(e) \notin {"dir", "audio"}
      /\ IF Descends(e, Depth) THEN Enter(e) ELSE open' = Consumed(e) /\ failed' = failed
      /\ UNCHANGED <<media, nodes, next_id, status>>
  BY DEF VisitOther, Visits
<1>2. P \in Seq(Entries) /\ Len(P) = Depth + 1 /\ P[Depth + 1] = e
  BY <1>P, PathType DEF Inv
<1>3. Leads(w, P)
  BY <1>w, <1>P, <1>1, VisitLeads
<1>4. ~Listed(P)
  BY <1>1, <1>2 DEF Listed
<1>5. CASE Descends(e, Depth)
  <2>1. PICK R \in SUBSET Entries : Lists(e, R, w, P)
    BY <1>w, <1>P, <1>1, <1>5, EnterDeals
  <2>2. \A q \in Seq(Entries) : Leads(w, q) /\ Below(q, P) =>
          Len(q) > Depth + 1 \/ (Len(q) = Depth + 1 /\ q = P)
    <3>1. \A q \in Seq(Entries) : Leads(w, q) /\ Below(q, P) =>
            Len(q) > Depth + 1 \/ Len(q) = Depth + 1
      BY <1>P, LeadsOn, OpenType DEF Inv
    <3> QED BY <1>2, <3>1, BelowBoth
  <2>3. \A q \in Seq(Entries) : Leads(w, q) /\ Below(q, P) =>
          \/ \E f \in failed' : f[1] = w /\ Below(q, f[2])
          \/ TRUE /\ Len(q) > Depth + 1 /\ q[Depth + 2] \in R
          \/ Len(q) = Depth + 1 /\ (Listed(q) => FALSE)
    BY <1>4, <2>1, <2>2 DEF Lists
  <2>4. \A f \in failed' \ failed :
          /\ f[1] = w /\ Below(f[2], P)
          /\ IF Len(f[2]) = Depth + 1 THEN ~TRUE /\ ~FALSE ELSE R = {}
    BY <2>1 DEF Lists
  <2>5. Dealt(e, TRUE, R, FALSE, w, P)
    BY <1>w, <1>P, <1>1, <1>3, <1>5, <2>1, <2>3, <2>4 DEF Dealt, Lists
  <2> QED BY <2>5, DealtKeeps
<1>6. CASE ~Descends(e, Depth)
  <2>1. Turned(e, FALSE, {}) /\ failed' = failed
    BY <1>1, <1>6 DEF Turned
  <2>2. \A q \in Seq(Entries) : Leads(w, q) /\ Below(q, P) =>
          Len(q) = Depth + 1 /\ (Listed(q) => FALSE)
    BY <1>P, <1>4, <1>6, NotOn
  <2>3. Dealt(e, FALSE, {}, FALSE, w, P)
    BY <1>w, <1>P, <1>1, <2>1, <2>2 DEF Dealt
  <2> QED BY <2>3, DealtKeeps
<1> QED BY <1>5, <1>6

-----------------------------------------------------------------------------
(* The steps that meet no entry.                                           *)

Same(walk, q) == Pending(walk, q)' <=> Pending(walk, q)

LEMMA QuietKeeps ==
  ASSUME FindInv, media' = media, at' = at, nodes' = nodes, next_id' = next_id,
         failed' = failed, \A walk, q : Same(walk, q)
  PROVE  SoundInv' /\ FailedInv' /\ UniqueInv' /\ CompleteInv'
<1>1. /\ \A walk, q : Leads(walk, q)' <=> Leads(walk, q)
      /\ \A q : Listed(q)' <=> Listed(q)
  BY LeadsSame
<1>2. /\ \A walk, q : Hidden(walk, q)' <=> Hidden(walk, q)
      /\ \A walk, q : Found(walk, q)' <=> Found(walk, q)
  BY DEF Hidden, Found
<1>3. SoundInv'
  <2> SUFFICES ASSUME NEW id \in 1 .. next_id - 1, NEW v, NEW q,
                      v = nodes[id].walk, q = nodes[id].path
               PROVE  /\ v \in 1 .. at /\ Leads(v, q)' /\ Listed(q)'
                      /\ ~Hidden(v, q)' /\ ~Pending(v, q)'
    BY DEF SoundInv
  <2>1. /\ v \in 1 .. at /\ Leads(v, q) /\ Listed(q)
        /\ ~Hidden(v, q) /\ ~Pending(v, q)
    BY DEF FindInv, SoundInv
  <2> QED BY <1>1, <1>2, <2>1 DEF Same
<1>4. FailedInv'
  <2> SUFFICES ASSUME NEW f \in failed, NEW v, NEW q, v = f[1], q = f[2]
               PROVE  v \in 1 .. at /\ q # <<>> /\ ~Pending(v, q)'
    BY DEF FailedInv
  <2>1. v \in 1 .. at /\ q # <<>> /\ ~Pending(v, q)
    BY DEF FindInv, FailedInv
  <2> QED BY <2>1 DEF Same
<1>5. UniqueInv'
  BY DEF FindInv, UniqueInv
<1>6. CompleteInv'
  <2> SUFFICES ASSUME NEW walk \in 1 .. at, NEW q \in Seq(Entries), Leads(walk, q)'
               PROVE  \/ Pending(walk, q)' \/ Hidden(walk, q)'
                      \/ (Listed(q)' => Found(walk, q)')
    BY DEF CompleteInv
  <2>1. Pending(walk, q) \/ Hidden(walk, q) \/ (Listed(q) => Found(walk, q))
    BY <1>1 DEF FindInv, CompleteInv
  <2> QED BY <1>1, <1>2, <2>1 DEF Same
<1> QED BY <1>3, <1>4, <1>5, <1>6

LEMMA StillFinds ==
  ASSUME FindInv, UNCHANGED <<media, at, open, nodes, next_id, failed>>
  PROVE  OpenInv' /\ SoundInv' /\ FailedInv' /\ UniqueInv' /\ CompleteInv'
<1>1. \A walk, q : Same(walk, q)
  BY DEF Same, Pending, Depth
<1>2. Depth' = Depth /\ OpenPath(Depth)' = OpenPath(Depth)
  BY DEF Depth, OpenPath
<1>3. OpenInv'
  <2> SUFFICES ASSUME Depth > 0 PROVE OpenInv'
    BY <1>2 DEF OpenInv
  <2>1. PICK way : way = OpenPath(Depth)
    OBVIOUS
  <2>2. Leads(at, way)' /\ ~Hidden(at, way)' /\ Descends(open[Depth].entry, Depth - 1)'
    <3>1. Leads(at, way) /\ ~Hidden(at, way) /\ Descends(open[Depth].entry, Depth - 1)
      BY <2>1 DEF FindInv, OpenInv
    <3>2. Leads(at, way)' /\ ~Hidden(at, way)'
      BY <3>1 DEF Leads, Goes, Descends, FileType, Hidden
    <3>3. Descends(open[Depth].entry, Depth - 1)'
      BY <1>2, <3>1 DEF Descends, FileType
    <3> QED BY <3>2, <3>3
  <2>3. /\ \A d \in 1 .. Depth : open[d].rest \subseteq Inside[Target(open[d].entry)]
        /\ \A d \in 1 .. Depth - 1 : open[d + 1].entry \notin open[d].rest
    BY DEF FindInv, OpenInv
  <2>4. Leads(at, OpenPath(Depth))' /\ ~Hidden(at, OpenPath(Depth))'
    BY <1>2, <2>1, <2>2
  <2> QED BY <1>2, <2>2, <2>3, <2>4 DEF OpenInv
<1> QED BY <1>1, <1>3, QuietKeeps

(* The end of a listing: nothing of it was pending.                        *)
LEMMA LeaveFinds == ASSUME Inv, Inv', FindInv, Leave PROVE FindInv'
<1>1. /\ open # <<>> /\ open' = Front(open) /\ status = "walking" /\ open[Depth].rest = {}
      /\ UNCHANGED <<media, at, nodes, next_id, failed, status>>
  BY DEF Leave
<1>2. open \in Seq(Frame) /\ Len(open) \in Nat \ {0} /\ Depth = Len(open)
  BY <1>1 DEF Inv, TypeOK, Frame, Depth
<1>3. Depth' = Depth - 1 /\ \A d \in 1 .. Depth - 1 : open'[d] = open[d]
  BY <1>1, <1>2, FrontType DEF Depth
<1>4. \A walk, q : Same(walk, q)
  <2> SUFFICES ASSUME NEW walk, NEW q PROVE Pending(walk, q)' <=> Pending(walk, q)
    BY DEF Same
  <2>1. ASSUME Pending(walk, q)' PROVE Pending(walk, q)
    <3>1. PICK d \in 1 .. Depth' : /\ walk = at' /\ d < Len(q)
                                   /\ \A i \in 1 .. d : q[i] = open'[i].entry
                                   /\ q[d + 1] \in open'[d].rest
      BY <2>1 DEF Pending
    <3>2. d \in 1 .. Depth /\ d \in 1 .. Depth - 1 /\ \A i \in 1 .. d : i \in 1 .. Depth - 1
      BY <1>2, <1>3
    <3> QED BY <1>1, <1>3, <3>1, <3>2 DEF Pending
  <2>2. ASSUME Pending(walk, q) PROVE Pending(walk, q)'
    <3>1. PICK d \in 1 .. Depth : /\ walk = at /\ d < Len(q)
                                  /\ \A i \in 1 .. d : q[i] = open[i].entry
                                  /\ q[d + 1] \in open[d].rest
      BY <2>2 DEF Pending
    <3>2. d # Depth
      BY <1>1, <3>1
    <3>3. d \in 1 .. Depth' /\ d \in 1 .. Depth - 1 /\ \A i \in 1 .. d : i \in 1 .. Depth - 1
      BY <1>2, <1>3, <3>2
    <3> QED BY <1>1, <1>3, <3>1, <3>3 DEF Pending
  <2> QED BY <2>1, <2>2
<1>5. OpenInv'
  <2> SUFFICES ASSUME Depth > 1 PROVE OpenInv'
    BY <1>2, <1>3 DEF OpenInv
  <2> DEFINE full == OpenPath(Depth)
  <2>1. PICK way : way = [i \in 1 .. Depth - 1 |-> open[i].entry]
    OBVIOUS
  <2>2. OpenPath(Depth)' = way
    BY <1>3, <2>1 DEF OpenPath
  <2>3. /\ Leads(at, full) /\ ~Hidden(at, full) /\ full \in Seq(Entries) /\ Len(full) = Depth
        /\ \A i \in 1 .. Depth : full[i] = open[i].entry
    BY <1>2, OpenType DEF FindInv, OpenInv, Inv
  <2> HIDE DEF full
  <2>4. way \in Seq(Entries) /\ Len(way) = Depth - 1 /\ way # <<>>
        /\ \A i \in 1 .. Depth - 1 : way[i] = full[i]
    <3>1. \A i \in 1 .. Depth - 1 : i \in 1 .. Depth /\ open[i].entry \in Entries
      BY <1>2, OpenType DEF Inv
    <3>2. Depth - 1 \in Nat /\ Depth - 1 >= 1
      BY <1>2
    <3>3. way \in [1 .. Depth - 1 -> Entries]
      BY <2>1, <3>1
    <3>4. way \in Seq(Entries) /\ Len(way) = Depth - 1
      BY <3>2, <3>3
    <3>5. \A i \in 1 .. Depth - 1 : way[i] = full[i]
      BY <2>1, <2>3, <3>1
    <3>6. way # <<>>
      BY <3>2, <3>4
    <3> QED BY <3>4, <3>5, <3>6
  <2>5. way[1] = media.roots[at]
    BY <1>2, <2>3, <2>4 DEF Leads
  <2>6. ASSUME NEW n \in 1 .. Depth - 2 PROVE Goes(way, n)
    <3>1. Goes(full, n) /\ \A i \in 1 .. n + 1 : full[i] = way[i]
      BY <1>2, <2>3, <2>4 DEF Leads
    <3> QED BY <3>1, GoesSame
  <2>7. Leads(at, way)
    BY <1>2, <2>4, <2>5, <2>6 DEF Leads
  <2>8. ~Hidden(at, way)
    <3> SUFFICES ASSUME NEW f \in failed, f[1] = at, Below(way, f[2]) PROVE FALSE
      BY DEF Hidden
    <3>1. Below(full, way)
      BY <1>2, <2>3, <2>4 DEF Below
    <3>2. f[2] \in Seq(Entries)
      BY OpenType DEF Inv
    <3>3. Below(full, f[2])
      BY <2>3, <2>4, <3>1, <3>2, BelowBoth
    <3> QED BY <2>3, <3>3 DEF Hidden
  <2>9. Descends(open[Depth - 1].entry, Depth - 2)
    <3>1. Goes(full, Depth - 1) /\ full[Depth - 1] = open[Depth - 1].entry
      BY <1>2, <2>3 DEF Leads
    <3>2. (Depth - 1) - 1 = Depth - 2
      BY <1>2
    <3> QED BY <3>1, <3>2 DEF Goes
  <2>10. Leads(at, way)' /\ ~Hidden(at, way)'
    BY <1>1, <2>7, <2>8, LeadsSame DEF Hidden
  <2>11. Leads(at, OpenPath(Depth))' /\ ~Hidden(at, OpenPath(Depth))'
    BY <2>2, <2>10
  <2>12. Descends(open[Depth].entry, Depth - 1)'
    <3>1. Depth' = Depth - 1 /\ Depth' - 1 = Depth - 2 /\ Depth - 1 \in 1 .. Depth - 1
      BY <1>2, <1>3
    <3>2. open'[Depth'].entry = open[Depth - 1].entry
      BY <1>3, <3>1
    <3> QED BY <1>1, <2>9, <3>1, <3>2, LeadsSame
  <2>13. /\ \A d \in 1 .. Depth' : open'[d].rest \subseteq Inside[Target(open'[d].entry)]
         /\ \A d \in 1 .. Depth' - 1 : open'[d + 1].entry \notin open'[d].rest
    <3>1. \A d \in 1 .. Depth' : d \in 1 .. Depth - 1 /\ d \in 1 .. Depth
      BY <1>2, <1>3
    <3>2. \A d \in 1 .. Depth' - 1 : d \in 1 .. Depth - 1 /\ d + 1 \in 1 .. Depth - 1
      BY <1>2, <1>3
    <3>3. /\ \A d \in 1 .. Depth : open[d].rest \subseteq Inside[Target(open[d].entry)]
          /\ \A d \in 1 .. Depth - 1 : open[d + 1].entry \notin open[d].rest
      BY <1>2 DEF FindInv, OpenInv
    <3> QED BY <1>3, <3>1, <3>2, <3>3
  <2> QED BY <2>11, <2>12, <2>13 DEF OpenInv
<1>6. BuiltInv'
  BY <1>1 DEF BuiltInv
<1> QED BY <1>1, <1>4, <1>5, <1>6, QuietKeeps DEF FindInv

LEMMA InitFind == Init => FindInv
<1> SUFFICES ASSUME Init PROVE FindInv
  OBVIOUS
<1>1. Depth = 0 /\ at = 0 /\ next_id = 1 /\ failed = {} /\ status = "walking"
  BY DEF Init, Depth
<1>2. 1 .. next_id - 1 = {} /\ 1 .. at = {} /\ ~(Depth > 0)
  BY <1>1
<1> QED BY <1>1, <1>2 DEF FindInv, OpenInv, SoundInv, FailedInv, UniqueInv, CompleteInv, BuiltInv

LEMMA StepFind == Inv /\ Inv' /\ FindInv /\ [Next]_vars => FindInv'
<1> SUFFICES ASSUME Inv, Inv', FindInv, [Next]_vars PROVE FindInv'
  OBVIOUS
<1>1. CASE \E e \in Entries : Skip(e)
  BY <1>1, SkipFinds
<1>2. CASE \E e \in Entries : VisitDir(e)
  BY <1>2, DirFinds
<1>3. CASE \E e \in Entries : VisitAudio(e)
  BY <1>3, AudioFinds
<1>4. CASE \E e \in Entries : VisitOther(e)
  BY <1>4, OtherFinds
<1>5. CASE \E e \in Entries : Panic(e)
  <2>1. UNCHANGED <<media, at, open, nodes, next_id, failed>> /\ status' = "panicked"
    BY <1>5 DEF Panic
  <2>2. BuiltInv'
    BY <2>1 DEF BuiltInv
  <2> QED BY <2>1, <2>2, StillFinds DEF FindInv
<1>6. CASE Leave
  BY <1>6, LeaveFinds
<1>7. CASE Build
  <2>1. /\ UNCHANGED <<media, at, open, nodes, next_id, failed>>
        /\ open = <<>> /\ at = Len(media.roots)
    BY <1>7 DEF Build
  <2>2. BuiltInv'
    BY <2>1 DEF BuiltInv
  <2> QED BY <2>1, <2>2, StillFinds DEF FindInv
<1>8. CASE UNCHANGED vars
  <2>1. UNCHANGED <<media, at, open, nodes, next_id, failed>> /\ status' = status
    BY <1>8 DEF vars
  <2>2. BuiltInv'
    BY <2>1 DEF FindInv, BuiltInv
  <2> QED BY <2>1, <2>2, StillFinds DEF FindInv
<1> QED BY <1>1, <1>2, <1>3, <1>4, <1>5, <1>6, <1>7, <1>8 DEF Next

-----------------------------------------------------------------------------
(* What there is to find.                                                  *)

Onward(paths) ==
  {Append(q[1], q[2]) :
     q \in {r \in {p \in paths : Opens(p)} \X (Entries \ Excluded) :
              /\ r[2] \in Inside[Target(Last(r[1]))]
              /\ ~LoopsBack(r[1], r[2])}}

Way(root, path, n) ==
  /\ path \in Seq(Entries) /\ Len(path) = n + 1 /\ path[1] = root
  /\ \A i \in 1 .. n : Goes(path, i)

LEMMA LastOf ==
  ASSUME NEW p \in Seq(Entries), p # <<>>
  PROVE  Last(p) = p[Len(p)] /\ Len(p) \in Nat \ {0} /\ DOMAIN p = 1 .. Len(p)
BY DEF Last

(* One level on.                                                           *)
LEMMA OnwardIs ==
  ASSUME NEW root, NEW n \in Nat, NEW paths, \A p : p \in paths <=> Way(root, p, n),
         NEW path
  PROVE  path \in Onward(paths) <=> Way(root, path, n + 1)
<1>1. ASSUME path \in Onward(paths) PROVE Way(root, path, n + 1)
  <2>1. PICK p \in paths, x \in Entries \ Excluded :
          /\ Opens(p) /\ path = Append(p, x)
          /\ x \in Inside[Target(Last(p))] /\ ~LoopsBack(p, x)
    BY <1>1 DEF Onward
  <2>2. /\ p \in Seq(Entries) /\ Len(p) = n + 1 /\ p[1] = root
        /\ \A i \in 1 .. n : Goes(p, i)
    BY <2>1 DEF Way
  <2>3. p # <<>> /\ Last(p) = p[n + 1] /\ DOMAIN p = 1 .. n + 1
    BY <2>2, LastOf
  <2>4. /\ path \in Seq(Entries) /\ Len(path) = n + 2 /\ path[n + 2] = x
        /\ \A i \in 1 .. n + 1 : path[i] = p[i]
    BY <2>1, <2>2, AppendProperties
  <2>5. ASSUME NEW i \in 1 .. n PROVE Goes(path, i)
    <3>1. Goes(p, i) /\ \A j \in 1 .. i + 1 : p[j] = path[j]
      BY <2>2, <2>4
    <3> QED BY <3>1, GoesSame
  <2>6. Goes(path, n + 1)
    <3>1. path[n + 1] = p[n + 1] /\ path[(n + 1) + 1] = x /\ (n + 1) - 1 = Len(p) - 1
      BY <2>2, <2>4
    <3>2. Descends(p[n + 1], Len(p) - 1) /\ x \in Inside[Target(p[n + 1])] \ Excluded
      BY <2>1, <2>3 DEF Opens
    <3>3. ~(x \in Links /\ media.follow /\ \E i \in 1 .. n + 1 : Target(path[i]) = Target(x))
      BY <2>1, <2>3, <2>4 DEF LoopsBack
    <3> QED BY <3>1, <3>2, <3>3 DEF Goes
  <2>7. \A i \in 1 .. n + 1 : i \in 1 .. n \/ i = n + 1
    OBVIOUS
  <2>8. path[1] = root
    BY <2>2, <2>4
  <2> QED BY <2>4, <2>5, <2>6, <2>7, <2>8 DEF Way
<1>2. ASSUME Way(root, path, n + 1) PROVE path \in Onward(paths)
  <2>1. /\ path \in Seq(Entries) /\ Len(path) = n + 2 /\ path[1] = root
        /\ \A i \in 1 .. n + 1 : Goes(path, i)
    BY <1>2 DEF Way
  <2>2. PICK p : p = [i \in 1 .. n + 1 |-> path[i]]
    OBVIOUS
  <2>3. PICK x : x = path[n + 2]
    OBVIOUS
  <2>4. /\ p \in Seq(Entries) /\ Len(p) = n + 1 /\ p # <<>>
        /\ \A i \in 1 .. n + 1 : p[i] = path[i]
    BY <2>1, <2>2
  <2>5. x \in Entries /\ path = Append(p, x)
    <3>1. x \in Entries
      BY <2>1, <2>3
    <3>2. /\ Append(p, x) \in Seq(Entries) /\ Len(Append(p, x)) = n + 2
          /\ Append(p, x)[n + 2] = x /\ \A i \in 1 .. n + 1 : Append(p, x)[i] = p[i]
      BY <2>4, <3>1, AppendProperties
    <3>3. \A i \in 1 .. n + 2 : Append(p, x)[i] = path[i]
      <4>1. \A i \in 1 .. n + 2 : i \in 1 .. n + 1 \/ i = n + 2
        OBVIOUS
      <4> QED BY <2>3, <2>4, <3>2, <4>1
    <3> QED BY <2>1, <3>1, <3>2, <3>3, SeqEqual
  <2>6. Goes(path, n + 1)
    BY <2>1
  <2>7. Last(p) = path[n + 1] /\ Len(p) - 1 = n /\ DOMAIN p = 1 .. n + 1
    BY <2>4, LastOf
  <2>8. Opens(p) /\ x \in Inside[Target(Last(p))] \ Excluded /\ ~LoopsBack(p, x)
    <3>1. (n + 1) - 1 = n /\ (n + 1) + 1 = n + 2
      OBVIOUS
    <3> QED BY <2>3, <2>4, <2>6, <2>7, <3>1 DEF Goes, Opens, LoopsBack
  <2>9. ASSUME NEW i \in 1 .. n PROVE Goes(p, i)
    <3>1. Goes(path, i) /\ \A j \in 1 .. i + 1 : path[j] = p[j]
      BY <2>1, <2>4
    <3> QED BY <3>1, GoesSame
  <2>10. p \in paths
    <3>1. p[1] = root
      BY <2>1, <2>4
    <3> QED BY <2>4, <2>9, <3>1 DEF Way
  <2>11. <<p, x>> \in {r \in {q \in paths : Opens(q)} \X (Entries \ Excluded) :
                         /\ r[2] \in Inside[Target(Last(r[1]))]
                         /\ ~LoopsBack(r[1], r[2])}
    BY <2>5, <2>8, <2>10
  <2> QED BY <2>5, <2>11 DEF Onward
<1> QED BY <1>1, <1>2

(* Level by level: all the ways that long.                                 *)
LEMMA LevelIs ==
  ASSUME NEW root \in Entries, NEW n \in Nat, NEW path
  PROVE  path \in Level(root)[n] <=> Way(root, path, n)
<1> DEFINE a == {<<root>>}
           A == SUBSET Seq(Entries)
           h == [p \in A \X Nat |-> Onward(p[1])]
<1>1. a \in A
  OBVIOUS
<1>2. h \in [A \X Nat -> A]
  <2>1. ASSUME NEW p \in A \X Nat PROVE Onward(p[1]) \in A
    <3>1. ASSUME NEW path2 \in Onward(p[1]) PROVE path2 \in Seq(Entries)
      <4>1. PICK p2 \in p[1], x \in Entries : path2 = Append(p2, x)
        BY <3>1 DEF Onward
      <4> QED BY <4>1, AppendProperties
    <3> QED BY <3>1
  <2> QED BY <2>1
<1> HIDE DEF h
<1>3. PICK f \in [Nat -> A] : \A m \in Nat : Runs(f, m, a, h)
  BY <1>1, <1>2, RunExistsOnNat
<1>4. f[0] = a
  BY <1>3 DEF Runs
<1>5. ASSUME NEW m \in Nat \ {0} PROVE f[m] = Onward(f[m - 1])
  <2>1. m \in 1 .. m /\ m - 1 \in Nat
    OBVIOUS
  <2>2. f[m] = h[<<f[m - 1], m>>]
    BY <1>3, <2>1 DEF Runs
  <2> QED BY <2>1, <2>2 DEF h
<1>6. f = [m \in Nat |-> IF m = 0 THEN a ELSE Onward(f[m - 1])]
  <2>1. \A m \in Nat : f[m] = IF m = 0 THEN a ELSE Onward(f[m - 1])
    BY <1>4, <1>5
  <2> QED BY <2>1
<1> DEFINE g == CHOOSE level : level = [m \in Nat |-> IF m = 0 THEN a ELSE Onward(level[m - 1])]
<1>7. Level(root) = g
  BY DEF Level, Onward
<1>8. g = [m \in Nat |-> IF m = 0 THEN a ELSE Onward(g[m - 1])]
  BY <1>6
<1> HIDE DEF g
<1> DEFINE S == {m \in Nat : \A p : p \in g[m] <=> Way(root, p, m)}
<1>9. 0 \in S
  <2>1. g[0] = {<<root>>}
    BY <1>8
  <2>2. ASSUME NEW p PROVE p = <<root>> <=> Way(root, p, 0)
    <3>1. <<root>> \in Seq(Entries) /\ Len(<<root>>) = 1 /\ <<root>>[1] = root
      OBVIOUS
    <3>2. 1 .. 0 = {}
      OBVIOUS
    <3>3. ASSUME Way(root, p, 0) PROVE p = <<root>>
      <4>1. p \in Seq(Entries) /\ Len(p) = 1 /\ p[1] = root
        BY <3>3 DEF Way
      <4>2. \A i \in 1 .. 1 : p[i] = <<root>>[i]
        BY <3>1, <4>1
      <4> QED BY <3>1, <4>1, <4>2, SeqEqual
    <3>4. Way(root, <<root>>, 0)
      BY <3>1, <3>2 DEF Way
    <3> QED BY <3>3, <3>4
  <2> QED BY <2>1, <2>2
<1>10. ASSUME NEW m \in Nat, m \in S PROVE m + 1 \in S
  <2>1. g[m + 1] = Onward(g[m])
    <3>1. m + 1 \in Nat /\ m + 1 # 0 /\ (m + 1) - 1 = m
      OBVIOUS
    <3> QED BY <1>8, <3>1
  <2>2. \A p : p \in g[m] <=> Way(root, p, m)
    BY <1>10
  <2>3. \A p : p \in Onward(g[m]) <=> Way(root, p, m + 1)
    BY <2>2, OnwardIs
  <2> QED BY <2>1, <2>3
<1>11. \A m \in Nat : m \in S
  <2> HIDE DEF S
  <2> QED BY <1>9, <1>10, NatInduct
<1> QED BY <1>7, <1>11

(* A way opens no more directories than there are pairs of them: that of   *)
(* the link followed last, and the directory met since.                    *)
LEMMA WayBound ==
  ASSUME NEW root, NEW m \in Nat, NEW path, Way(root, path, m)
  PROVE  m <= Deepest
<1> DEFINE t == [n \in 1 .. m |-> Target(path[n])]
           Link(n) == n > 1 /\ path[n] \in Links
<1>1. path \in Seq(Entries) /\ Len(path) = m + 1 /\ \A n \in 1 .. m : Goes(path, n)
  BY DEF Way
<1>2. ASSUME NEW n \in 1 .. m
      PROVE  path[n] \in Entries /\ t[n] \in Dirs /\ (Link(n) => media.follow)
  <2>1. path[n] \in Entries /\ Descends(path[n], n - 1) /\ t[n] = Target(path[n])
    BY <1>1 DEF Goes
  <2>2. Target(path[n]) \in Entries
    BY <2>1, LinkAssumption DEF Target
  <2>3. Kind[Target(path[n])] = "dir"
    BY <2>1 DEF Descends, FileType
  <2>4. Link(n) => media.follow
    BY <2>1 DEF Descends, FileType
  <2> QED BY <2>1, <2>2, <2>3, <2>4 DEF Dirs
<1>3. PICK height \in [Dirs -> 1 .. Cardinality(Dirs)] :
        \A d \in Dirs : \A e \in Inside[d] \cap Dirs : height[e] < height[d]
  BY TreeAssumption
<1>4. IsFiniteSet(Dirs) /\ Cardinality(Dirs) \in Nat
  BY TreeAssumption, FS_Subset, FS_CardinalityType DEF Dirs
<1>5. \A d \in Dirs : height[d] \in Nat
  BY <1>3, <1>4
<1>6. ASSUME NEW n \in 1 .. m, n > 1, ~Link(n)
      PROVE  n - 1 \in 1 .. m /\ height[t[n]] < height[t[n - 1]]
  <2>1. n - 1 \in 1 .. m /\ (n - 1) + 1 = n
    BY <1>6
  <2>2. Goes(path, n - 1)
    BY <1>1, <2>1
  <2>3. path[n] \in Inside[t[n - 1]]
    BY <2>1, <2>2 DEF Goes
  <2>4. t[n] = path[n]
    BY <1>6 DEF Target
  <2> QED BY <1>2, <1>3, <2>1, <2>3, <2>4
<1>7. ASSUME NEW n \in 1 .. m, Link(n), NEW i \in 1 .. m, i < n PROVE t[i] # t[n]
  <2>1. n - 1 \in 1 .. m /\ (n - 1) + 1 = n /\ i \in 1 .. n - 1
    BY <1>7
  <2>2. Goes(path, n - 1) /\ media.follow
    BY <1>1, <1>2, <1>7, <2>1
  <2>3. ~ \E j \in 1 .. n - 1 : Target(path[j]) = Target(path[n])
    BY <1>7, <2>1, <2>2 DEF Goes
  <2> QED BY <2>1, <2>3
<1> HIDE DEF t, Link
<1> DEFINE Since(j, n) == /\ j \in 1 .. n /\ (j = 1 \/ Link(j))
                          /\ \A i \in j + 1 .. n : ~Link(i)
<1>8. ASSUME NEW n \in 1 .. m PROVE \E j \in 1 .. m : Since(j, n)
  <2> DEFINE S == {k \in Nat : k + 1 \in 1 .. m => \E j \in 1 .. m : Since(j, k + 1)}
  <2>1. 0 \in S
    <3>1. 1 .. 1 = {1} /\ 1 + 1 .. 1 = {}
      OBVIOUS
    <3>2. Since(1, 0 + 1)
      BY <3>1
    <3> QED BY <3>2
  <2>2. ASSUME NEW k \in Nat, k \in S PROVE k + 1 \in S
    <3> DEFINE b == (k + 1) + 1
    <3> SUFFICES ASSUME b \in 1 .. m PROVE \E j \in 1 .. m : Since(j, b)
      OBVIOUS
    <3>1. CASE Link(b)
      <4>1. b \in 1 .. b /\ b + 1 .. b = {}
        OBVIOUS
      <4>2. Since(b, b)
        BY <3>1, <4>1
      <4> QED BY <4>2
    <3>2. CASE ~Link(b)
      <4>1. k + 1 \in 1 .. m
        OBVIOUS
      <4>2. PICK j \in 1 .. m : Since(j, k + 1)
        BY <2>2, <4>1
      <4>3. j \in 1 .. b /\ (\A i \in j + 1 .. b : i \in j + 1 .. k + 1 \/ i = b)
        BY <4>2
      <4>4. Since(j, b)
        BY <3>2, <4>2, <4>3
      <4> QED BY <4>4
    <3> QED BY <3>1, <3>2
  <2>3. \A k \in Nat : k \in S
    <3> HIDE DEF S
    <3> QED BY <2>1, <2>2, NatInduct
  <2>4. n - 1 \in Nat /\ (n - 1) + 1 = n
    OBVIOUS
  <2>5. n - 1 \in S
    BY <2>3, <2>4
  <2> HIDE DEF Since
  <2>6. (n - 1) + 1 \in 1 .. m => \E j \in 1 .. m : Since(j, (n - 1) + 1)
    BY <2>5
  <2> QED BY <2>4, <2>6
<1>9. ASSUME NEW a \in 1 .. m, NEW b \in 1 .. m, a < b, \A i \in a + 1 .. b : ~Link(i)
      PROVE  height[t[b]] < height[t[a]]
  <2> DEFINE S == {k \in Nat : a + 1 + k <= b => height[t[a + 1 + k]] < height[t[a]]}
  <2>1. 0 \in S
    <3>1. a + 1 \in 1 .. m /\ a + 1 > 1 /\ (a + 1) - 1 = a /\ a + 1 + 0 = a + 1 /\ ~Link(a + 1)
      BY <1>9
    <3> QED BY <1>6, <3>1
  <2>2. ASSUME NEW k \in Nat, k \in S PROVE k + 1 \in S
    <3> DEFINE c == a + 1 + k
    <3> SUFFICES ASSUME c + 1 <= b PROVE height[t[c + 1]] < height[t[a]]
      <4>1. a + 1 + (k + 1) = c + 1
        OBVIOUS
      <4> QED BY <4>1
    <3>1. c + 1 \in 1 .. m /\ c + 1 > 1 /\ (c + 1) - 1 = c /\ ~Link(c + 1) /\ c \in 1 .. m
      BY <1>9
    <3>2. height[t[c + 1]] < height[t[c]]
      BY <1>6, <3>1
    <3>3. height[t[c]] < height[t[a]]
      BY <2>2, <3>1
    <3>4. height[t[c + 1]] \in Nat /\ height[t[c]] \in Nat /\ height[t[a]] \in Nat
      BY <1>2, <1>5, <3>1
    <3> QED BY <3>2, <3>3, <3>4
  <2>3. \A k \in Nat : k \in S
    <3> HIDE DEF S
    <3> QED BY <2>1, <2>2, NatInduct
  <2>4. b - (a + 1) \in Nat /\ a + 1 + (b - (a + 1)) = b
    BY <1>9
  <2>5. b - (a + 1) \in S
    BY <2>3, <2>4
  <2> QED BY <2>4, <2>5
<1> DEFINE s == [n \in 1 .. m |-> CHOOSE j \in 1 .. m : Since(j, n)]
           f == [n \in 1 .. m |-> <<t[s[n]], t[n]>>]
<1>10. ASSUME NEW n \in 1 .. m PROVE s[n] \in 1 .. m /\ Since(s[n], n)
  BY <1>8
<1> HIDE DEF s
<1>11. ASSUME NEW a \in 1 .. m, NEW b \in 1 .. m, a < b, f[a] = f[b] PROVE FALSE
  <2>1. t[s[a]] = t[s[b]] /\ t[a] = t[b]
    BY <1>11
  <2>2. /\ s[a] \in 1 .. m /\ s[a] \in 1 .. a /\ s[b] \in 1 .. m /\ s[b] \in 1 .. b
        /\ s[b] = 1 \/ Link(s[b])
        /\ \A i \in s[b] + 1 .. b : ~Link(i)
    BY <1>10
  <2>3. CASE s[b] <= a
    <3>1. \A i \in a + 1 .. b : i \in s[b] + 1 .. b
      BY <2>2, <2>3
    <3>2. height[t[b]] < height[t[a]]
      BY <1>9, <1>11, <2>2, <3>1
    <3>3. height[t[a]] \in Nat
      BY <1>2, <1>5
    <3> QED BY <2>1, <3>2, <3>3
  <2>4. CASE s[b] > a
    <3>1. Link(s[b]) /\ s[a] < s[b]
      BY <2>2, <2>4
    <3> QED BY <1>7, <2>1, <2>2, <3>1
  <2> QED BY <2>2, <2>3, <2>4
<1>12. f \in Injection(1 .. m, Dirs \X Dirs)
  <2>1. f \in [1 .. m -> Dirs \X Dirs]
    BY <1>2, <1>10
  <2>2. \A a, b \in 1 .. m : f[a] = f[b] => a = b
    <3> SUFFICES ASSUME NEW a \in 1 .. m, NEW b \in 1 .. m, f[a] = f[b], a # b PROVE FALSE
      OBVIOUS
    <3> HIDE DEF f
    <3>1. a < b \/ b < a
      OBVIOUS
    <3> QED BY <1>11, <3>1
  <2> HIDE DEF f
  <2> QED BY <2>1, <2>2 DEF Injection, IsInjective
<1> HIDE DEF f
<1>13. IsFiniteSet(Dirs \X Dirs) /\ Cardinality(Dirs \X Dirs) = Cardinality(Dirs) * Cardinality(Dirs)
  BY <1>4, FS_Product
<1>14. Cardinality(1 .. m) <= Cardinality(Dirs \X Dirs)
  BY <1>12, <1>13, FS_Injection
<1>15. Cardinality(1 .. m) = m
  <2>1. Cardinality(1 .. m) = IF 1 > m THEN 0 ELSE m - 1 + 1
    BY FS_Interval
  <2> QED BY <2>1
<1> QED BY <1>13, <1>14, <1>15 DEF Deepest

-----------------------------------------------------------------------------
(* The end of the scan.                                                    *)

LEMMA HiddenIs ==
  ASSUME TypeOK, FailedInv, NEW walk \in Nat, NEW path \in Seq(Entries)
  PROVE  ~Hidden(walk, path)
           <=> \A n \in 1 .. Len(path) : <<walk, SubSeq(path, 1, n)>> \notin failed
<1>1. failed \subseteq Nat \X Seq(Entries) /\ Len(path) \in Nat
  BY DEF TypeOK
<1>2. ASSUME NEW n \in 1 .. Len(path)
      PROVE  /\ SubSeq(path, 1, n) \in Seq(Entries) /\ Len(SubSeq(path, 1, n)) = n
             /\ \A i \in 1 .. n : SubSeq(path, 1, n)[i] = path[i]
  BY <1>1, SubSeqProperties
<1>3. ASSUME NEW n \in 1 .. Len(path), <<walk, SubSeq(path, 1, n)>> \in failed
      PROVE  Hidden(walk, path)
  <2>1. PICK top : top = SubSeq(path, 1, n)
    OBVIOUS
  <2>2. Below(path, top)
    BY <1>1, <1>2, <2>1 DEF Below
  <2> QED BY <1>3, <2>1, <2>2 DEF Hidden
<1>4. ASSUME Hidden(walk, path)
      PROVE  \E n \in 1 .. Len(path) : <<walk, SubSeq(path, 1, n)>> \in failed
  <2>1. PICK f \in failed : f[1] = walk /\ Below(path, f[2])
    BY <1>4 DEF Hidden
  <2>2. f[2] \in Seq(Entries) /\ f[2] # <<>> /\ f = <<f[1], f[2]>>
    BY <1>1 DEF FailedInv
  <2>3. PICK n : n = Len(f[2])
    OBVIOUS
  <2>4. n \in Nat \ {0} /\ n <= Len(path) /\ \A i \in 1 .. n : path[i] = f[2][i]
    BY <2>1, <2>2, <2>3 DEF Below
  <2>5. n \in 1 .. Len(path)
    BY <1>1, <2>4
  <2>6. f[2] = SubSeq(path, 1, n)
    BY <1>2, <2>2, <2>3, <2>4, <2>5, SeqEqual
  <2> QED BY <2>1, <2>2, <2>5, <2>6
<1> QED BY <1>3, <1>4

LEMMA ExpectedIs ==
  ASSUME TypeOK, FailedInv, NEW walk \in 1 .. Len(media.roots), NEW path
  PROVE  path \in Expected(walk) <=> Leads(walk, path) /\ Listed(path) /\ ~Hidden(walk, path)
<1>1. media.roots \in Seq(Entries)
  BY ConfigAssumption DEF TypeOK
<1>2. media.roots[walk] \in Entries /\ walk \in Nat
  BY <1>1
<1>3. Deepest \in Nat
  <2>1. Cardinality(Dirs) \in Nat
    BY TreeAssumption, FS_Subset, FS_CardinalityType DEF Dirs
  <2> QED BY <2>1 DEF Deepest
<1>4. ASSUME NEW n \in Nat
      PROVE  path \in Level(media.roots[walk])[n] <=> Leads(walk, path) /\ Len(path) = n + 1
  <2>1. path \in Level(media.roots[walk])[n] <=> Way(media.roots[walk], path, n)
    BY <1>2, LevelIs
  <2>2. Way(media.roots[walk], path, n) <=> Leads(walk, path) /\ Len(path) = n + 1
    BY DEF Way, Leads
  <2> QED BY <2>1, <2>2
<1>5. ASSUME Leads(walk, path)
      PROVE  \E n \in 0 .. Deepest : Len(path) = n + 1
  <2>1. PICK n : n = Len(path) - 1
    OBVIOUS
  <2>2. n \in Nat /\ Len(path) = n + 1
    BY <1>5, <2>1 DEF Leads
  <2>3. Way(media.roots[walk], path, n)
    BY <1>5, <2>2 DEF Way, Leads
  <2>4. n <= Deepest
    BY <2>2, <2>3, WayBound
  <2> QED BY <1>3, <2>2, <2>4
<1>6. path \in UNION {Level(media.roots[walk])[n] : n \in 0 .. Deepest} <=> Leads(walk, path)
  <2>1. \A n \in 0 .. Deepest : n \in Nat
    BY <1>3
  <2> QED BY <1>4, <1>5, <2>1
<1>7. ASSUME Leads(walk, path)
      PROVE  /\ FileType(Last(path)) \in {"dir", "audio"} <=> Listed(path)
             /\ ~Hidden(walk, path)
                  <=> \A n \in 1 .. Len(path) : <<walk, SubSeq(path, 1, n)>> \notin failed
  <2>1. path \in Seq(Entries) /\ path # <<>>
    BY <1>7 DEF Leads
  <2> QED BY <1>2, <2>1, LastOf, HiddenIs DEF Listed
<1> QED BY <1>6, <1>7 DEF Expected

LEMMA BuiltFinds == Inv /\ FindInv => FindsEverythingOnce
<1> SUFFICES ASSUME Inv, FindInv, status = "built" PROVE FindsEverythingOnce
  BY DEF FindsEverythingOnce
<1> DEFINE found == {<<nodes[id].walk, nodes[id].path>> : id \in DOMAIN nodes \ {Root}}
           expected == UNION {{walk} \X Expected(walk) : walk \in 1 .. Len(media.roots)}
<1>1. /\ open = <<>> /\ at = Len(media.roots) /\ Depth = 0
      /\ TypeOK /\ FailedInv
  BY DEF FindInv, BuiltInv, Depth, Inv
<1>2. DOMAIN nodes \ {Root} = 1 .. next_id - 1
  BY DEF Inv, TypeOK, Root
<1>3. \A walk, path : ~Pending(walk, path)
  BY <1>1 DEF Pending
<1>4. ASSUME NEW id \in 1 .. next_id - 1 PROVE <<nodes[id].walk, nodes[id].path>> \in expected
  <2>1. PICK walk : walk = nodes[id].walk
    OBVIOUS
  <2>2. PICK path : path = nodes[id].path
    OBVIOUS
  <2>3. /\ walk \in 1 .. Len(media.roots) /\ Leads(walk, path) /\ Listed(path)
        /\ ~Hidden(walk, path)
    BY <1>1, <2>1, <2>2 DEF FindInv, SoundInv
  <2>4. path \in Expected(walk)
    BY <1>1, <2>3, ExpectedIs
  <2> QED BY <2>1, <2>2, <2>3, <2>4
<1>5. ASSUME NEW walk \in 1 .. Len(media.roots), NEW path \in Expected(walk)
      PROVE  <<walk, path>> \in found
  <2>1. Leads(walk, path) /\ Listed(path) /\ ~Hidden(walk, path)
    BY <1>1, ExpectedIs
  <2>2. Found(walk, path)
    BY <1>1, <1>3, <2>1 DEF FindInv, CompleteInv, Leads
  <2> QED BY <1>2, <2>2 DEF Found
<1>6. found = expected
  <2>1. found \subseteq expected
    BY <1>2, <1>4
  <2>2. expected \subseteq found
    BY <1>5
  <2> QED BY <2>1, <2>2
<1>7. \A id, other \in DOMAIN nodes \ {Root} :
        nodes[id].walk = nodes[other].walk /\ nodes[id].path = nodes[other].path => id = other
  BY <1>2 DEF FindInv, UniqueInv
<1> QED BY <1>6, <1>7 DEF FindsEverythingOnce

(* A scan that comes to its end has found, for each configured directory,  *)
(* every track and every directory below it that no pattern excludes and   *)
(* no error hid, through links where they are followed, each once, and     *)
(* nothing else (scanner.rs, scan): for every tree of files, with links    *)
(* leading back up, every configuration and however errors strike.         *)
THEOREM FoundExactly == Spec => []FindsEverythingOnce
<1>1. Init => Inv /\ FindInv
  BY InitInv, InitFind
<1>2. Inv /\ FindInv /\ [Next]_vars => (Inv /\ FindInv)'
  BY StepInv, StepFind
<1>3. Inv /\ FindInv => FindsEverythingOnce
  BY BuiltFinds
<1> QED BY <1>1, <1>2, <1>3, PTL DEF Spec
=============================================================================
