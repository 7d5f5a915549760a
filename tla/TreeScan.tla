------------------------------ MODULE TreeScan ------------------------------
(***************************************************************************)
(* How a scan turns the flat, depth-first stream of directory entries that *)
(* walkdir yields into the tree of containers and items the views browse:  *)
(* scanner.rs (scan, scan_one_directory) with IndexBuilder of index.rs.    *)
(*                                                                         *)
(* walkdir itself is modelled from its use: `open` holds the directories   *)
(* it is inside of, and it yields an entry of the innermost one next, in   *)
(* no particular order.  The scanner never sees that stack.  It rebuilds   *)
(* the tree from each entry's depth and from the containers it made last   *)
(* at every depth.  What is read of each file is the subject of Rescan.    *)
(***************************************************************************)
EXTENDS Naturals, FiniteSets, SequencesExt

CONSTANTS
  Entries,   \* the directory entries below the media directories, and these
  Kind,      \* entry -> "dir", "audio", "other" or "link"
  Inside,    \* directory -> the entries it holds
  LinkTo,    \* symbolic link -> the directory or file it leads to
  Excluded,  \* the entries whose name matches an exclude pattern
  Configs,   \* the [media] tables: directories, in order, and follow_symlinks
  MaxErrors  \* bounds the entries walkdir or stat report an error for

Links == {e \in Entries : Kind[e] = "link"}
Dirs  == {e \in Entries : Kind[e] = "dir"}

ASSUME KindAssumption == Kind \in [Entries -> {"dir", "audio", "other", "link"}]
ASSUME InsideAssumption == Inside \in [Dirs -> SUBSET Entries]
(* Only links lead back up: directories lie inside one another without end *)
(* nowhere.                                                                *)
ASSUME TreeAssumption ==
  /\ IsFiniteSet(Entries)
  /\ \E height \in [Dirs -> 1 .. Cardinality(Dirs)] :
       \A d \in Dirs : \A e \in Inside[d] \cap Dirs : height[e] < height[d]
ASSUME LinkAssumption == LinkTo \in [Links -> Entries \ Links]
ASSUME ConfigAssumption ==
  Configs \subseteq [roots : Seq(Entries), follow : BOOLEAN]
ASSUME ErrorsAssumption == MaxErrors \in Nat

VARIABLES
  media,               \* the configuration, fixed while the process runs
  at,                  \* which configured directory is being walked
  open,                \* walkdir: the directories being listed, outermost first
  container_at_depth,  \* the container last made at each depth
  nodes,               \* the builder: id -> node
  next_id,             \* the builder: the next id it hands out
  failed,              \* history: the entries an error was reported for
  status               \* "walking", "built" or "panicked"

vars == <<media, at, open, container_at_depth, nodes, next_id, failed, status>>

Root == 0
NoParent == 0

(* A node of the index; only the root has no parent.  `walk` and `path`    *)
(* say where the walk met it: the index keeps the path of an item, and of  *)
(* a container only the last name.                                         *)
Node == [parent : Nat, kind : {"container", "item"}, children : Seq(Nat),
         walk : Nat, path : Seq(Entries)]

Container(parent, path) ==
  [parent |-> parent, kind |-> "container", children |-> <<>>,
   walk |-> at', path |-> path]

Item(parent, path) == [Container(parent, path) EXCEPT !.kind = "item"]

-----------------------------------------------------------------------------
(* walkdir.                                                                *)

Target(e) == IF e \in Links THEN LinkTo[e] ELSE e

(* file_type(): what a link leads to, if links are followed.               *)
FileType(e) ==
  IF e \in Links /\ ~media.follow THEN "link" ELSE Kind[Target(e)]

(* walkdir goes into every directory it yields.  A configured directory    *)
(* that is a symbolic link it enters even when it does not follow links,   *)
(* and then still reports as a link.                                       *)
Descends(e, depth) ==
  \/ FileType(e) = "dir"
  \/ depth = 0 /\ Kind[Target(e)] = "dir"

Depth == Len(open)

PathTo(e) == Append([i \in 1 .. Depth |-> open[i].entry], e)

(* walkdir's stack with e taken off the innermost listing.                 *)
Consumed(e) ==
  IF open = <<>> THEN <<>> ELSE [open EXCEPT ![Depth].rest = @ \ {e}]

(* The next entry is a configured directory, with a stack of its own for   *)
(* the containers below it, or an entry of the innermost listing.          *)
Starts(e) ==
  /\ open = <<>> /\ at < Len(media.roots) /\ e = media.roots[at + 1]
  /\ at' = at + 1

Continues(e) ==
  /\ open # <<>> /\ e \in open[Depth].rest
  /\ UNCHANGED at

Yields(e) == status = "walking" /\ (Starts(e) \/ Continues(e))

(* A followed link back to a directory the walk is inside of is an error.  *)
Loops(e) ==
  /\ e \in Links /\ media.follow /\ Depth > 0
  /\ \E i \in 1 .. Depth : Target(open[i].entry) = Target(e)

(* Mutant: the patterns apply to the configured directories too.           *)
FilteredEverywhere(e) == e \in Excluded

Filtered(e) == Depth > 0 /\ e \in Excluded

MayFail == Cardinality(failed) < MaxErrors

-----------------------------------------------------------------------------
(* The scanner.                                                            *)

containers == IF open = <<>> THEN <<>> ELSE container_at_depth

(* container_at_depth[depth - 1] is out of bounds.                         *)
Orphan == Depth > Len(containers)

Parent == IF Depth = 0 THEN Root ELSE containers[Depth]

(* Mutant: items do not use up an id.                                      *)
InsertReusingIds(parent, node) ==
  /\ nodes' = [id \in 0 .. next_id |->
                 IF id = next_id THEN node
                 ELSE IF id = parent
                 THEN [nodes[id] EXCEPT !.children = Append(@, next_id)]
                 ELSE nodes[id]]
  /\ next_id' = IF node.kind = "item" THEN next_id ELSE next_id + 1

(* Mutant: the parent is not told.                                         *)
InsertUnlisted(parent, node) ==
  /\ nodes' = [id \in 0 .. next_id |-> IF id = next_id THEN node ELSE nodes[id]]
  /\ next_id' = next_id + 1

(* IndexBuilder::insert: the node gets the next id and its parent a child. *)
Insert(parent, node) ==
  /\ nodes' = [id \in 0 .. next_id |->
                 IF id = next_id THEN node
                 ELSE IF id = parent
                 THEN [nodes[id] EXCEPT !.children = Append(@, next_id)]
                 ELSE nodes[id]]
  /\ next_id' = next_id + 1

(* A filtered entry, and its whole subtree, is passed over; so is an entry *)
(* walkdir or stat report an error for.                                    *)
Skip(e) ==
  /\ Yields(e)
  /\ \/ (Filtered(e) \/ Loops(e)) /\ UNCHANGED failed
     \/ MayFail /\ failed' = failed \cup {<<at', PathTo(e)>>}
  /\ open' = Consumed(e)
  /\ container_at_depth' = containers
  /\ UNCHANGED <<media, nodes, next_id, status>>

Visits(e) == Yields(e) /\ ~Filtered(e) /\ ~Loops(e)

(* walkdir goes into e; what it cannot list it reports as an error later.  *)
Enter(e) ==
  LET Frame(rest) == [entry |-> e, rest |-> rest]
      inside      == Inside[Target(e)]
  IN \/ /\ open' = Append(Consumed(e), Frame(inside))
        /\ UNCHANGED failed
     \/ /\ MayFail /\ inside # {}
        /\ open' = Append(Consumed(e), Frame({}))
        /\ failed' = failed \cup {<<at', Append(PathTo(e), f)>> : f \in inside}

(* Mutant: the containers of the subtree just left are not cut off.        *)
VisitDirWithoutTruncate(e) ==
  /\ Visits(e) /\ ~Orphan /\ FileType(e) = "dir"
  /\ Enter(e)
  /\ Insert(Parent, Container(Parent, PathTo(e)))
  /\ container_at_depth' = Append(containers, next_id)
  /\ UNCHANGED <<media, status>>

(* Mutant: the truncation cuts off the parent too.                         *)
VisitDirTruncatesParent(e) ==
  /\ Visits(e) /\ ~Orphan /\ FileType(e) = "dir"
  /\ Enter(e)
  /\ Insert(Parent, Container(Parent, PathTo(e)))
  /\ container_at_depth' = Append(SubSeq(containers, 1, Depth - 1), next_id)
  /\ UNCHANGED <<media, status>>

VisitDir(e) ==
  /\ Visits(e) /\ ~Orphan /\ FileType(e) = "dir"
  /\ Enter(e)
  /\ Insert(Parent, Container(Parent, PathTo(e)))
  /\ container_at_depth' = Append(SubSeq(containers, 1, Depth), next_id)
  /\ UNCHANGED <<media, status>>

VisitAudio(e) ==
  /\ Visits(e) /\ ~Orphan /\ FileType(e) = "audio"
  /\ open' = Consumed(e)
  /\ Insert(Parent, Item(Parent, PathTo(e)))
  /\ container_at_depth' = containers
  /\ UNCHANGED <<media, failed, status>>

(* Anything else is passed over, a link nobody follows among it.           *)
VisitOther(e) ==
  /\ Visits(e) /\ ~Orphan /\ FileType(e) \in {"other", "link"}
  /\ IF Descends(e, Depth)
     THEN Enter(e)
     ELSE open' = Consumed(e) /\ UNCHANGED failed
  /\ container_at_depth' = containers
  /\ UNCHANGED <<media, nodes, next_id, status>>

Panic(e) ==
  /\ Visits(e) /\ Orphan
  /\ status' = "panicked"
  /\ UNCHANGED <<media, at, open, container_at_depth, nodes, next_id, failed>>

(* walkdir comes to the end of a listing.                                  *)
Leave ==
  /\ status = "walking" /\ open # <<>> /\ open[Depth].rest = {}
  /\ open' = Front(open)
  /\ UNCHANGED <<media, at, container_at_depth, nodes, next_id, failed, status>>

Build ==
  /\ status = "walking" /\ open = <<>> /\ at = Len(media.roots)
  /\ status' = "built"
  /\ UNCHANGED <<media, at, open, container_at_depth, nodes, next_id, failed>>

Init ==
  /\ media \in Configs
  /\ at = 0 /\ open = <<>> /\ container_at_depth = <<>>
  /\ nodes = [id \in {Root} |->
                [parent |-> NoParent, kind |-> "container", children |-> <<>>,
                 walk |-> 0, path |-> <<>>]]
  /\ next_id = 1
  /\ failed = {} /\ status = "walking"

Next ==
  \/ \E e \in Entries :
       Skip(e) \/ VisitDir(e) \/ VisitAudio(e) \/ VisitOther(e) \/ Panic(e)
  \/ Leave
  \/ Build

Spec == Init /\ [][Next]_vars

-----------------------------------------------------------------------------
(* Properties.                                                             *)

TypeOK ==
  /\ media \in Configs
  /\ at \in 0 .. Len(media.roots)
  /\ open \in Seq([entry : Entries, rest : SUBSET Entries])
  /\ container_at_depth \in Seq(Nat)
  /\ next_id \in Nat \ {0}
  /\ nodes \in [0 .. next_id - 1 -> Node]
  /\ failed \subseteq Nat \X Seq(Entries)
  /\ status \in {"walking", "built", "panicked"}

(* Where id stands among the children of other.                            *)
Places(id, other) ==
  {i \in 1 .. Len(nodes[other].children) : nodes[other].children[i] = id}

(* No dangling parent or child and no duplicate id: a node other than the  *)
(* root is a child of exactly the container it names as its parent, once,  *)
(* and every parent's id is smaller, so that walking down always ends      *)
(* (index.rs, IndexBuilder; Index::entry relies on the parent being there).*)
ParentsAndChildrenAgree ==
  \A id, other \in DOMAIN nodes :
    /\ id # Root => nodes[id].parent < id
    /\ Cardinality(Places(id, other))
         = IF id # Root /\ nodes[id].parent = other THEN 1 ELSE 0
    /\ nodes[other].children # <<>> => nodes[other].kind = "container"
    /\ \A i \in 1 .. Len(nodes[other].children) :
         nodes[other].children[i] \in DOMAIN nodes

(* Every entry is filed under the container of the directory it lies in on *)
(* disk, though the scanner knows only its depth (scanner.rs,              *)
(* scan_one_directory: an entry at depth d is always a child of whatever   *)
(* we last saw at depth d-1).                                              *)
FiledWhereItLies ==
  \A id \in DOMAIN nodes \ {Root} :
    LET node == nodes[id]  parent == nodes[node.parent]
    IN IF Len(node.path) = 1
       THEN node.parent = Root /\ node.path[1] = media.roots[node.walk]
       ELSE parent.walk = node.walk /\ parent.path = Front(node.path)

(* What a scan should find: starting at a configured directory, level by   *)
(* level, what is not excluded, through links if they are followed, but    *)
(* never back into a directory on the way.                                 *)
Opens(path) == Descends(Last(path), Len(path) - 1)

LoopsBack(path, e) ==
  /\ e \in Links /\ media.follow
  /\ \E i \in DOMAIN path : Target(path[i]) = Target(e)

Level(root) ==
  LET level[n \in Nat] ==
        IF n = 0 THEN {<<root>>}
        ELSE {Append(q[1], q[2]) :
               q \in {r \in {p \in level[n - 1] : Opens(p)} \X (Entries \ Excluded) :
                        /\ r[2] \in Inside[Target(Last(r[1]))]
                        /\ ~LoopsBack(r[1], r[2])}}
  IN level

(* However links lead: each of them is followed once on a way, and then    *)
(* each directory met once until the next.                                 *)
Deepest == Cardinality(Dirs) * Cardinality(Dirs)

Expected(walk) ==
  {path \in UNION {Level(media.roots[walk])[n] : n \in 0 .. Deepest} :
     /\ FileType(Last(path)) \in {"dir", "audio"}
     /\ \A n \in 1 .. Len(path) : <<walk, SubSeq(path, 1, n)>> \notin failed}

(* A finished scan has found exactly that: every track and directory once  *)
(* for each configured directory it lies below, except what an error hid   *)
(* (scanner.rs, scan).                                                     *)
FindsEverythingOnce ==
  status = "built" =>
    /\ {<<nodes[id].walk, nodes[id].path>> : id \in DOMAIN nodes \ {Root}}
         = UNION {{walk} \X Expected(walk) : walk \in 1 .. Len(media.roots)}
    /\ \A id, other \in DOMAIN nodes \ {Root} :
         nodes[id].walk = nodes[other].walk /\ nodes[id].path = nodes[other].path
           => id = other

(* The scan never panics: a symlink left unresolved because follow_symlinks*)
(* is off is silently skipped, not an error (scanner.rs:106-109).          *)
NoPanic == status # "panicked"

(* container_at_depth[depth - 1] (scanner.rs:63) is in bounds after all    *)
(* but for one kind of tree: a configured directory that is itself a link, *)
(* with links not followed.  Whatever else the walk meets, errors and      *)
(* links back up included, its depths and the scanner's stack agree.       *)
LinkedRoot ==
  ~media.follow /\ \E i \in 1 .. Len(media.roots) : media.roots[i] \in Links

OnlyLinkedRootsPanic == status = "panicked" => LinkedRoot
=============================================================================
