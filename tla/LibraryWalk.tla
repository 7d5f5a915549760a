---------------------------- MODULE LibraryWalk -----------------------------
(***************************************************************************)
(* A request for the albums while rescans exchange the index               *)
(* (content/music_library.rs, snapshot and albums; index.rs, SharedIndex). *)
(* The lock is taken for one container at a time: by the walk over         *)
(* everything, then for each album by resolve_album_facts and twice more   *)
(* by album_container, and ids mean something else in the next index.      *)
(* Requests only read, so one stands for all.  No track has an album tag   *)
(* here (LibraryViews has them).                                           *)
(***************************************************************************)
EXTENDS Lists

CONSTANTS
  Tracks,   \* the files
  Indexes,  \* what scans may find: [children, track, title], by id
  None      \* nothing, no entry

(* What the index builder guarantees (TreeScan, ParentsAndChildrenAgree):  *)
(* every id but the root's stands in one container, once, whose own id is  *)
(* smaller.                                                                *)
ASSUME IndexAssumption ==
  \A ix \in Indexes :
    LET containers == DOMAIN ix.children
        ids        == containers \cup DOMAIN ix.track
    IN /\ 0 \in containers /\ DOMAIN ix.title = containers
       /\ ids \subseteq Nat /\ IsFiniteSet(ids)
       /\ ix.track \in [DOMAIN ix.track -> Tracks]
       /\ containers \cap DOMAIN ix.track = {}
       /\ ix.children \in [containers -> Seq(ids)]
       /\ \A id \in containers : \A i \in DOMAIN ix.children[id] : ix.children[id][i] > id
       /\ \A id \in ids \ {0} : \E parent \in containers : id \in ToSet(ix.children[parent])
       /\ \A id, other \in containers :
            \A i \in DOMAIN ix.children[id], j \in DOMAIN ix.children[other] :
              ix.children[id][i] = ix.children[other][j] => id = other /\ i = j

Titles == UNION {{ix.title[id] : id \in DOMAIN ix.title} : ix \in Indexes}

ASSUME NoneAssumption == None \notin Tracks \cup [album : Nat, title : Titles]

VARIABLES
  index,    \* the index being served
  served,   \* history: the indexes served since the request came in
  phase,    \* "idle", "walking", "resolving", "listing" or "answered"
  stack,    \* the containers still to be read, the next one last
  items,    \* the items read so far, in order: [id, parent, file]
  todo,     \* the albums still to be resolved, or listed
  facts,    \* album -> its title, where it was resolved
  fetched,  \* the album being listed: [album, title], or None
  listed,   \* album -> [title, count], as answered
  played    \* the file a client was sent for the last id it chose, or None

vars == <<index, served, phase, stack, items, todo, facts, fetched, listed, played>>

Root == 0

(* Container children go on the stack, items into the answer.              *)
Folders(parent) == Only(index.children[parent], DOMAIN index.children)

(* Mutant: an item goes by its place in its folder.                        *)
FilesByPlace(parent) ==
  LET found == Only(index.children[parent], DOMAIN index.track)
  IN [i \in DOMAIN found |-> [id |-> parent + i, parent |-> parent,
                              file |-> index.track[found[i]]]]

Files(parent) ==
  LET found == Only(index.children[parent], DOMAIN index.track)
  IN [i \in DOMAIN found |-> [id |-> found[i], parent |-> parent,
                              file |-> index.track[found[i]]]]

Albums == {items[i].parent : i \in DOMAIN items}

Request ==
  /\ phase = "idle"
  /\ phase' = "walking"
  /\ stack' = <<Root>> /\ served' = {index}
  /\ UNCHANGED <<index, items, todo, facts, fetched, listed, played>>

(* Mutant: the container is left on the stack while others are read.       *)
ReadPeeking ==
  /\ phase = "walking" /\ stack # <<>>
  /\ IF Last(stack) \in DOMAIN index.children
     THEN /\ stack' = Front(stack) \o Folders(Last(stack))
          /\ items' = items \o Files(Last(stack))
     ELSE UNCHANGED <<stack, items>>
  /\ UNCHANGED <<index, served, phase, todo, facts, fetched, listed, played>>

(* Mutant: a container's folders replace what was still to be read.        *)
ReadForgetting ==
  /\ phase = "walking" /\ stack # <<>>
  /\ IF Last(stack) \in DOMAIN index.children
     THEN /\ stack' = Folders(Last(stack))
          /\ items' = items \o Files(Last(stack))
     ELSE stack' = Front(stack) /\ UNCHANGED items
  /\ UNCHANGED <<index, served, phase, todo, facts, fetched, listed, played>>

(* One container is read; an id that is none in the index any more, or an  *)
(* item's, is passed over.                                                 *)
Read ==
  /\ phase = "walking" /\ stack # <<>>
  /\ IF Last(stack) \in DOMAIN index.children
     THEN /\ stack' = Front(stack) \o Folders(Last(stack))
          /\ items' = items \o Files(Last(stack))
     ELSE stack' = Front(stack) /\ UNCHANGED items
  /\ UNCHANGED <<index, served, phase, todo, facts, fetched, listed, played>>

EndWalk ==
  /\ phase = "walking" /\ stack = <<>>
  /\ phase' = "resolving" /\ todo' = Albums
  /\ UNCHANGED <<index, served, stack, items, facts, fetched, listed, played>>

(* resolve_album_facts comes to each album once; what is no container any  *)
(* more resolves to nothing.                                               *)
Resolve(album) ==
  /\ phase = "resolving" /\ album \in todo
  /\ todo' = todo \ {album}
  /\ facts' = [id \in DOMAIN facts \cup ({album} \cap DOMAIN index.children) |->
                 IF id \in DOMAIN facts THEN facts[id] ELSE index.title[id]]
  /\ UNCHANGED <<index, served, phase, stack, items, fetched, listed, played>>

EndSnapshot ==
  /\ phase = "resolving" /\ todo = {}
  /\ phase' = "listing" /\ todo' = Albums
  /\ UNCHANGED <<index, served, stack, items, facts, fetched, listed, played>>

(* album_container takes the container, with the title resolved before;    *)
(* what is none any more is left out.                                      *)
Fetch(album) ==
  /\ phase = "listing" /\ fetched = None /\ album \in todo
  /\ todo' = todo \ {album}
  /\ fetched' = IF album \notin DOMAIN index.children THEN None
                ELSE [album |-> album,
                      title |-> IF album \in DOMAIN facts THEN facts[album]
                                ELSE index.title[album]]
  /\ UNCHANGED <<index, served, phase, stack, items, facts, listed, played>>

(* Mutant: folders in an album are counted as tracks of it.                *)
CountChildren ==
  /\ phase = "listing" /\ fetched # None
  /\ listed' = [album \in DOMAIN listed \cup {fetched.album} |->
                  IF album \in DOMAIN listed THEN listed[album]
                  ELSE [title |-> fetched.title,
                        count |-> IF album \in DOMAIN index.children
                                  THEN Len(index.children[album]) ELSE 0]]
  /\ fetched' = None
  /\ UNCHANGED <<index, served, phase, stack, items, todo, facts, played>>

(* ... and then counts its tracks, none if it is no container by now.      *)
CountTracks ==
  /\ phase = "listing" /\ fetched # None
  /\ listed' = [album \in DOMAIN listed \cup {fetched.album} |->
                  IF album \in DOMAIN listed THEN listed[album]
                  ELSE [title |-> fetched.title,
                        count |-> IF album \in DOMAIN index.children
                                  THEN Len(Files(album)) ELSE 0]]
  /\ fetched' = None
  /\ UNCHANGED <<index, served, phase, stack, items, todo, facts, played>>

Answer ==
  /\ phase = "listing" /\ fetched = None /\ todo = {}
  /\ phase' = "answered" /\ facts' = <<>>
  /\ UNCHANGED <<index, served, stack, items, todo, fetched, listed, played>>

(* The client asks for a track it was listed; its id is looked up in the   *)
(* index as it is by then.                                                 *)
Play(i) ==
  /\ phase = "answered" /\ i \in DOMAIN items
  /\ played' = IF items[i].id \in DOMAIN index.track THEN index.track[items[i].id] ELSE None
  /\ UNCHANGED <<index, served, phase, stack, items, todo, facts, fetched, listed>>

(* The client is done with the answer.                                     *)
Close ==
  /\ phase = "answered"
  /\ phase' = "idle"
  /\ items' = <<>> /\ listed' = <<>> /\ served' = {} /\ played' = None
  /\ UNCHANGED <<index, stack, todo, facts, fetched>>

(* The rescan loop publishes what it found.                                *)
Replace ==
  /\ index' \in Indexes \ {index}
  /\ served' = IF phase \in {"idle", "answered"} THEN served ELSE served \cup {index'}
  /\ UNCHANGED <<phase, stack, items, todo, facts, fetched, listed, played>>

Init ==
  /\ index \in Indexes
  /\ served = {} /\ phase = "idle" /\ stack = <<>> /\ items = <<>> /\ todo = {}
  /\ facts = <<>> /\ fetched = None /\ listed = <<>> /\ played = None

Thread ==
  \/ Read \/ EndWalk \/ EndSnapshot \/ CountTracks \/ Answer
  \/ \E album \in Albums : Resolve(album) \/ Fetch(album)

Next == Request \/ Thread \/ (\E i \in DOMAIN items : Play(i)) \/ Close \/ Replace

(* The request's thread goes on; nobody has to rescan, or to ask.          *)
Spec == Init /\ [][Next]_vars /\ WF_vars(Thread)

-----------------------------------------------------------------------------
(* Properties.                                                             *)

Held(ix) == {ix.track[id] : id \in DOMAIN ix.track}

Times(file) == Cardinality({i \in DOMAIN items : items[i].file = file})

(* What is listed was in an index served meanwhile, and while no rescan    *)
(* comes between, every file is listed as often as it is held              *)
(* (music_library.rs, all_items).                                          *)
ListsOnlyServed ==
  phase = "answered" =>
    /\ {items[i].file : i \in DOMAIN items} \subseteq UNION {Held(ix) : ix \in served}
    /\ \A ix \in Indexes : served = {ix} =>
         \A file \in Tracks :
           Times(file) = Cardinality({id \in DOMAIN ix.track : ix.track[id] = file})

(* The tracks an index holds right in a container, if it is one there.     *)
TracksIn(ix, album) ==
  DOMAIN ix.track \cap UNION {ToSet(ix.children[c]) : c \in {album} \cap DOMAIN ix.children}

(* The title and the count of an album listed may come from different      *)
(* indexes, but each from one that was served meanwhile and had that album *)
(* under that id; while no rescan comes between, all albums of the index   *)
(* are listed, as they are in it (music_library.rs, album_container, which *)
(* reads the index again for what snapshot derived from it).               *)
AlbumsAsServed ==
  phase = "answered" =>
    /\ \A album \in DOMAIN listed :
         /\ \E ix \in served : album \in DOMAIN ix.title
                               /\ ix.title[album] = listed[album].title
         /\ \E ix \in served : listed[album].count = Cardinality(TracksIn(ix, album))
    /\ \A ix \in Indexes : served = {ix} =>
         listed = [album \in {id \in DOMAIN ix.children : TracksIn(ix, id) # {}} |->
                     [title |-> ix.title[album], count |-> Cardinality(TracksIn(ix, album))]]

(* However often the index is exchanged under it, a request is answered:   *)
(* children have greater ids in every index (music_library.rs, all_items;  *)
(* index.rs, IndexBuilder).                                                *)
Answered == phase = "walking" ~> phase = "answered"

(* A client is sent the very track an id was listed for as long as the     *)
(* index is the one that was listed from, or is that again: rescans that   *)
(* find the same leave ids good (http/mod.rs, resolve_item_path; others do *)
(* not, docs/PLAN.md:394: object IDs are reassigned each rescan).          *)
PlaysWhatWasListed ==
  [][\A i \in DOMAIN items :
       Play(i) /\ served = {index} => played' = items[i].file]_vars

(* A file in every index served meanwhile is listed (index.rs:336-340: all *)
(* see the same data, including after a rescan replaces it wholesale).     *)
ListsWhatStays ==
  phase = "answered" =>
    \A file \in Tracks : (\A ix \in served : file \in Held(ix)) => Times(file) > 0
=============================================================================
