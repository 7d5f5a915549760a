---------------------------- MODULE LibraryViews ----------------------------
(***************************************************************************)
(* The views a client browses: the folders as they are (content/folder.rs) *)
(* and the albums, artists, songs and recent additions derived from them   *)
(* (content/music_library.rs).  Nothing of a view is kept: every request   *)
(* derives it from the index again, in maps whose iteration order differs  *)
(* each time.  ContentDirectory serves these listings and ControlPoint     *)
(* reads them; the index stands still here, LibraryWalk is about one that  *)
(* does not.  A text is a sequence of tokens, an id is a text.             *)
(***************************************************************************)
EXTENDS Texts, Integers

CONSTANTS
  Names,       \* titles and tags, trimmed
  Rank,        \* name -> its place in string order
  ShelfRank,   \* name -> its place when case and a leading "The" do not count
  KeyOf,       \* name -> the text of its normal form, the same for spellings of one name
  Escapes,     \* token of a key outside ASCII letters, digits and -._ -> its %XX
  Cutoff       \* the modification time a recent addition is not older than

(* Two names are at the same place only if they are the same text; on a    *)
(* shelf they need not be.                                                 *)
ASSUME RankAssumption ==
  /\ Rank \in [Names -> Nat] /\ ShelfRank \in [Names -> Nat]
  /\ \A a, b \in Names : Rank[a] = Rank[b] => a = b
ASSUME KeyAssumption  == KeyOf \in [Names -> Seq(STRING)]

(* What a byte is escaped to holds nothing that would be; a space is.      *)
ASSUME EscapesAssumption ==
  /\ " " \in DOMAIN Escapes /\ "tag-artist:" \notin DOMAIN Escapes
  /\ \A token \in DOMAIN Escapes : Escapes[token] \in STRING \ DOMAIN Escapes

ASSUME NoneAssumption == None \notin Names
ASSUME CutoffAssumption == Cutoff \in Nat

VARIABLE lib   \* the index being served: [containers, items]

(* The id of the index's, and of every view's, root.                       *)
Root == <<"0">>

Containers == DOMAIN lib.containers
Items == DOMAIN lib.items

(* An index as the builder leaves it (index.rs; TreeScan has the scan).    *)
(* Ids are numbers written out.                                            *)
NumberedIds(ids) ==
  \A id \in ids : /\ id \in Seq(STRING) /\ id # <<>> /\ id # None
                  /\ ToSet(id) \cap DOMAIN Escapes = {} /\ id[1] # "tag-artist:"

(* Each folder but the root is in another, each child's parent is where it *)
(* is listed, and there are only so many folders on the way down.          *)
FoldersNest(containers, ids) ==
  /\ Root \in DOMAIN containers /\ containers[Root].parent = None
  /\ \A id \in DOMAIN containers \ {Root} :
       containers[id].parent \in DOMAIN containers /\ containers[id].title \in Names
  /\ \A id \in DOMAIN containers : containers[id].children \in Seq(ids)
  /\ \E height \in [DOMAIN containers -> 0 .. Cardinality(DOMAIN containers)] :
       \A id \in DOMAIN containers \ {Root} : height[id] < height[containers[id].parent]

ItemsTyped(items, folders) ==
  \A id \in DOMAIN items :
    /\ items[id].parent \in folders /\ items[id].path # None
    /\ items[id].title \in Names /\ items[id].number \in Nat \cup {None}
    /\ items[id].artist \in Names \cup {None} /\ items[id].album \in Names \cup {None}
    /\ items[id].modified \in Nat /\ items[id].has_art \in BOOLEAN

ChildrenAgree(index) ==
  \A id \in DOMAIN index.containers :
    LET children == index.containers[id].children
    IN \A i \in DOMAIN children :
         \/ /\ children[i] \in DOMAIN index.containers \ {Root}
            /\ index.containers[children[i]].parent = id
         \/ children[i] \in DOMAIN index.items /\ index.items[children[i]].parent = id

(* Every id is listed once, where its parent is (TreeScan, WellFormed).     *)
ChildrenListed(index) ==
  /\ \A id \in DOMAIN index.containers : IsInjective(index.containers[id].children)
  /\ \A id \in DOMAIN index.containers \ {Root} :
       id \in ToSet(index.containers[index.containers[id].parent].children)
  /\ \A id \in DOMAIN index.items :
       id \in ToSet(index.containers[index.items[id].parent].children)

IndexBuilt(index) ==
  LET ids == DOMAIN index.containers \cup DOMAIN index.items
  IN /\ DOMAIN index.containers \cap DOMAIN index.items = {}
     /\ IsFiniteSet(ids)
     /\ NumberedIds(ids) /\ FoldersNest(index.containers, ids)
     /\ ItemsTyped(index.items, DOMAIN index.containers \ {Root}) /\ ChildrenAgree(index)
     /\ ChildrenListed(index)

IsContainer(id) == id \in Containers
IsItem(id) == id \in Items

(* A container, and an item, as a view lists it.                           *)
Listed(id, parent, title, count) ==
  [id |-> id, parent |-> parent, title |-> title, count |-> count,
   path |-> None, artist |-> None, album |-> None, has_art |-> FALSE]

Track(id, item) ==
  [id |-> id, parent |-> item.parent, title |-> item.title, count |-> 0,
   path |-> item.path, artist |-> item.artist, album |-> item.album,
   has_art |-> item.has_art]

RootEntry(count) == Listed(Root, None, None, count)

Ids(listing) == {listing[i].id : i \in DOMAIN listing}

-----------------------------------------------------------------------------
(* Sorting: keys are compared part by part, equal keys keep their order.   *)

Less(k, l) ==
  \E n \in DOMAIN k : k[n] < l[n] /\ \A m \in 1 .. n - 1 : k[m] = l[m]

(* Those of these keys that come before the one at j.                      *)
Earlier(keys, j) ==
  {i \in DOMAIN keys : Less(keys[i], keys[j]) \/ (keys[i] = keys[j] /\ i < j)}

StableSort(seq, keys) ==
  LET place(i) == CHOOSE j \in DOMAIN keys : Cardinality(Earlier(keys, j)) = i - 1
  IN [i \in DOMAIN keys |-> seq[place(i)]]

(* Entries taken from a map are sorted out of any order.                   *)
SortedAnyhow(key) ==
  {seq \in SetToSeqs(DOMAIN key) :
     \A i \in 2 .. Len(seq) : ~Less(key[seq[i]], key[seq[i - 1]])}

ByTitle(entry) == <<Rank[entry.title]>>

ByShelf(entry) == <<ShelfRank[entry.title], Rank[entry.title]>>

(* Containers by title, then tracks by number, then the ones without.      *)
ByKindAndNumber(entry) ==
  IF IsContainer(entry.id) THEN <<0, 0, 0, Rank[entry.title]>>
  ELSE LET number == lib.items[entry.id].number
       IN IF number = None THEN <<1, 1, 0, Rank[entry.title]>>
          ELSE <<1, 0, number, Rank[entry.title]>>

(* An album or song by its age: later times come first.                    *)
ByAge(modified) == <<-modified>>

First(count, listing) == SubSeq(listing, 1, Min({count, Len(listing)}))

-----------------------------------------------------------------------------
(* The index itself, and the folders view.                                 *)

RealEntry(id) ==
  IF IsItem(id) THEN Track(id, lib.items[id])
  ELSE Listed(id, lib.containers[id].parent, lib.containers[id].title,
              Len(lib.containers[id].children))

(* Nothing if the index does not know the id.                              *)
real_entry(id) == {RealEntry(known) : known \in {id} \cap (Containers \cup Items)}

real_entries(ids) == [i \in DOMAIN ids |-> RealEntry(ids[i])]

(* Every item, the container pushed last first.                            *)
all_items ==
  LET visit[id \in Containers] ==
        LET children == lib.containers[id].children
            folders  == Reverse(Only(children, Containers))
        IN Only(children, Items)
             \o FlattenSeq([i \in DOMAIN folders |-> visit[folders[i]]])
  IN visit[Root]

-----------------------------------------------------------------------------
(* The snapshot a music library view takes of the index: its items, what   *)
(* each album resolves to, and the artists with their albums.              *)

album_ids(items) == {lib.items[item].parent : item \in ToSet(items)}

(* The one value the tracks of an album that have the tag agree on, spelt  *)
(* as the first of them spells it.                                         *)
consistent_tag_value(items, album, tag) ==
  LET tracks == Only(items, {item \in Items :
                  lib.items[item].parent = album /\ lib.items[item][tag] # None})
  IN IF Cardinality({KeyOf[lib.items[item][tag]] : item \in ToSet(tracks)}) = 1
     THEN lib.items[tracks[1]][tag]
     ELSE None

(* Mutant: the key as it is.                                               *)
KeepKey(key) == key

percent_encode(key) ==
  [i \in DOMAIN key |-> IF key[i] \in DOMAIN Escapes THEN Escapes[key[i]] ELSE key[i]]

TagArtist(key) == <<"tag-artist:">> \o percent_encode(key)

(* Mutant: a folder is an artist of its own, whatever its name.            *)
FolderAlwaysItsOwn(album, tag_artist_keys) ==
  LET parent == lib.containers[album].parent
  IN [key |-> IF parent \in {Root, None} THEN None ELSE parent, raw |-> None]

(* An album whose tags name no artist goes under its parent folder, or the *)
(* tagged artist of that name; directly below the root, under none.        *)
folder_artist_key(album, tag_artist_keys) ==
  LET parent == lib.containers[album].parent
      title  == lib.containers[parent].title
  IN IF parent \in {Root, None} THEN [key |-> None, raw |-> None]
     ELSE IF KeyOf[title] \in tag_artist_keys
     THEN [key |-> TagArtist(KeyOf[title]), raw |-> title]
     ELSE [key |-> parent, raw |-> None]

resolve_album_facts(items) ==
  LET tags == {[album |-> album, artist |-> consistent_tag_value(items, album, "artist"),
                title |-> consistent_tag_value(items, album, "album")] :
                 album \in album_ids(items)}
      tag_artist_keys == {KeyOf[t.artist] : t \in {u \in tags : u.artist # None}}
      Artist(t) ==
        IF t.artist = None THEN folder_artist_key(t.album, tag_artist_keys)
        ELSE [key |-> TagArtist(KeyOf[t.artist]), raw |-> t.artist]
      Title(t) ==
        IF t.title = None THEN lib.containers[t.album].title ELSE t.title
  IN {[album |-> t.album, title |-> Title(t), artist |-> Artist(t)] : t \in tags}

(* A tagged artist is named by the least of its spellings.                 *)
build_artist_containers(facts) ==
  LET Facts(id) == {fact \in facts : fact.artist.key = id}
      Spellings(id) == {fact.artist.raw : fact \in Facts(id)}
      Title(id) ==
        IF IsContainer(id) THEN lib.containers[id].title
        ELSE CHOOSE name \in Spellings(id) :
               \A other \in Spellings(id) : Rank[name] <= Rank[other]
  IN {[id |-> id, title |-> Title(id), albums |-> {fact.album : fact \in Facts(id)}] :
        id \in {fact.artist.key : fact \in facts} \ {None}}

(* Mutant: the folder loses both of its roles.                             *)
DropBothRoles(artists) ==
  LET ids    == {artist.id : artist \in artists}
      albums == UNION {artist.albums : artist \in artists}
  IN {[artist EXCEPT !.albums = @ \ ids] :
        artist \in {a \in artists : a.id \notin albums}}

(* A folder that is an artist is listed as one, and not as an album too.   *)
apply_dual_role_exclusion(artists) ==
  LET ids == {artist.id : artist \in artists}
  IN {[artist EXCEPT !.albums = @ \ ids] : artist \in artists}

snapshot_of(items, facts) ==
  [items |-> items, album_ids |-> album_ids(items), facts |-> facts,
   artists |-> apply_dual_role_exclusion(build_artist_containers(facts))]

Snapshot == CHOOSE snapshot \in {snapshot_of(items, resolve_album_facts(items)) :
                                   items \in {all_items}} : TRUE

Fact(snapshot, album) == CHOOSE fact \in snapshot.facts : fact.album = album

-----------------------------------------------------------------------------
(* The listings of a music library view.                                   *)

Tracks(album) == Only(lib.containers[album].children, Items)

Sorted(ids) ==
  LET entries == real_entries(ids)
  IN StableSort(entries, [i \in DOMAIN entries |-> ByKindAndNumber(entries[i])])

tracks_of_album(album) == Sorted(Tracks(album))

album_container(snapshot, album) ==
  Listed(album, lib.containers[album].parent, Fact(snapshot, album).title,
         Len(Tracks(album)))

Under(parent, entry) == [entry EXCEPT !.parent = parent]

reparent_to_root(entry) == Under(Root, entry)

all_songs(snapshot) ==
  LET songs == real_entries(snapshot.items)
  IN {StableSort(songs, [i \in DOMAIN songs |-> ByTitle(songs[i])])}

album_containers(snapshot, ids) == {album_container(snapshot, album) : album \in ids}

albums(snapshot) ==
  SortedAnyhow([e \in album_containers(snapshot, snapshot.album_ids) |-> ByTitle(e)])

artist_container(artist) ==
  Listed(artist.id, None, artist.title, Cardinality(artist.albums))

(* Mutant: artists that are alike on the shelf come in any order.          *)
ArtistsByShelfAlone(snapshot) ==
  SortedAnyhow([e \in {artist_container(a) : a \in snapshot.artists} |->
                  <<ShelfRank[e.title]>>])

artists(snapshot) ==
  SortedAnyhow([e \in {artist_container(a) : a \in snapshot.artists} |-> ByShelf(e)])

(* Mutant: an album keeps the folder it is in for its parent.              *)
AlbumsWhereTheyAre(snapshot, artist) ==
  SortedAnyhow([e \in album_containers(snapshot, artist.albums) |-> ByTitle(e)])

albums_under_artist(snapshot, artist) ==
  SortedAnyhow([e \in {Under(artist.id, a) : a \in album_containers(snapshot, artist.albums)} |->
                  ByTitle(e)])

recently_added_songs(snapshot, count) ==
  LET recent == Only(snapshot.items, {item \in Items : lib.items[item].modified >= Cutoff})
      ages   == [i \in DOMAIN recent |-> ByAge(lib.items[recent[i]].modified)]
  IN {First(count, StableSort(real_entries(recent), ages))}

(* An album is as new as its newest track.                                 *)
Newest(album) ==
  Max({lib.items[item].modified : item \in {i \in Items : lib.items[i].parent = album}})

recently_added_albums(snapshot, count) ==
  LET recent == {album \in snapshot.album_ids : Newest(album) >= Cutoff}
      ages == [e \in album_containers(snapshot, recent) |-> ByAge(Newest(e.id))]
  IN {First(count, listing) : listing \in SortedAnyhow(ages)}

TopLevel(mode, snapshot) ==
  {[i \in DOMAIN listing |-> reparent_to_root(listing[i])] :
     listing \in CASE mode.view = "songs"         -> all_songs(snapshot)
                   [] mode.view = "albums"        -> albums(snapshot)
                   [] mode.view = "artists"       -> artists(snapshot)
                   [] mode.view = "recent_songs"  -> recently_added_songs(snapshot, mode.count)
                   [] mode.view = "recent_albums" -> recently_added_albums(snapshot, mode.count)}

children_within(mode, id, snapshot) ==
  LET artist   == {a \in snapshot.artists : a.id = id}
      album    == {id} \cap snapshot.album_ids
  IN IF mode.view = "folders"
     THEN {Sorted(lib.containers[c].children) : c \in {id} \cap Containers}
     ELSE IF id = Root THEN TopLevel(mode, snapshot)
     ELSE IF mode.view = "artists" /\ artist # {}
     THEN UNION {albums_under_artist(snapshot, a) : a \in artist}
     ELSE IF mode.view \in {"albums", "artists", "recent_albums"}
     THEN {tracks_of_album(a) : a \in album}
     ELSE {}

(* The listings children() may answer with; none if id has no children.    *)
Children(mode, id) == children_within(mode, id, Snapshot)

entry_within(mode, id, snapshot) ==
  LET Album(album, artist) ==
        IF mode.view = "artists" THEN Under(Or(artist, Root), album) ELSE album
      Deeper ==
        IF mode.view \in {"albums", "artists", "recent_albums"} /\ id \in snapshot.album_ids
        THEN {Album(album_container(snapshot, id), Fact(snapshot, id).artist.key)}
        ELSE real_entry(id)
      Answer(listing) ==
        IF id = Root THEN {RootEntry(Len(listing))}
        ELSE LET i == SelectInSeq(listing, LAMBDA entry : entry.id = id)
             IN IF i = 0 THEN Deeper ELSE {listing[i]}
  IN IF mode.view = "folders" THEN real_entry(id)
     ELSE UNION {Answer(listing) : listing \in TopLevel(mode, snapshot)}

(* The answers entry() may give; none if there is no such id.              *)
Entries(mode, id) == entry_within(mode, id, Snapshot)
=============================================================================
