--------------------------- MODULE MCControlPoint ---------------------------
(* For TLC: two folders in a media directory, one perhaps inside the other *)
(* and one perhaps a media directory itself, three tracks in them with all *)
(* sorts of names, tags and covers, and everything there is to ask.        *)
EXTENDS ControlPoint

Ann  == <<"Ann">>
Duo  == <<"Ann", "&", "Bob">>
Ke   == <<"Ke", "$", "ha">>

Stems == <<<<"1", "-", "0", "2", " ", "Ann">>, <<"0", "1", " ", "-", " ", "Bob">>,
           <<"2", "0", "0", "1", "-", "Live">>>>

Meant == <<Named(2, Ann), Named(1, <<"Bob">>), Named(None, Stems[3])>>

\* Upper case sorts before lower case.
Tokens == <<" ", "$", "&", "-", "0", "1", "2", "Ann", "Bob", "Ke", "Live", "Music",
            "The ", "ann", "bob", "ha", "ke", "live", "music", "the ">>

Lower == ("Ann" :> "ann") @@ ("Bob" :> "bob") @@ ("Ke" :> "ke") @@ ("Live" :> "live")
           @@ ("Music" :> "music") @@ ("The " :> "the ")

AllNames ==
  {Ann, <<"ann">>, <<"The ", "Bob">>, <<"Bob">>, <<"Live">>, <<"Music">>, Duo, Ke}
    \cup UNION {{SubSeq(stem, i, Len(stem)) : i \in DOMAIN stem} : stem \in ToSet(Stems)}

MCNames == AllNames

Key(name) == [i \in DOMAIN name |-> IF name[i] \in DOMAIN Lower THEN Lower[name[i]] ELSE name[i]]

Shelf(name) == IF Len(name) > 1 /\ name[1] = "The " THEN Tail(Key(name)) ELSE Key(name)

Before(k, l) ==
  LET common == Len(LongestCommonPrefix({k, l}))
  IN Len(l) > common /\ (Len(k) = common \/ SelectInSeq(Tokens, LAMBDA t : t = k[common + 1])
                                              < SelectInSeq(Tokens, LAMBDA t : t = l[common + 1]))

Place(name, Form(_)) == Cardinality({other \in AllNames : Before(Form(other), Form(name))})

RankTable == FoldSet(LAMBDA name, rank : rank @@ (name :> Place(name, LAMBDA n : n)), <<>>, AllNames)

ShelfTable == FoldSet(LAMBDA name, rank : rank @@ (name :> Place(name, Shelf)), <<>>, AllNames)

KeyTable == FoldSet(LAMBDA name, key : key @@ (name :> Key(name)), <<>>, AllNames)

\* What is overridden is evaluated each time, what it stands for only once.
MCRank == RankTable

MCShelfRank == ShelfTable

MCKeyOf == KeyTable

MCEscapes == (" " :> "%20") @@ ("&" :> "%26") @@ ("$" :> "%24") @@ ("the " :> "the%20")

View(view, most, title) == [view |-> view, count |-> most, title |-> <<title>>]

MCViews == <<View("folders", 0, "Folders"), View("albums", 0, "Albums"),
             View("artists", 0, "Artists"), View("songs", 0, "Songs"),
             View("recent_albums", 2, "New albums"), View("recent_songs", 1, "New songs")>>

-----------------------------------------------------------------------------
(* Disks.                                                                  *)

music == <<"1">>
two   == <<"2">>
three == <<"3">>
t1 == <<"4">>
t2 == <<"5">>
t3 == <<"6">>

DirOf == (Root :> "above") @@ (music :> "music") @@ (two :> "two") @@ (three :> "three")

Tag(title, number, artist, album, pictures) ==
  [title |-> title, number |-> number, artist |-> artist, album |-> album,
   pictures |-> pictures]

BackCover  == [front |-> FALSE, path |-> "back"]
FrontCover == [front |-> TRUE, path |-> "front"]

\* The tracks' tags, and whether the third is a link to elsewhere.
Taggings ==
  {[tags |-> <<None, None, None>>, link |-> FALSE],
   [tags |-> <<Tag(<<" ", "Ann", " ">>, 3, <<"ann">>, None, <<BackCover, FrontCover>>), None, None>>,
    link |-> TRUE],
   [tags |-> <<Tag(None, None, Duo, None, <<>>), Tag(None, None, Ann, None, <<>>),
               Tag(<<" ">>, 1, <<"ann">>, None, <<>>)>>, link |-> FALSE],
   [tags |-> <<None, Tag(<<"Live">>, None, Ke, Ke, <<>>),
               Tag(Ann, None, <<"The ", "Bob">>, None, <<BackCover>>)>>, link |-> FALSE]}

Image(path, base) == [path |-> path, base |-> base, image |-> TRUE, dir |-> FALSE, hint |-> FALSE]
Song(path)        == [path |-> path, base |-> "song", image |-> FALSE, dir |-> FALSE, hint |-> FALSE]
Dir(path, hint)   == [path |-> path, base |-> "dir", image |-> FALSE, dir |-> TRUE, hint |-> hint]

\* What lies in each folder beside its tracks.
Pictures ==
  [above : {<<>>}, art : {<<Image("scan", "scan")>>},
   beside : {[music |-> <<>>, two |-> <<>>, three |-> <<Dir("art", TRUE)>>],
             [music |-> <<Image("a", "a"), Image("folder", "folder")>>,
              two |-> <<Image("loose", "loose")>>, three |-> <<>>]}]

File(dir, i, tag, ext, target, modified) ==
  [dir |-> dir, stem |-> Stems[i], ext |-> ext, tag |-> tag, target |-> target,
   modified |-> modified, meant |-> Meant[i]]

Folder(lies, placed, id, title) ==
  LET Lies(child) == \/ child \in DOMAIN lies /\ lies[child] = id
                     \/ child \in DOMAIN placed /\ placed[child].parent = id
  IN id :> [parent |-> IF id = Root THEN None ELSE lies[id], title |-> title,
            children |-> SelectSeq(<<t3, music, two, three, t1, t2>>, Lies)]

Disk(lies, title, parents, tagging, pictures) ==
  LET placed == (t1 :> [parent |-> parents[1], path |-> "one"]) @@
                (t2 :> [parent |-> parents[2], path |-> "two"]) @@
                (t3 :> [parent |-> three, path |-> "three"])
      dir(i) == DirOf[parents[i]]
  IN [containers |-> Folder(lies, placed, Root, None) @@ Folder(lies, placed, music, <<"Music">>)
                       @@ Folder(lies, placed, two, title) @@ Folder(lies, placed, three, <<"Live">>),
      placed |-> placed,
      files  |-> ("one" :> File(dir(1), 1, tagging.tags[1], "mp3", "one", 1)) @@
                 ("two" :> File(dir(2), 2, tagging.tags[2], "flac", "two", 2)) @@
                 ("three" :> File("three", 3, tagging.tags[3], "ogg",
                                  IF tagging.link THEN "linked" ELSE "three", 3)) @@
                 ("linked" :> File("music", 3, tagging.tags[3], "opus", "linked", 3)),
      listing |-> [music |-> pictures.beside.music \o <<Song("one")>>,
                   two   |-> pictures.beside.two, three |-> pictures.beside.three,
                   above |-> pictures.above, art |-> pictures.art],
      above  |-> ("music" :> "above") @@ ("two" :> DirOf[lies[two]])
                   @@ ("three" :> DirOf[lies[three]]),
      within |-> {"music", "two", "three"}]

\* A media directory without a track.
EmptyDisk ==
  [containers |-> Folder(music :> Root, <<>>, Root, None)
                    @@ Folder(music :> Root, <<>>, music, <<"Music">>),
   placed |-> <<>>, files |-> <<>>, listing |-> <<>>, above |-> <<>>, within |-> {"music"}]

AllDisks ==
  {EmptyDisk} \cup
  {Disk((music :> Root) @@ (two :> lies[1]) @@ (three :> lies[2]), title, parents,
        tagging, pictures) :
     lies \in {<<music, two>>, <<music, music>>, <<Root, two>>}, title \in {Ann, <<"Bob">>},
     parents \in {<<music, three>>, <<two, two>>}, tagging \in Taggings,
     pictures \in Pictures}

\* Three albums, by two artists a shelf has at one place, or by the folders
\* they are in; two of one name, or all of one time, on some.
Shelved == [tags |-> <<Tag(Ann, None, Ann, None, <<>>), Tag(<<"Live">>, None, <<"Bob">>, Ann, <<>>),
                       Tag(<<"Live">>, None, <<"The ", "Bob">>, None, <<>>)>>, link |-> FALSE]

Untagged == [tags |-> <<None, None, None>>, link |-> FALSE]

AtOnce(laid, time) ==
  [laid EXCEPT !.files = [path \in DOMAIN @ |-> [@[path] EXCEPT !.modified = time]]]

AlbumDisks ==
  {Disk((music :> Root) @@ (two :> music) @@ (three :> music), title, <<music, two>>, tagging,
        [above |-> <<>>, art |-> <<>>,
         beside |-> [music |-> <<>>, two |-> <<>>, three |-> <<>>]]) :
     title \in {Ann, <<"Live">>}, tagging \in {Shelved, Untagged}}

MCDisks ==
  AllDisks \cup AlbumDisks
    \cup {AtOnce(d, 3) : d \in {laid \in AlbumDisks : laid.containers[two].title = Ann}}

-----------------------------------------------------------------------------
(* Questions.                                                              *)

Question(service, action, arguments) ==
  [service |-> service, action |-> action, arguments |-> arguments]

BrowseArguments ==
  [ObjectID |-> Root, BrowseFlag |-> <<"BrowseMetadata">>, StartingIndex |-> <<"+", "0">>,
   Filter |-> <<"a", "&", "b">>, RequestedCount |-> <<"9", "9", "9">>, SortCriteria |-> <<"+", "<", ">">>]

MCQuestions ==
  {Question("ContentDirectory", action, <<>>) :
     action \in {"GetSearchCapabilities", "GetSortCapabilities", "GetSystemUpdateID",
                 "GetProtocolInfo", "Browse", "Search"}} \cup
  {Question("ConnectionManager", action, <<>>) :
     action \in {"GetProtocolInfo", "GetCurrentConnectionIDs", "GetCurrentConnectionInfo",
                 "PrepareForConnection", "Browse"}} \cup
  {Question("ConnectionManager", "GetCurrentConnectionInfo", [ConnectionID |-> <<n>>]) :
     n \in {"0", "1"}} \cup
  {Question("ContentDirectory", "Browse", BrowseArguments),
   Question("ContentDirectory", "Browse", [BrowseArguments EXCEPT !.BrowseFlag = <<"Other">>])}

MCStyles == [header : BOOLEAN, short : BOOLEAN, pad : {<<>>, <<Event("text", " ")>>},
             references : {Entities, CharRefs}]
=============================================================================
