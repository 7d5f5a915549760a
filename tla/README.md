# dlna-rs in TLA+

Specifications of `dlna-rs`, a DLNA/UPnP music server for the local network:
TLA+ modules translated from its Rust source (`src/`), TLC configurations that
check them on small instances, and proofs, checked by TLAPS, of the results that
matter most. `PROJECT.json` maps every definition to the source lines it stands
for, and lists the runs, the hazards they are aimed at, and the theorems.

    tlc -workers 2 -config RescanCached.cfg MCRescan     # any run of the table below
    tlapm RescanProofs.tla                               # any *Proofs module

Contents: [the system](#the-system) · [modules](#the-modules) · [runs](#the-runs) ·
[what the code gets wrong](#where-code-and-documents-disagree) · [fairness](#fairness) ·
[proofs](#proofs) · [assumptions](#what-is-assumed) · [not modelled](#what-is-not-modelled) ·
[plan](#plan)

## The system

One process on tokio. It announces itself over SSDP, answers UPnP ContentDirectory
requests over SOAP, serves the files over HTTP, and rescans its media directories
on a timer. All of them meet in one place, the `SharedIndex`: the rescan loop
exchanges the whole index under a lock, and every request reads it, node by node,
under the same lock. Ids are positions in one index; the next index numbers anew.

    media directories --(walk, stat, read)--> scanner --> IndexBuilder --> Index
                                                 |                          | replace
                          TagMetadata <-- CachedTagMetadata (redb)      SharedIndex
                                                                          |  children, entry
      SSDP <-- announcer, responder         six views <-- composite <-- Browse <-- SOAP
      files <--(canonicalize, stat, open, read)-- handle_item <-- HTTP GET, HEAD

| component | state it keeps | operations | interacts by | what is hard | what makes it correct |
|---|---|---|---|---|---|
| rescan loop (`rescan.rs`) | none between scans | `run`, `rescan_once`, `build_tags` | calls scanner and cache on a blocking thread; `replace` | a scan is thousands of system calls under which files change; panics; `abort` does not stop the thread | the index is exchanged whole, right about every file left alone, and catches up when all are |
| tag cache (`metadata/tag_cache.rs`) | a redb table path → (size, mtime, tags), committed with `Durability::None` | `metadata` (lookup, parse, store), `retain_only` | called by the walk | stat, lookup, read and store are four moments; failing transactions; a crash rolls the table back | a record under a file's current stamp is that file's tags; nothing is parsed twice without need |
| tag reader, covers (`metadata/tags.rs`, `cover_files.rs`) | none | `metadata`, `art` | called by cache or walk | a failed read looks like an untagged file; art depends on other files | an item says of its file what a reader would find |
| scanner, builder (`scanner.rs`, `index.rs`) | `container_at_depth`, the nodes so far | `scan`, `insert` | pulls entries out of walkdir | a tree rebuilt from a flat stream, with filters, links and errors | each entry in the folder it lies in, once |
| shared index (`index.rs`) | the current `Index` | `replace`, `children`, `entry` | lock | readers need many reads, the index is exchanged between two | an answer lists what was served |
| music library views, folders (`content/`) | none | `children`, `entry` of Folders, All songs, Albums, Artists, recent albums and songs | read `SharedIndex` several times per request | listings derived in several ways out of maps with random order; albums with two roles; spellings of one artist | listings, entries and counts agree; no track is hidden or repeated |
| composite (`content/composite.rs`) | the mounts | `children`, `entry` | prefixes ids | an id must cross both ways unchanged, and may hold a `$` of its own | what is listed can be opened, and names the parent it was listed under |
| actions (`core/dispatch.rs`) | none | `Browse`, `paginate`, the other six actions of two services | calls the composite | pages are cut from lists made anew each time; optional, missing and odd arguments | pages add up to the listing; what a service describes is what it answers |
| file serving (`core/http/mod.rs`, `range.rs`, `transform/`) | none between requests | GET, HEAD of an item, of its art | resolves ids in the index, reads files | four system calls and a long stream while files change; u64 offsets | the bytes asked for, of one file |
| discovery (`core/ssdp/`) | the responder's socket | alive, periodic alive, byebye, search answers | UDP multicast | loss, overtaking, expiry, abort in the middle, restart under the same or another uuid | a running server stays known, a stopped one goes; searches are answered by what is searched for |
| startup, shutdown (`main.rs`) | the tasks | start order, abort, exit | spawns and aborts all of them | what is still under way when `abort` returns | nothing is announced that is not there |
| SOAP, DIDL, descriptions (`soap.rs`, `didl/`, `router.rs`, `scpd.rs`, `description.rs`) | none | parse a body, write a listing, route a request | between HTTP and the actions | a body arrives in pieces, in many ways of writing the same | an id survives the way out and back |
| file names (`metadata/filename.rs`) | none | `parse_track_number` | called by the tag reader | digits in front of a name mean three things | an album plays in its order |
| configuration (`config.rs`, `net.rs`, `device.rs`) | none | load, validate, `max_age` | read once by `main` | what is validated in one place is relied on in another | no `expect` of `main` fails |

Hazards, each at its line, are in `PROJECT.json`. Two have no property, and say why:
a responder whose socket keeps failing spins (`ssdp/mod.rs:70`), which changes no
state a property could speak of, and the constant UpdateID (`dispatch.rs:127`) leaves
nothing to check.

## The modules

| module | models | state ↔ code | actions ↔ code |
|---|---|---|---|
| `LibraryContract` | what the rescan loop promises the views | `disk`, `index`; `dirtyScan`, `dirtyIndex` remember the files touched since the running scan, and the scan behind the index, began | `Touch`, `Begin`, `Publish` (the index, whole), `Abandon`, `Lose` |
| `Rescan` | `rescan.rs`, the walk's reads in `scanner.rs`, `tags.rs`, `tag_cache.rs`, the life of the process in `main.rs` | `pc` is the step of `rescan_once`; `todo`, `cur`, `seen`, `key`, `got`, `build`, `stale` are the locals of walk and cache; `cache` is the database as this process sees it, `durable` what a crash leaves | one per system call or transaction: find an entry, stat, lookup, parse, look for a cover, store, prune, replace; with them the writers of the files, crashes, aborts, panics |
| `TreeScan` | `scan` and `scan_one_directory` over walkdir's stream; `IndexBuilder` | `open` is walkdir's stack, `container_at_depth` the scanner's, `nodes` and `next_id` the builder's | one per kind of entry the walk yields: `Skip`, `VisitDir`, `VisitAudio`, other files, an orphan's panic |
| `Texts` | – | texts as sequences of tokens | `trim`, `Or` |
| `Lists` | – | – | `Only`: what a loop over children collects, in `LibraryViews` and `LibraryWalk` |
| `TrackMetadata` | `metadata/filename.rs`, `metadata/tags.rs`, `metadata/cover_files.rs` | a disk is a record: files with their tags, each directory's listing, the directories above | `metadata` (what the scan keeps of a file), `find_art` (what a request for its cover gets), operators named as in the code |
| `LibraryViews` | `content/music_library.rs`, `content/folder.rs` | `lib` is the index, held still | the views' `children` and `entry`, each returning the *set* of answers a HashMap's order allows |
| `Soap` | `core/soap.rs` | a body is the XML reader's events | `parse_action` over the events; `Element`, `Escaped`: how a body is written |
| `ContentDirectory` | `content/composite.rs`, `core/dispatch.rs`, `core/didl/`, `core/http/router.rs`, `description.rs`, `scpd.rs`, the file and cover an id leads to in `http/mod.rs` | `disk` under `lib`; `Views` is `library.views` | `handle`: an HTTP request to the set of its responses |
| `ControlPoint` | the walk of `examples/verify_music_library.rs` and the playback of `verify_item_playback.rs`, against `ContentDirectory` | `queue`, `visited`, `expected`, `current`, `page`, `total`, `seen` are the example's locals; `passed` its exit code | `Open`, `Browse` (one page), `EndWalk`, `check_fault_701`, `check_playback`, `Ask` (any action, written in any style) |
| `LibraryWalk` | a request for the albums (`snapshot`, `all_items`, `resolve_album_facts`, `album_container`, `tracks_of_album`) and the track played from it, while rescans exchange the index | `stack`, `items`, `facts`, `fetched`, `listed`: the locals; `served` remembers the indexes of the meantime | one step per taking of the lock: `Read` a container, `Resolve`, `Fetch`, `CountTracks`; `Play`, `Close` of the client; `Replace` |
| `ItemServe` | `handle_item`, `range::parse`, `PassthroughSource` | `resolved`, `file_size`, `file` are the handler's locals; `answer`, `body` what the client got; `moved`, `edited` remember what happened to the file | `Resolve` (canonicalize), `Stat`, `Open`, `Stream` (one read), and `Repoint`, `Put`, `Edit` of those who write the disk |
| `Presence` | what discovery promises the network | `running`, `ended`; `lease`: until when a control point takes a target for present | `Come`, `Go`, `Renew`, `GiveUp`, `Tick` |
| `Discovery` | `core/ssdp/`, `main.rs` from its arguments to its end, `config.rs` | `main` is where `main()` is, `wake` the announcer's sleep, `inbox` the responder's socket; `net`, `asking` the datagrams on their way; `lease`, `search`, `found` the control point's | `Start`, `BindSsdp`, `BindHttp`, `AnnounceFirst`, `Announce`, `Respond`, `Stop` (both tasks aborted wherever they are in what they send), `SayByebye`, `Kill`; `Deliver`, `Lose`, `Ask`, `DeliverSearch`, `LoseSearch`, `Close`, `Tick` |
| `MC…` | – | instances for TLC | – |
| `RescanProofs`, `TreeScanProofs`, `LibraryWalkProofs`, `ItemServeProofs`, `DiscoveryProofs`, `LibraryViewsProofs`, `ControlPointProofs` | – | inductive invariants | theorems |
| `NatRecursion` | – | – | induction and recursion over the naturals, for the loops and recursive functions of the others |

`Rescan` implements `LibraryContract` (`Contract == INSTANCE LibraryContract`, the
variables by the same names, everything else hidden), and `Discovery` implements
`Presence` (`running` is the process there is, times and leases by the same names;
tasks, datagrams and searches hidden). `ControlPoint` extends `ContentDirectory`,
which extends `LibraryViews`, `TrackMetadata` and `Soap`: a request crosses all of
the server between two reads of its socket. `TreeScan`'s `ParentsAndChildrenAgree`,
a theorem, is what `LibraryWalk` assumes of every index (`IndexAssumption`).
`Rescan` treats an index as a map from paths to items; where an item sits in the
tree is `TreeScan`'s subject.

Operators whose comment begins with "Mutant:" are wrong on purpose: each is a bug
one could write there, and the property `PROJECT.json` pairs it with fails once it
takes the right one's place. No specification uses them.

## The runs

| run | asks | bounds, and why they are enough |
|---|---|---|
| `rescan_cached` | With the cache on and files rewritten and removed between any two system calls, the process killed, aborted or panicking once: is the cache right (`CacheSound`), are files parsed only for a reason (`ReparseOnlyTouched`), does the loop keep its contract (`ImplementsContract`) and catch up (`Converges`)? | two files, two versions of each, one disruption. A wrong record takes one file rewritten once between stat and read; a second file shows that the first's trouble stays its own. |
| `rescan_plain` | Without the cache, with files that vanish and return unchanged and covers that come and go: is every file left alone served as it is (`IndexFresh`), with the art a request would find (`ArtFresh`)? | as above, one folder of covers for both files |
| `rescan_flicker` | *violation*: the same `IndexFresh` with the cache | no disruption needed |
| `rescan_covers` | *violation*: the same `ArtFresh` with the cache | no disruption needed |
| `tree_scan` | Is the tree well formed (`ParentsAndChildrenAgree`), each entry in its folder (`FiledWhereItLies`), every track that is to be found there once (`FindsEverythingOnce`), and is a linked root the only way to panic (`OnlyLinkedRootsPanic`)? | two media directories of thirteen entries: nesting, an excluded folder, links up, to a folder and to a track; seven configurations, among them one directory configured twice, one inside another, and one inside a directory a link leads back up to; one failing entry. walkdir's order is free, so every order of siblings occurs. |
| `tree_linked_root` | *violation*: `NoPanic` with a media directory that is a link, links not followed | one configuration |
| `content_directory` | A control point walks the whole tree page by page, plays, asks for covers, looks everything up by its own id and asks for every action there is. Does no check of the repository's own client fail (`WalkPasses`), is an entry the same in a listing and on its own (`MetadataAgrees`), do pages add up (`PagesComplete`) and lead on (`PagesAdvance`), is no track hidden or repeated (`NothingHidden`), an artist's spellings one (`ArtistsMerged`), does what is listed play and show its cover (`Playable`), do untagged albums come in order (`NumberedAsMeant`), is a body understood however it is written (`Understood`), and a service what it describes (`AnswersAsDescribed`)? | 96 disks of two albums, and an empty one: three ways two folders lie in a media directory, two names for one, two placements of three tracks, four ways of tagging them (none; a tag on a track with a link as sibling; names that differ in case, in "The" or hold `&` and `$`), two sets of pictures; six disks of three albums side by side, tagged or not, two of one name, or all of one time, on some, so that every sort of a map's entries has some to put in order and some it leaves tied; all six views mounted; pages of one (`PageSizes`), the least there can be, so that each listing of two is cut in two, and of all; fifteen questions in sixteen styles, the numbers among them with a sign and beyond `MaxUsize`. Every grouping rule speaks of at most two albums and their parent. `PagesComplete`, and in Albums and Artists `NothingHidden`, are about containers in which nothing ties (`Untied`): see below. |
| `library_walk` | Does a request under rescans end (`Answered`), list only what was served, all of it when no rescan came between (`ListsOnlyServed`), with albums' titles and counts that were true meanwhile (`AlbumsAsServed`), and do its ids play what was listed (`PlaysWhatWasListed`)? | four indexes that differ by two files before the walk's position and by the depth of one after it, exchanged without bound |
| `library_walk_torn` | *violation*: `ListsWhatStays` | the same |
| `discovery` | A process started, stopped, killed and started again, under its old uuid or a new one, with datagrams lost, late and overtaking each other: is a server that serves known (`Remembered`), known again soon after a loss (`BackAfterOneLoss`), and one that is gone forgotten in time (`ForgottenInTime`) and at once by its byebyes (`GoneAfterByebye`)? Does a search find what it asks for (`SearchComplete`), is nothing advertised that is not bound (`AnnouncesOnlyBound`), does validation cover what `main` expects (`NeverPanics`), and is all of it an implementation of `Presence` (`ImplementsPresence`)? | an interval of two ticks, an overrun, a datagram's way of one each; two of the five targets, which differ in nothing but their name; two starts, one search, one loss, two of all these together (`MaxUpsets`); eight ticks: two leases one after the other; twelve configurations, one for each way to fail and both kinds of uuid; four datagrams |
| `discovery_max_age` | *violation*: `OneLossTolerated` | the same |
| `item_serve` | Is an undisturbed answer exactly what was asked (`Exact`), a disturbed one of a single file (`OneVersion`), and does each end (`Answered`)? | two files of three, one or no bytes, one place inside the media directories and one outside, ten Range headers that meet every branch of `parse` and the edges of a u64 of at most 3, reads of one or two bytes, two changes of the disk: one more than it takes to come between two system calls |

Bounds by name: `MaxVersion` (versions of a file), `MaxDisruptions` (crashes,
aborts, panics, failed transactions), `MaxErrors` (entries walkdir reports an
error for), `MaxChanges` (changes of the disk in `ItemServe`), `MaxChunk` (bytes of
a read), `MaxU64`, `MaxU32`, `MaxUsize`, `PageSizes`, `MaxTime` (the clock), `MaxStarts`,
`MaxSearches`, `MaxLost`, `MaxUpsets` (starts, searches asked and advertisements
lost, together).

`CHECK_DEADLOCK FALSE` is said of systems that stop: a scan that is built
(`TreeScan`), a control point with nothing left to ask (`ControlPoint`), a clock at
`MaxTime` (`Discovery`). In `ItemServe` a request may always come; deadlock checking
is off there so that a handler that never ends is reported by `Answered`, as what it
is.

## Where code and documents disagree

The five violation runs; `PROJECT.json` quotes code and documents.

1. `rescan_flicker`: a file that cannot be opened for a moment after the cache's own
   stat succeeded is stored, with the tags its name alone gives, under its valid
   size and mtime, and is served so until it is rewritten (`tag_cache.rs:138`).
2. `rescan_covers`: `has_art` is cached under the track's stamp but depends on the
   cover files beside it (`tag_cache.rs:149`).
3. `tree_linked_root`: walkdir enters a root that is a link even when it does not
   follow links, and reports it as a link; the scanner makes no container for it
   and indexes out of bounds at the first entry below (`scanner.rs:63`).
   `NoOtherPanics` proves that nothing else can.
4. `library_walk_torn`: a rescan during `all_items` renumbers what is still to be
   read, and a file in the index before and after is missing from the answer
   (`music_library.rs:325`).
5. `discovery_max_age`: max-age is exactly twice the interval, so after one lost
   announcement the next comes when the lease has just run out: the sleeps overrun
   and a datagram takes its way (`config.rs:49`). `BackAfterOneLoss` gives the bound
   that does hold.

Read on the way, without a run of their own:

- Listings of artists, albums and recent albums come out of maps, and what their sort
  leaves tied (two artist folders of one name, albums of one title, or of one age)
  comes in another order each time, although `music_library.rs:691-692` calls the
  order deterministic: it is where two artists are at one place of the shelf ("Bob" and
  "The Bob"), not where they have one title. Two pages of one listing may then repeat one
  entry and miss another. `content_directory` has both kinds of disks, and its
  `PagesComplete` the premise `Untied`; without the premise the disks of three albums
  that tie violate it. And of albums of one age at
  the end of so many recent ones, one is in this listing and another in the next:
  `MetadataAgrees` speaks of what every listing has.
- A track that is a link is listed with the format of the link's name
  (`didl/format.rs:71-74`) and served with that of the file it leads to
  (`http/mod.rs:298`); its cover is looked for beside the link when scanned and
  beside the file when asked for. `Playable` excepts links from both.
- A view's own root has its mount's title in the listing and an empty one when asked
  about by its id; `MetadataAgrees` excepts it.
- A second mount of the same view under `library.views` is shadowed by the first.
- `core/metadata_provider.rs:7-9` still says that file names are parsed on every
  Browse; they are parsed when a file is scanned.
- `core/ssdp/mod.rs:62` says the responder runs until its socket errors; it goes on
  (`continue`).

## Fairness

- `Rescan`: `WF_vars(ScanStep)`. The loop is one task with one blocking thread;
  when the process is up, nothing keeps it from its next step, and its sleep ends.
  Nothing is assumed of who writes files or stops the process, and `Converges` speaks
  only of a process that stays up and files that come to rest.
- `LibraryWalk`: `WF_vars(Thread)`. The request's own thread goes on. `Replace` is not
  fair, nor bounded, nor is the client: `Answered` holds however often an index comes,
  because children have greater ids in every one.
- `ItemServe`: `WF_vars(Serve)`. The handler's task goes on and the client reads
  what it is sent, or leaves; a client that stops reading and stays is hyper's and
  the kernel's to deal with.
- `TreeScan` and `ControlPoint` state safety only, and so does `Discovery`, where time
  takes the place of fairness: `Prompt` lets the clock go on only when what is due has
  been done (a sleep ends at most `Late` ticks late, a datagram arrives within
  `Delay` or is lost, starting and answering take no time on this scale), so that "in
  time" is an invariant. That a process does not answer for longer than a tick is
  thereby left out.

## Proofs

All for every value of the constants: any number of files, any tree, any size.

- **`RescanProofs`**. `TypeCorrect`; `CacheSoundness`, `Implementation` and
  `IndexFreshness` under `~Flicker`, the assumption `rescan_flicker` shows to be
  necessary; `ContractFresh` of the abstract specification. `CacheSound` is not
  inductive: it says nothing of what the scan holds in its hands. `Inv` adds
  `DatabaseInv` (a record never carries a stamp its file has yet to get, also in the
  durable copy a crash returns to), `ReadInv` (what is known of the file between
  stat, read and store) and `BuildInv` (the walk has entered, rightly, every file
  it has finished with that nobody touched). From it every step of `Rescan` is a
  step of `LibraryContract` or a stutter.
  `PlainFreshness` (`IndexFresh`, `ArtFresh`) under `~CacheEnabled`, files that flicker
  and covers that come and go included, from `PlainInv`: what is in the scan's hands
  and left alone is as it is on disk. `NoNeedlessParse` (`ReparseOnlyTouched`) without
  any assumption, from `ReparseInv`: the records of all files served and left alone
  are good, a scan keeps those of the files it has finished with, and what
  `retain_only` drops is gone from disk or touched.
- **`TreeScanProofs`**. `TypeCorrect`; `FiledCorrectly` (`FiledWhereItLies`), without
  any assumption on tree, links or errors; `WellFormed` (`ParentsAndChildrenAgree`);
  `NoOtherPanics` (`OnlyLinkedRootsPanic`).
  The heart is `StackInv`: as far as `container_at_depth` reaches, its containers
  are those of walkdir's open directories, and it reaches as far as the walk or is
  empty. `TreeInv` says where each node was filed. `WellFormed` needs no more of it than
  that a parent is a container there is: `InsertAgrees` is about `IndexBuilder`
  alone, and counts a child among its parent's before and after.
  `FoundExactly` (`FindsEverythingOnce`): a finished scan has
  filed every path that leads to a directory or track, once, but for what an error
  hides. `Expected` is computed from the tree level by level; the proof goes by
  paths. Each that a walk should come along is *pending*, which is to be read off
  walkdir's stack, *hidden* below a failed entry, or *found* (`CompleteInv`); what was
  found or failed is pending no more (`SoundInv`, `FailedInv`), so nothing is filed
  twice (`UniqueInv`). `ExpectedIs` identifies `Expected` with the paths that lead
  somewhere, for which its recursion must reach far enough: `WayBound`, that a way opens
  at most |Dirs|² directories. A link that leads above the configured directory may
  be followed once and the tree below entered anew, so that
  |Dirs| + 1 levels would be too few. `TreeAssumption`: the tree is finite, and
  only links lead back up in it.
- **`LibraryWalkProofs`**, for any indexes a scan can build and any number of
  rescans. `ListsServed` (`ListsOnlyServed`), `AlbumsServed` (`AlbumsAsServed`),
  `PlaysListed` (`PlaysWhatWasListed`). `ServedInv` says of everything the request
  holds which index served it: one of those of the meantime, not always the same.
  `WholeInv` is about a request no rescan disturbs: what was collected and what is
  still below the containers on the stack are together the tracks of the index,
  each once, and each album is listed or still to come. `OnlyCollects` says what a
  loop over children gathers, `IndexIsTree` why no container is read twice.
- **`LibraryViewsProofs`**, for any index a scan can build (`IndexBuilt`: ids,
  parents and children agree, each id is a child once, and no container is below
  itself, which is `TreeScan`'s theorem) and whatever order a HashMap yields. `ViewsListWhatOpens`: every container a
  view lists opens, holds as many children as it was listed with, and is what its
  children name as their parent. `EntriesAgree`: asked about by its id, an entry is
  what it was listed as, on whichever way it was reached; `ContainersFound` says so
  of what opens, `ItemsFound` of tracks. `EveryItemGathered`: a snapshot holds every item
  of the index, once; by induction over the height of a container, below which are
  the items of its children, and no two children share one (`Inside`, `Gathers`).
  `NothingListedTwice`: no listing has an id twice, however its names tie.
  `ArtistsListedOnce`: no two entries for one folded name. `ItemHome`: a view lists a track
  in one container, its folder or the view's top; `FolderBrings`, `AlbumBrings` and their
  like say what every listing of a container has, `AlbumFiled` and `AlbumHasArtist` which
  albums go under an artist. They rest on a theory of what the views compute with: any
  order leaves each entry in one place (`PlacesTaken` for a stable sort, `SortedIs`,
  `SortedAll` for entries out of a map); the recursion of `all_items` ends, because folders
  nest (`HeightExists`, `VisitExists`), with items of the index; and an album's facts, an artist's
  albums and a folder's roles (`FactsAre`, `ArtistsAre`) are what a listing, a count and an
  entry are each derived from.
- **`ControlPointProofs`**, for any disk whose files a scan has found
  (`DisksAssumption`), any mounts, any page sizes, any questions and any of the ways
  of writing them that `StylesAssumption` describes.
  `QuestionsUnderstood` (`Understood`) and `QuestionsAnswered` (`AnswersAsDescribed`)
  are about questions. `WrittenRead` carries the
  first: a body is put together from pieces, and each piece is shown to be read for
  what it is wherever it stands in a body (`Spells`, `Reads`, `ReadsAs`, `ReadsAll`,
  `Calls`: a text, an element's text, one argument, all of them, the action), the
  arguments by recursion from the last to the first, in whatever order `SetToSeq`
  puts them. The second adds the routes (`ActionsTold`, `ControlReached`) and goes
  through the actions of both services. The invariants, `Asked` and `Answered`, say
  what the last question was and that it got such an answer.
  Nine are about the walk. Six need its invariant alone: `WalksPass` (`WalkPasses`), `WalkTyped` (`TypeOK`),
  `AskedAsListed` (`MetadataAgrees`), `ArtistsComeOnce` (`ArtistsMerged`), `ItemsPlay`
  (`Playable`) and the action property `EachPageAdvances` (`PagesAdvance`). None is
  inductive: that the next page will do depends on what is still in the queue and on
  what was promised of it. `Tour` says it: the index is a scan's of this disk; what is
  queued or visited are ids a control point can have been told, the root's or a
  mount's around an id that opens in its view (`Openables`); what is
  `expected` of each is what it holds (`Held`); the page so far consists of entries that
  come of the `current` container (`Paging`), no more than its `total`; and
  every item seen is one that plays (`Playables`). That a page keeps it takes the whole
  way of a request: the id is written into a body and understood
  (`QuestionsUnderstood`'s lemmas), the composite takes the mount's prefix off and
  puts it on again, the view answers (`ViewsListWhatOpens`), `paginate` cuts, and what is
  rendered is read back. Here an id's escaping matters: an artist's name with a `$`
  crosses the composite only because `percent_encode` hides it (`EscapesAssumption`).
  `PagesAddUp` (`PagesComplete`) is of containers in which nothing ties, as the
  property says (`Untied`), and of views each mounted once;
  where names tie the code does not keep it (see the first note above). That each page
  is cut from the same listing is no matter of course: it is sorted anew out of a map.
  `SortedAgree` shows, by induction on the length, that two sorted orders are one as long
  as equal keys are those of one entry; `TitlesTell` and `AgesTell` that the keys of the
  views are equal only for equal titles or times, a shelf's too, because
  `sort_artists` compares the exact title last; `ApartAlike` and `UntiedAlike` put it
  together for each view and for each id below its mount (`ListedAlike`). `InStep` says
  that the page so far is then the listing's beginning, row by row, and
  `NothingListedTwice` that the listing has as many ids as entries.
  `EveryTrackComesBy` (`NothingHidden`) puts it all together: with Folders, All songs,
  Albums and Artists mounted (`WholeMounted`), a walk with any page size ends having come
  past every track once in Folders and All songs, which sort nothing that comes out of a
  map; once in Albums too, and in Artists past exactly those it files under an artist,
  as long as nothing ties in what it has looked into of that view. That is
  about the walk's end, so its invariant, `Harvest`, says of every moment what is
  still to come: all that comes of a container looked into, or of its pages so far, is
  looked into, queued or heard of (`NothingLeft`); nothing is but what a container
  looked into brings (`NothingElse`); and what comes only of containers listed alike was
  heard of once (`NothingTwice`). The last holds because an item comes of one
  container only (`HomeOnce`, by `ItemHome` of the views) and a page repeats
  nothing (`PagedOnce`). At the end the queue is empty, and what the views bring
  (`FolderBrings`, `SongsBring`, `AlbumsBring`, `ArtistBrings`, ...) is followed from the
  roots down, through folders by the least set that holds the root and what is in
  its folders (`InsideRoot`).
  `TracksAsMeant` (`NumberedAsMeant`) assumes of the disks that the parser reads an
  untagged file's name as what it means (`NamesMean`), and shows that this is what a
  listing says and goes by: the scan takes title and number from the name
  (`BareScanned`), `tracks_of_album` sorts by them whatever else is in the album
  (`AlbumOrdered`), and pages keep the order (`InStep`; `OnlyOrders` for the items among
  their rows). That the parser reads names so is left to the run.
- **`NatRecursion`**, lemmas the others rest on. `NatInduct`, `RunExistsOnNat`: induction with a set in place of the
  predicate, and a function for every recursion equation. The library's
  `NatInduction` and `RecursiveFcnOfNat` take operators, which no prover here can
  instantiate; sets and functions they can. Derived from the well-foundedness of
  inclusion among finite sets.
- **`ItemServeProofs`**. `ParseExact`: for every header and every size up to
  `MaxU64`, `parse` returns exactly the bytes the header asks for, all inside the
  file, or refuses and there are none. `TypeCorrect`; `NeverMixed` (`OneVersion`);
  `ExactAnswers` (`Exact`). `Inv` adds what the handler has learned: `Opened` (the
  head of the answer is the one for the size stat gave; no more is sent than it
  announces), `Still` (if nothing happened to the file, that size is still its size
  and it is the open file), `Before` and `Unopened`. `SlicesJoin`, that consecutive
  pieces of a file join to a piece of it, carries the body from read to read.

- **`DiscoveryProofs`**, for any targets, delays, bounds and configurations.
  `TypeCorrect`, which takes `LoadExpected`: a configuration that validates is one
  `main` gets over. `DiscoveryImplementsPresence` (`ImplementsPresence`) and `Forgotten`
  (`ForgottenInTime`) rest on `NetInv` (what is on its way is no older than `Delay`, and
  of a process that runs or ended later than it was sent) and `LeaseInv` (what is
  believed was heard no later than that): without them a datagram could renew a
  lease of a server long gone. `AlwaysRemembered` (`Remembered`) assumes
  `Delay < Interval` and `Interval + Late + Delay <= MaxAge`, which is what "twice the
  interval" must buy; `KnownInv` says of each target heard of that its lease lasts
  until the next announcement, or that this one is on its way. `BackSoon`
  (`BackAfterOneLoss`) assumes `Delay < Interval` alone; `BackInv` says the same as
  `KnownInv`, a round later, of a server with one datagram lost. `GoneForGood`
  (`GoneAfterByebye`) rests on `CleanInv`: after a clean stop byebyes are all there is on
  the way, one for each target still believed. `BoundFirst` (`AnnouncesOnlyBound`) goes
  by the steps alone. `SearchesAnswered` (`SearchComplete`) assumes `SearchesFit`, that
  what a control point sends fits the responder's buffer, and `2 * Delay < Wait`: it
  waits longer than its question and the answer take. `PortsInv` keeps the answers of
  two searches apart; `FoundInv` says that what comes is what was asked for, and
  `SteadyInv` follows the question through network and socket until every target it
  asks for is on its way back. `NoPanic` (`NeverPanics`) follows from `TypeCorrect`.

The assumptions are the modules' own `ASSUME`s, evaluated by TLC in every run, and
those in the theorems' statements, named above.

Only model-checked:

- all liveness (`Converges`, both `Answered`), out of TLAPS's reach as `ENABLED` is;
- that `parse_track_number` makes of a name what it means: the meaning is given with
  each disk of the run and can only be compared, name by name; with what the parser
  does, `NumberedAsMeant` holds there without `NamesMean`.

## What is assumed

- A file's version stands for its bytes and for its size and mtime: a rewrite gives
  a stamp of its own. A rewrite within the mtime's resolution that keeps the size is
  invisible to the cache by design.
- One read of tags sees one version. The file between stat and read may be another.
- redb: a transaction happens or fails as a whole. Commits are made with
  `Durability::None`: a killed process leaves what the last close before made
  durable, and a close may or may not make the last commits durable. walkdir 2.5: siblings in any order, a subtree before the next sibling,
  `filter_entry` prunes subtrees, errors in place of entries, links to open
  directories are errors.
- `TreeScan` walks a disk that stands still; `Rescan` lets it change, as a set of
  files; `ControlPoint` has index and disk stand still, `LibraryWalk` exchanges the
  index.
- A HashMap yields its entries in any order, anew for every map.
- An index under the views is one a scan leaves (`IndexBuilt`), of files that are on the disk
  (`FilesPlaced`); ids are numbers written out. `TreeScan` has the scan.
- Mounts have a title, and two of one view are the same (`ViewsAssumption`): the
  server makes each from the view's name.
- What a byte is escaped to holds nothing that is escaped (`EscapesAssumption`), as hex
  digits do; folded names are texts (`KeyAssumption`).
- A text is a sequence of tokens, a token being one character or a run of them that
  no code looks into; order, case and escapes are those of the tokens (`Rank`,
  `ShelfRank`, `KeyOf`, `Escapes`). Two texts have one `Rank` only if they are the same,
  as texts compare; on the shelf they need not be (`RankAssumption`). "Recent" is a fixed
  cutoff.
- A listing holds no more than `MaxUsize` entries, as a `Vec` does; a number asked for
  beyond that is none, and counts as 0 (`dispatch.rs:137-146`).
- XML is quick_xml's: `Soap` starts from its events, and has no CDATA; tags are
  lofty's: a tag is the fields it gives. A body in the styles of the run is one a
  SOAP library could write.
- A datagram is the fields its parser finds, its length and whether it is text. All
  control points are one: each goes by what it hears. A search is asked while a
  process runs.
- A clock tick is the resolution of every delay; starting and stopping take none.
- hyper sends no more than Content-Length and closes the connection under a body
  that ends before. A read of an open file gives one or more bytes until its end; a
  file replaced stays what it was to those who have it open. Read errors of the disk
  are left out of `ItemServe`.
- An offset of a Range header is digits or something else: "bytes=-" stands for
  every malformed text, among them several ranges and headers over 256 bytes.

## What is not modelled

- The resource attributes of DIDL-Lite from duration to channels, the genre, MIME types
  of pictures, titles of device and service descriptions: data copied from one place
  to another, on which nothing depends.
- XML, TOML, HTTP and tag parsing by the libraries; log messages; `net.rs` but for the
  interface without an address.
- Read errors of the disk under an open file, a client that stops reading.
- A responder whose socket keeps failing, an announcer whose send fails: the first does
  nothing, the second is a datagram lost.
- Requests of several clients at once against one view: they only read, so each is
  `LibraryWalk`'s one.
- Tests, fuzz targets, packaging: not part of the running server. Of the examples,
  scraping attributes out of text.

## Plan

Done, in the order of what it would cost to be wrong: `Rescan` with its contract,
`TreeScan`, the views, `LibraryWalk`, `ItemServe`; then the way of a request across the
server (`Texts`, `TrackMetadata`, `Soap`, `ContentDirectory`, `ControlPoint`) and
discovery with its abstract specification (`Presence`, `Discovery`), with their proofs.

What is left:

1. The artists' listing under rescans: `LibraryWalk` has the albums'; the artists' reads
   of the index are more of the same kind. Abstract specification: an answer from
   one index, and which mixed ones are possible.
2. `ItemServe` composed with `LibraryWalk`: the id resolved in one index, the file
   opened under the next.
