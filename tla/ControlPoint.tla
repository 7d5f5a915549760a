---------------------------- MODULE ControlPoint ----------------------------
(***************************************************************************)
(* A control point against the server of ContentDirectory: it walks the    *)
(* whole tree page by page, checking what it is told as                    *)
(* examples/verify_music_library.rs does, asks for an object that is not   *)
(* there, plays the first track it found, and then asks for whatever else  *)
(* the service descriptions offer.  Index and disk stay as they are.       *)
(***************************************************************************)
EXTENDS ContentDirectory

CONSTANTS
  Disks,       \* [containers, placed, files, listing, above, within]
  PageSizes,   \* the RequestedCounts a walk uses; 0 asks for everything
  Questions,   \* what is asked after the walk: [service, action, arguments]
  Styles       \* how a body may be written: [header, short, pad, references]

ASSUME PagesAssumption == PageSizes \subseteq 0 .. MaxUsize

(* White space around values, and references by name or by number.         *)
ASSUME StylesAssumption ==
  \A style \in Styles :
    /\ style.header \in BOOLEAN /\ style.short \in BOOLEAN
    /\ style.pad \in Seq({Event("text", " ")})
    /\ DOMAIN style.references \subseteq STRING
    /\ \A name \in DOMAIN style.references :
         \/ name \in DOMAIN CharRefs /\ style.references[name] = CharRefs[name]
         \/ name \in DOMAIN Entities /\ style.references[name] = Entities[name]

(* A question's arguments are texts.                                       *)
ASSUME QuestionsAssumption ==
  \A question \in Questions :
    /\ question.action \in STRING
    /\ IsFiniteSet(DOMAIN question.arguments) /\ DOMAIN question.arguments \subseteq STRING
    /\ \A name \in DOMAIN question.arguments : question.arguments[name] \in Seq(STRING)

(* The index as a scan of this disk leaves it (TreeScan has the scan).     *)
Scanned(d) ==
  [containers |-> d.containers,
   items |-> [id \in DOMAIN d.placed |->
                LET place == d.placed[id]
                    read  == metadata(d, place.path)
                IN [parent |-> place.parent, path |-> place.path,
                    modified |-> d.files[place.path].modified, title |-> read.title,
                    number |-> read.number, artist |-> read.artist, album |-> read.album,
                    has_art |-> read.has_art]]]

(* A disk a scan has been over: its tracks' files are inside the media      *)
(* directories, and a picture in a tag has a path.                         *)
FilesPlaced(d) ==
  \A id \in DOMAIN d.placed :
    LET path == d.placed[id].path
        file == d.files[path]
    IN /\ path \in DOMAIN d.files /\ file.target \in DOMAIN d.files /\ file.target # None
       /\ d.files[file.target].dir \in d.within
       /\ file.tag = None
          \/ /\ file.tag.pictures # None /\ file.tag.pictures \in Seq(ToSet(file.tag.pictures))
             /\ \A i \in DOMAIN file.tag.pictures : file.tag.pictures[i].path # None

ASSUME DisksAssumption == \A d \in Disks : IndexBuilt(Scanned(d)) /\ FilesPlaced(d)

VARIABLES
  phase,      \* "walk", "fault", "play" or "done"
  count,      \* the RequestedCount of this walk
  queue,      \* containers still to be looked into, the next one last
  visited,    \* containers looked into
  expected,   \* container -> the childCount it was listed with
  current,    \* the container being paged through, None before the first
  page,       \* what has been listed of it so far
  total,      \* its TotalMatches, None before the first page
  seen,       \* every item listed, in order
  passed,     \* no check has failed
  asked,      \* the last question and how it was written, None before
  answer      \* the response to it

vars == <<lib, disk, phase, count, queue, visited, expected, current, page, total,
          seen, passed, asked, answer>>

-----------------------------------------------------------------------------
(* Requests.                                                               *)

Get(method, path) == [method |-> method, path |-> path, length |-> None, body |-> <<>>]

Post(path, content) ==
  [method |-> "POST", path |-> path, length |-> 1000, body |-> Envelope(content)]

Decimal(n) ==
  LET digits[k \in 0 .. n] ==
        IF k < 10 THEN <<Digits[k + 1]>>
        ELSE Append(digits[k \div 10], Digits[(k % 10) + 1])
  IN digits[n]

Argument(name, text) == Element(name, Escaped(text))

(* An id is written as it was scraped from the response, the listing's own *)
(* escaping still on it.                                                   *)
browse_body(id, flag, start, number) ==
  Element("Browse",
    Argument("ObjectID", id) \o Argument("BrowseFlag", <<flag>>) \o
    Argument("Filter", <<"*">>) \o Argument("StartingIndex", Decimal(start)) \o
    Argument("RequestedCount", Decimal(number)) \o Argument("SortCriteria", <<>>))

browse_request(id, flag, start, number) ==
  Post(<<"ContentDirectory", "control">>, browse_body(id, flag, start, number))

(* An action written out by some SOAP library: perhaps a header before the *)
(* body, empty arguments as one tag, space around the values, references   *)
(* by name or by number.                                                   *)
Written(question, style) ==
  LET names == SetToSeq(DOMAIN question.arguments)
      One(name) ==
        IF style.short /\ question.arguments[name] = <<>> THEN <<Event("empty", name)>>
        ELSE Element(name, style.pad \o EscapedAs(question.arguments[name], style.references)
                                  \o style.pad)
      action == IF style.short /\ names = <<>> THEN <<Event("empty", question.action)>>
                ELSE Element(question.action,
                             FlattenSeq([i \in DOMAIN names |-> style.pad \o One(names[i])]))
  IN Element("Envelope",
       (IF style.header THEN Element("Header", <<Event("empty", "Session")>>) ELSE <<>>)
         \o Element("Body", style.pad \o action))

(* The events of a request; a body that arrives is none that does not.     *)
Kinds  == {"start", "end", "empty", "text", "ref", "other"}
Labels == STRING \cup IdTokens \cup ToSet(Digits) \cup DOMAIN Entities
            \cup {" ", "*", "Envelope", "Header", "Session", "Body", "Browse", "xml",
                  "ObjectID", "BrowseFlag", "Filter", "StartingIndex", "RequestedCount",
                  "SortCriteria", "BrowseDirectChildren", "BrowseMetadata",
                  "this-object-id-should-not-exist-anywhere"}
Events == [kind : Kinds, name : Labels]

ASSUME BodiesAssumption == None \notin Nat /\ None \notin Seq(Events)

-----------------------------------------------------------------------------
(* The walk.                                                               *)

Complete == current = None \/ (total # None /\ Len(page) >= total)

(* The next container, unless it has been looked into already.             *)
Open ==
  /\ phase = "walk" /\ Complete /\ queue # <<>>
  /\ queue' = Front(queue)
  /\ IF Last(queue) \in visited THEN UNCHANGED <<visited, current, page, total>>
     ELSE /\ visited' = visited \cup {Last(queue)}
          /\ current' = Last(queue) /\ page' = <<>> /\ total' = None
  /\ UNCHANGED <<lib, disk, phase, count, expected, seen, passed, asked, answer>>

(* One page: as many entries as it says, each with this container for its  *)
(* parent, and in the end as many as the container was listed with.        *)
Checks(entries, returned, all, matches) ==
  /\ returned = Len(entries)
  /\ \A i \in DOMAIN entries : entries[i].parentID = current
  /\ Len(all) >= matches /\ current \in DOMAIN expected
       => expected[current] = Len(all)

Receive(response) ==
  LET entries  == response.body.Result
      all      == page \o entries
      opened   == Only(entries, {e \in ToSet(entries) : e.tag = "container"})
      items    == Only(entries, {e \in ToSet(entries) : e.tag = "item"})
      counted  == {opened[i].id : i \in DOMAIN opened}
  IN /\ page' = all
     /\ total' = response.body.TotalMatches
     /\ passed' = (passed /\ Checks(entries, response.body.NumberReturned, all, total'))
     /\ queue' = queue \o [i \in DOMAIN opened |-> opened[i].id]
     /\ expected' = [id \in counted \cup DOMAIN expected |->
                       IF id \notin counted THEN expected[id]
                       ELSE (CHOOSE e \in ToSet(opened) : e.id = id).childCount]
     /\ seen' = seen \o [i \in DOMAIN items |-> items[i].id]

(* MaxUsize bounds a listing's length too: it is a usize.                  *)
Browse ==
  /\ phase = "walk" /\ ~Complete /\ Len(page) <= MaxUsize
  /\ \E response \in handle(browse_request(current, "BrowseDirectChildren",
                                           Len(page), count)) :
       IF response.status = 200 THEN Receive(response) /\ UNCHANGED current
       ELSE /\ passed' = FALSE /\ current' = None
            /\ UNCHANGED <<page, total, queue, expected, seen>>
  /\ UNCHANGED <<lib, disk, phase, count, visited, asked, answer>>

EndWalk ==
  /\ phase = "walk" /\ Complete /\ queue = <<>>
  /\ phase' = "fault"
  /\ UNCHANGED <<lib, disk, count, queue, visited, expected, current, page, total,
                 seen, passed, asked, answer>>

(* An id that nothing has is answered with a fault of its own.             *)
check_fault_701 ==
  /\ phase = "fault"
  /\ \E response \in handle(browse_request(<<"this-object-id-should-not-exist-anywhere">>,
                                           "BrowseDirectChildren", 0, 0)) :
       passed' = (passed /\ response = Fault(701))
  /\ phase' = "play"
  /\ UNCHANGED <<lib, disk, count, queue, visited, expected, current, page, total,
                 seen, asked, answer>>

(* The first item found plays, and HEAD tells the same without the bytes;  *)
(* a library without any fails the check.                                  *)
check_playback ==
  /\ phase = "play"
  /\ \/ seen = <<>> /\ passed' = FALSE
     \/ /\ seen # <<>>
        /\ \E full \in handle(Get("GET", <<"item", seen[1]>>)),
              head \in handle(Get("HEAD", <<"item", seen[1]>>)) :
             passed' = (/\ passed /\ full.status = 200 /\ head.status = 200
                        /\ full.body.file # None /\ head.body.file = None
                        /\ full.body.headers = head.body.headers)
  /\ phase' = "done"
  /\ UNCHANGED <<lib, disk, count, queue, visited, expected, current, page, total,
                 seen, asked, answer>>

(* One other question, to where the device description says.              *)
Ask(question, style) ==
  /\ phase = "done" /\ asked = None
  /\ \E device \in handle(Get("GET", <<"description.xml">>)) :
       \E service \in {s \in device.body : s.service = question.service} :
         \E response \in handle([Post(service.control, <<>>) EXCEPT
                                   !.body = Written(question, style)]) :
           /\ asked' = [question |-> question, body |-> Written(question, style)]
           /\ answer' = response
  /\ UNCHANGED <<lib, disk, phase, count, queue, visited, expected, current, page, total,
                 seen, passed>>

Init ==
  /\ disk \in Disks /\ lib = Scanned(disk)
  /\ count \in PageSizes
  /\ phase = "walk" /\ queue = <<Root>> /\ visited = {} /\ expected = <<>>
  /\ current = None /\ page = <<>> /\ total = None
  /\ seen = <<>> /\ passed = TRUE /\ asked = None /\ answer = None

Next ==
  \/ Open \/ Browse \/ EndWalk \/ check_fault_701 \/ check_playback
  \/ \E question \in Questions, style \in Styles : Ask(question, style)

Spec == Init /\ [][Next]_vars

-----------------------------------------------------------------------------
(* Properties.                                                             *)

(* The mount an id of a listing is of, and what it is called there.        *)
Mount(id) == id[1]

Local(id) == SubSeq(id, 3, Len(id))

(* Nothing a control point could send back garbled (music_library.rs:665-  *)
(* 669: Nothing non-ASCII means nothing for a client to mangle).           *)
IdType(id) ==
  \/ id = Root
  \/ /\ id[1] \in {Views[n].view : n \in DOMAIN Views} /\ id[2] = "$"
     /\ ToSet(Local(id)) \cap DOMAIN Escapes = {}

(* The index is the scan's, every page is made of containers and items     *)
(* with a parent and a title, and every id is one that comes back.         *)
TypeOK ==
  /\ disk \in Disks /\ lib = Scanned(disk)
  /\ phase \in {"walk", "fault", "play", "done"} /\ count \in PageSizes
  /\ passed \in BOOLEAN /\ total \in Nat \cup {None}
  /\ current = None \/ current \in visited
  /\ \A id \in visited \cup ToSet(queue) \cup ToSet(seen) : IdType(id)
  /\ \A id \in DOMAIN expected : expected[id] \in Nat
  /\ \A i \in DOMAIN page :
       /\ page[i].tag \in {"container", "item"}
       /\ IdType(page[i].parentID) /\ page[i].title # None
  /\ answer = None \/ answer.status \in {200, 500}

(* No check of the walk fails: a response holds as many entries as it      *)
(* says, each names the container it was listed in as its parent, and each *)
(* container has as many children as it was listed with (walk_and_check in *)
(* examples/verify_music_library.rs; composite.rs, rewrap: top-level       *)
(* entries of a view hang below its mount).  Only in a library without a   *)
(* track is there nothing to play in the end.                              *)
WalkPasses == passed \/ (phase = "done" /\ seen = <<>>)

(* What is asked about by its own id is what it was listed as, and a       *)
(* container has as many children as it says when asked.  Only a view's    *)
(* own root has no title when asked, and of albums added at the same time  *)
(* one may be among the most recent now and not in the next listing        *)
(* (music_library.rs, children and entry, which reach an entry along       *)
(* different ways).                                                        *)
MetadataAgrees ==
  Complete /\ current # None =>
    /\ \A response \in handle(browse_request(current, "BrowseMetadata", 0, 0)) :
         response.status = 200 /\ response.body.Result[1].childCount = total
    /\ \A i \in {j \in DOMAIN page : \A l \in children(current) : page[j].id \in Ids(l)} :
         \A response \in handle(browse_request(page[i].id, "BrowseMetadata", 0, 0)) :
           /\ response.status = 200 /\ Len(response.body.Result) = 1
           /\ [response.body.Result[1] EXCEPT
                 !.title = IF current = Root THEN page[i].title ELSE @] = page[i]

(* Of the containers listed here no two are in any order: no two go by one *)
(* title, or among the recent ones none are as new as each other.  Folders *)
(* and mounts come out of no map.                                          *)
Untied(id) ==
  \/ id = Root \/ Mount(id) = "folders"
  \/ \A e, f \in UNION {ToSet(listing) : listing \in children(id)} :
       e.path = None /\ f.path = None /\ e # f =>
         IF Mount(id) = "recent_albums" THEN Newest(Local(e.id)) # Newest(Local(f.id))
         ELSE e.title # f.title

(* A client that has been through all pages has been listed every child    *)
(* once, although each page is cut from a listing sorted anew out of a map *)
(* (dispatch.rs, paginate; music_library.rs:691-692: Ties fall back to the *)
(* exact title so the order is deterministic), where nothing ties on that. *)
PagesComplete ==
  phase = "walk" /\ Complete /\ current # None /\ Untied(current) =>
    \A response \in handle(browse_request(current, "BrowseDirectChildren", 0, 0)) :
      /\ Ids(page) = Ids(response.body.Result)
      /\ Len(page) = Cardinality(Ids(page))

(* No view but the recent ones hides or repeats a track: a walk comes past *)
(* it exactly once; in Artists that goes for the tracks whose album has an *)
(* artist and is none itself (music_library.rs:22-25: left out of the      *)
(* Artists view, still visible under Folders and Albums).  Albums and      *)
(* Artists are gone through in pages as long as nothing in them ties.      *)
NothingHidden ==
  phase = "fault" =>
    LET snapshot == Snapshot
        Times(view, item) ==
          Cardinality({i \in DOMAIN seen : seen[i] = prefixed(view, item)})
        InOrder(view) == \A id \in visited : Mount(id) = view => Untied(id)
        HasArtist(album) == /\ Fact(snapshot, album).artist.key # None
                            /\ \A artist \in snapshot.artists : artist.id # album
    IN \A item \in Items :
         /\ Times("folders", item) = 1 /\ Times("songs", item) = 1
         /\ InOrder("albums") => Times("albums", item) = 1
         /\ InOrder("artists") =>
              Times("artists", item) = IF HasArtist(lib.items[item].parent) THEN 1 ELSE 0

(* An artist whose name tracks carry is listed once, however it is spelt:  *)
(* no folder stands beside it under the same name (music_library.rs:129-   *)
(* 137, the second, unmerged Cannonball Adderley).                         *)
ArtistsMerged ==
  current = prefixed("artists", Root) =>
    \A i, j \in DOMAIN page :
      /\ ~IsContainer(Local(page[i].id))
      /\ KeyOf[page[i].title] = KeyOf[page[j].title]
      => page[i].id = page[j].id

(* What an item's res points to is that very file, sent as the kind of     *)
(* audio the listing said, and its albumArtURI is there exactly if a cover *)
(* is (http/mod.rs, handle_item and handle_art, against didl/mod.rs and    *)
(* the scan's has_art).  A link is served as the file it leads to: only    *)
(* its file is compared.                                                   *)
Playable ==
  Complete => \A e \in {found \in ToSet(page) : found.tag = "item"} :
    LET path == lib.items[Local(e.id)].path
        link == disk.files[path].target # path
    IN /\ \A response \in handle(Get("GET", e.res)) :
            /\ response.status = 200
            /\ response.body.file = disk.files[path].target
            /\ link \/ response.body.headers = e.protocolInfo
       /\ link \/ \A response \in handle(Get("GET", art_url(e.id))) :
                    (response.status = 200) <=> (e.albumArtURI # {})

(* Tracks without a tag of their own come with the title their name means, *)
(* and an album's in the order of the numbers their names mean             *)
(* (metadata/filename.rs: "1-01 Just Friends" is track 1, "Just Friends",  *)
(* not disc 1; a year is no number).                                       *)
NumberedAsMeant ==
  Complete /\ current # None /\ Len(current) > 1 /\ Mount(current) = "albums" =>
    LET track == Only(page, {e \in ToSet(page) : e.tag = "item"})
        File(i) == disk.files[lib.items[Local(track[i].id)].path]
        bare == {i \in DOMAIN track : File(i).tag = None}
    IN /\ \A i \in bare : track[i].title = File(i).meant.title
       /\ \A i, j \in bare :
            File(i).meant.number # None /\ File(j).meant.number # None /\ i < j
              => File(i).meant.number <= File(j).meant.number

(* A question is understood as it was meant, however it was written: past  *)
(* a header and between white space, references resolved, an empty element *)
(* being one tag or two (soap.rs, parse_action).                           *)
Understood ==
  asked # None =>
    parse_action(1000, asked.body) =
      {[name |-> asked.question.action,
        arguments |-> [name \in DOMAIN asked.question.arguments |->
                         trim(asked.question.arguments[name])]]}

(* Every argument described, with a value that is allowed for it.          *)
Allowed(question, in) ==
  LET Value(name) == trim(question.arguments[name])
  IN /\ DOMAIN question.arguments = in
     /\ question.action = "Browse" =>
          /\ Value("ObjectID") = Root
          /\ Value("BrowseFlag") \in {<<"BrowseMetadata">>, <<"BrowseDirectChildren">>}
     /\ question.action = "GetCurrentConnectionInfo" => Value("ConnectionID") = <<"0">>

(* An action its service describes, given the arguments described, is      *)
(* answered with the results described; any other is none there is         *)
(* (scpd.rs:5: Declares exactly the actions dispatch implements).          *)
AnswersAsDescribed ==
  asked # None =>
    \A response \in handle(Get("GET", scpd_path(asked.question.service))) :
      LET action == asked.question.action
      IN IF action \notin DOMAIN response.body THEN answer = Fault(401)
         ELSE Allowed(asked.question, response.body[action].in)
                => /\ answer.status = 200
                   /\ DOMAIN answer.body = response.body[action].out

(* A client that asks for the next page gets on: until it has as many      *)
(* entries as TotalMatches says, each page holds another (dispatch.rs,     *)
(* paginate).                                                              *)
PagesAdvance ==
  [][current # None /\ ~Complete => Complete' \/ Len(page') > Len(page)]_vars
=============================================================================
