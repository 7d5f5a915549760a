-------------------------- MODULE ContentDirectory --------------------------
(***************************************************************************)
(* The server's answer to one HTTP request, over the index and the disk as *)
(* they are: the route (core/http/router.rs), the action a SOAP body calls *)
(* (core/dispatch.rs), the views mounted side by side                      *)
(* (content/composite.rs), what is listed as DIDL-Lite (core/didl), and    *)
(* the files and covers the listings point to (core/http/mod.rs).  An      *)
(* answer is a pure function of index and disk but for the order in which  *)
(* maps are iterated, so every operator gives the set of possible answers. *)
(* A path is its segments, a body its events (Soap).                       *)
(***************************************************************************)
EXTENDS LibraryViews, TrackMetadata, Soap

CONSTANTS
  Views,    \* library.views: [view, count, title], the mounts in order
  MaxUsize  \* the largest usize

ViewNames == {"folders", "albums", "artists", "songs", "recent_albums", "recent_songs"}

(* Mounts of the same view are alike (mount_for).                          *)
ASSUME ViewsAssumption ==
  /\ Views \in Seq([view : ViewNames, count : Nat, title : {v.title : v \in ToSet(Views)}])
  /\ \A n \in DOMAIN Views : Views[n].title # None
  /\ \A n, m \in DOMAIN Views : Views[n].view = Views[m].view => Views[n] = Views[m]

(* The tokens of an id; an id is not nothing.                              *)
IdTokens == STRING \cup ViewNames \cup {"0", "$", "tag-artist:"}

ASSUME IdsAssumption == None \notin Seq(IdTokens)

ASSUME UsizeAssumption == MaxUsize \in Nat

VARIABLE disk    \* the files, see TrackMetadata

-----------------------------------------------------------------------------
(* The composite: every id that leaves it carries its mount's prefix.      *)

prefixed(prefix, id) == <<prefix, "$">> \o id

(* Mutant: the parent of a top-level entry stays as the view has it.       *)
RewrapId(prefix, entry) == [entry EXCEPT !.id = prefixed(prefix, @)]

(* A view's own root hangs below the overall one.                          *)
rewrap(prefix, entry) ==
  [entry EXCEPT !.id = prefixed(prefix, @),
                !.parent = IF @ = None THEN Root ELSE prefixed(prefix, @)]

(* The id is split at its first $; an unknown prefix names nothing.        *)
mount_and_local_id(id) ==
  LET cut == FirstFrom(id, 1, LAMBDA token : token = "$")
      n   == FirstFrom(Views, 1, LAMBDA v : <<v.view>> = SubSeq(id, 1, cut - 1))
  IN IF cut = 0 \/ n = 0 THEN {}
     ELSE {[view |-> Views[n], id |-> SubSeq(id, cut + 1, Len(id))]}

top_level ==
  [n \in DOMAIN Views |->
     Listed(prefixed(Views[n].view, Root), Root, Views[n].title,
            Len(CHOOSE listing \in Children(Views[n], Root) : TRUE))]

children(id) ==
  IF id = Root THEN {top_level}
  ELSE UNION {{[i \in DOMAIN listing |-> rewrap(local.view.view, listing[i])] :
                  listing \in Children(local.view, local.id)} :
                local \in mount_and_local_id(id)}

entry(id) ==
  IF id = Root THEN {Listed(Root, None, <<>>, Len(Views))}
  ELSE UNION {{rewrap(local.view.view, found) :
                  found \in Entries(local.view, local.id)} :
                local \in mount_and_local_id(id)}

-----------------------------------------------------------------------------
(* What kind of audio a file is, by its extension.                         *)

for_extension ==
  LET Format(mime, profile) == [mime |-> mime, profile |-> profile]
  IN ("mp3" :> Format("audio/mpeg", "MP3")) @@ ("flac" :> Format("audio/flac", None))
       @@ ("m4a" :> Format("audio/mp4", None)) @@ ("mp4" :> Format("audio/mp4", None))
       @@ ("aac" :> Format("audio/aac", None)) @@ ("ogg" :> Format("audio/ogg", None))
       @@ ("oga" :> Format("audio/ogg", None)) @@ ("opus" :> Format("audio/opus", None))
       @@ ("wav" :> Format("audio/wav", None)) @@ ("wma" :> Format("audio/x-ms-wma", None))
       @@ ("ape" :> Format("audio/x-ape", None)) @@ ("wv" :> Format("audio/x-wavpack", None))

mime_for(path) ==
  LET ext == disk.files[path].ext
  IN IF ext \in DOMAIN for_extension THEN for_extension[ext].mime
     ELSE "application/octet-stream"

dlna_content_features(path) ==
  LET ext == disk.files[path].ext
  IN IF ext \in DOMAIN for_extension THEN for_extension[ext].profile ELSE None

protocol_info(path) ==
  [mime |-> mime_for(path), features |-> dlna_content_features(path)]

-----------------------------------------------------------------------------
(* DIDL-Lite.                                                              *)

item_url(id) == <<"item", id>>

art_url(id) == <<"art", id>>

albumArtURI(e) == IF e.has_art THEN {art_url(e.id)} ELSE {}

render_one(e) ==
  IF e.path = None
  THEN [tag |-> "container", id |-> e.id, title |-> e.title, childCount |-> e.count,
        parentID |-> IF e.parent = None THEN <<"-1">> ELSE e.parent]
  ELSE [tag |-> "item", id |-> e.id, title |-> e.title, parentID |-> e.parent,
        protocolInfo |-> protocol_info(e.path), res |-> item_url(e.id),
        creator |-> e.artist, album |-> e.album, albumArtURI |-> albumArtURI(e)]

render(entries) == [i \in DOMAIN entries |-> render_one(entries[i])]

-----------------------------------------------------------------------------
(* Responses: a status, and a body if there is one.                        *)

Response(status, body) == [status |-> status, body |-> body]

empty_response(status) == Response(status, None)

Fault(code) == Response(500, [errorCode |-> code])

Ok(arguments) == Response(200, arguments)

OrElse(responses, otherwise) == IF responses = {} THEN {otherwise} ELSE responses

-----------------------------------------------------------------------------
(* Actions.                                                                *)

(* str::parse::<usize>: digits, perhaps after a plus; 0 for anything else, *)
(* and for a number that is too large.                                     *)
Number(action, name) ==
  LET text   == IF name \in DOMAIN action.arguments THEN action.arguments[name] ELSE <<>>
      digits == IF text # <<>> /\ text[1] = "+" THEN Tail(text) ELSE text
  IN IF ToSet(digits) \subseteq ToSet(Digits) /\ ValueOf(digits) <= MaxUsize
     THEN ValueOf(digits) ELSE 0

(* Mutant: a count of 0 is taken at its word.                              *)
PaginateLiterally(listing, action) ==
  First(Number(action, "RequestedCount"),
        SubSeq(listing, Number(action, "StartingIndex") + 1, Len(listing)))

(* A count of 0 asks for everything from the start on.                     *)
paginate(listing, action) ==
  LET start == Number(action, "StartingIndex")
      count == Number(action, "RequestedCount")
      rest  == SubSeq(listing, start + 1, Len(listing))
  IN IF count = 0 THEN rest ELSE First(count, rest)

browse_response(entries, total) ==
  Ok([Result |-> render(entries), NumberReturned |-> Len(entries),
      TotalMatches |-> total, UpdateID |-> 1])

browse(action) ==
  LET id   == action.arguments.ObjectID
      flag == action.arguments.BrowseFlag
  IN IF ~({"ObjectID", "BrowseFlag"} \subseteq DOMAIN action.arguments) THEN {Fault(402)}
     ELSE IF flag = <<"BrowseDirectChildren">>
     THEN OrElse({browse_response(paginate(listing, action), Len(listing)) :
                    listing \in children(id)}, Fault(701))
     ELSE IF flag = <<"BrowseMetadata">>
     THEN OrElse({browse_response(<<found>>, 1) : found \in entry(id)}, Fault(701))
     ELSE {Fault(402)}

(* Mutant: an action with nothing to say is left out.                      *)
BrowseOnly(action) ==
  CASE action.name = "Browse" -> browse(action)
    [] action.name = "GetSystemUpdateID" -> {Ok([Id |-> 1])}
    [] OTHER -> {Fault(401)}

content_directory_action(action) ==
  CASE action.name = "Browse" -> browse(action)
    [] action.name = "GetSearchCapabilities" -> {Ok([SearchCaps |-> <<>>])}
    [] action.name = "GetSortCapabilities" -> {Ok([SortCaps |-> <<>>])}
    [] action.name = "GetSystemUpdateID" -> {Ok([Id |-> 1])}
    [] OTHER -> {Fault(401)}

connection_manager_action(action) ==
  CASE action.name = "GetProtocolInfo" ->
         {Ok([Source |-> <<"http-get:*:*:*">>, Sink |-> <<>>])}
    [] action.name = "GetCurrentConnectionIDs" -> {Ok([ConnectionIDs |-> <<"0">>])}
    [] action.name = "GetCurrentConnectionInfo" ->
         IF /\ "ConnectionID" \in DOMAIN action.arguments
            /\ action.arguments.ConnectionID = <<"0">>
         THEN {Ok([RcsID |-> <<"-1">>, AVTransportID |-> <<"-1">>, ProtocolInfo |-> <<>>,
                   PeerConnectionManager |-> <<>>, PeerConnectionID |-> <<"-1">>,
                   Direction |-> <<"Output">>, Status |-> <<"OK">>])}
         ELSE {Fault(402)}
    [] OTHER -> {Fault(401)}

dispatch(service, action) ==
  IF service = "ContentDirectory" THEN content_directory_action(action)
  ELSE connection_manager_action(action)

-----------------------------------------------------------------------------
(* The services and where they are, as the description tells and the       *)
(* router expects.                                                         *)

Services == {"ContentDirectory", "ConnectionManager"}

scpd_path(service) == <<service, "scpd.xml">>

control_path(service) == <<service, "control">>

event_path(service) == <<service, "event">>

(* The actions the service descriptions list, with their arguments.        *)
Arguments(in, out) == [in |-> in, out |-> out]

content_directory_xml ==
  [Browse |-> Arguments({"ObjectID", "BrowseFlag", "Filter", "StartingIndex",
                         "RequestedCount", "SortCriteria"},
                        {"Result", "NumberReturned", "TotalMatches", "UpdateID"}),
   GetSearchCapabilities |-> Arguments({}, {"SearchCaps"}),
   GetSortCapabilities   |-> Arguments({}, {"SortCaps"}),
   GetSystemUpdateID     |-> Arguments({}, {"Id"})]

connection_manager_xml ==
  [GetProtocolInfo |-> Arguments({}, {"Source", "Sink"}),
   GetCurrentConnectionIDs  |-> Arguments({}, {"ConnectionIDs"}),
   GetCurrentConnectionInfo |->
     Arguments({"ConnectionID"},
               {"RcsID", "AVTransportID", "ProtocolInfo", "PeerConnectionManager",
                "PeerConnectionID", "Direction", "Status"})]

scpd_document(service) ==
  IF service = "ContentDirectory" THEN content_directory_xml ELSE connection_manager_xml

description ==
  {[service |-> s, scpd |-> scpd_path(s), control |-> control_path(s),
    event |-> event_path(s)] : s \in Services}

Route(kind, of) == [kind |-> kind, of |-> of]

(* The id in /item/{id} or /art/{id}: not empty, and the last segment.     *)
parse_path(prefix, path) ==
  IF Len(path) = 2 /\ path[1] = prefix THEN {path[2]} \ {<<>>} ELSE {}

route(method, path) ==
  LET Description == {Route("description", None) : p \in {path} \cap {<<"description.xml">>}}
      Item    == {Route("item", id) : id \in parse_path("item", path)}
      Art     == {Route("art", id) : id \in parse_path("art", path)}
      Scpd    == {Route("scpd", s) : s \in {t \in Services : path = scpd_path(t)}}
      Control == {Route("control", s) : s \in {t \in Services : path = control_path(t)}}
      routes == CASE method = "GET"  -> Description \cup Item \cup Art \cup Scpd
                  [] method = "HEAD" -> Item
                  [] method = "POST" -> Control
                  [] OTHER -> {}
  IN CHOOSE r \in OrElse(routes, Route("not_found", None)) : TRUE

-----------------------------------------------------------------------------
(* Requests: [method, path, length, body], length None without a           *)
(* Content-Length, body None if it cannot be read to its end.              *)

handle_control(service, req) ==
  IF req.length = None THEN {empty_response(400)}
  ELSE IF req.length > MAX_BODY_LEN THEN {empty_response(413)}
  ELSE IF req.body = None THEN {empty_response(400)}
  ELSE OrElse(UNION {dispatch(service, action) :
                       action \in parse_action(req.length, req.body)}, Fault(401))

(* The files an id leads to, links followed; none if it names no item or   *)
(* one outside the media directories.                                      *)
resolve_item_path(id) ==
  {path \in {disk.files[e.path].target : e \in {found \in entry(id) : found.path # None}} :
     disk.files[path].dir \in disk.within}

(* The headers are those of the file as it is resolved (ItemServe has the  *)
(* bytes).                                                                 *)
handle_item(id, method) ==
  OrElse({Response(200, [headers |-> protocol_info(path),
                         file |-> IF method = "HEAD" THEN None ELSE path]) :
            path \in resolve_item_path(id)}, empty_response(404))

handle_art(id) ==
  OrElse({Response(200, [picture |-> picture]) :
            picture \in {find_art(disk, path) : path \in resolve_item_path(id)} \ {None}},
         empty_response(404))

respond(r, req) ==
  CASE r.kind = "description" -> {Response(200, description)}
    [] r.kind = "scpd"        -> {Response(200, scpd_document(r.of))}
    [] r.kind = "control"     -> handle_control(r.of, req)
    [] r.kind = "item"        -> handle_item(r.of, req.method)
    [] r.kind = "art"         -> handle_art(r.of)
    [] r.kind = "not_found"   -> {empty_response(404)}

handle(req) == respond(route(req.method, req.path), req)
=============================================================================
