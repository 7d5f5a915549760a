----------------------------- MODULE ItemServe ------------------------------
(***************************************************************************)
(* A GET or HEAD of an item, from its path to the last byte of the answer  *)
(* (core/http/mod.rs, handle_item; core/http/range.rs; the ByteSource of   *)
(* transform/passthrough.rs).                                              *)
(*                                                                         *)
(* The path is resolved, the file found there measured, the Range header   *)
(* judged by that size, the file opened by its resolved path and sent on   *)
(* chunk by chunk, and every one of these is a system call of its own: in  *)
(* between links are turned to other files, files replaced, removed and    *)
(* written over.  A byte of an answer is the content it is from and its    *)
(* position there.                                                         *)
(***************************************************************************)
EXTENDS Integers, Sequences

CONSTANTS
  Names,         \* the paths of items, as the index has them
  Places,        \* the canonical paths these lead to
  Library,       \* the places inside the media directories
  Files,         \* the files on disk (inodes)
  Contents,      \* what a file may hold
  Size,          \* content -> its number of bytes
  MaxU64,        \* the largest u64
  RangeHeaders,  \* the Range headers clients send
  MaxChunk,      \* the most bytes one read of a file gives
  MaxChanges,    \* bounds what happens to the files
  None           \* no place, file, header, range or offset

ASSUME PlacesAssumption == Library \subseteq Places /\ None \notin Places \cup Files
ASSUME SizeAssumption == MaxU64 \in Nat /\ Size \in [Contents -> 0 .. MaxU64]
(* ByteRange of byte_source.rs, and the head of an answer.                 *)
ByteRange == [start : Nat, end : Nat]

Answers == [status : {200, 206, 404, 416}, range : ByteRange \cup {None},
            size : Nat, length : Nat]

ASSUME NoneAssumption == None \notin Nat \cup ByteRange \cup Answers
(* A header is "bytes=first-last", either offset perhaps left out; with    *)
(* both left out it stands for any text that is not of this form.          *)
ASSUME HeaderAssumption ==
  /\ RangeHeaders \subseteq [first : Nat \cup {None}, last : Nat \cup {None}]
  /\ None \notin RangeHeaders
ASSUME BoundsAssumption == MaxChunk \in Nat \ {0} /\ MaxChanges \in Nat

VARIABLES
  leads,      \* path -> the place it leads to, or None
  at,         \* place in Library -> the file there, or None
  bytes,      \* file -> the content it holds
  changes,    \* how often the disk changed
  seeks,      \* supports_range of the ByteSource
  step,       \* what the request waits for, or how it ended
  request,    \* the item's path, the method and the Range header
  resolved,   \* the place the path resolved to
  file_size,  \* the size stat gave
  file,       \* the file that was opened
  answer,     \* status, range and Content-Length of the answer
  body,       \* the bytes sent
  moved,      \* history: what is at resolved changed since it was resolved
  edited      \* history: file was written over since it was opened

disk  == <<leads, at, bytes, changes>>
local == <<request, resolved, file_size, file>>
vars  == <<disk, seeks, step, local, answer, body, moved, edited>>

Over == {"idle", "done", "broken", "left"}

Requests == [item : Names \cup {None}, method : {"GET", "HEAD"},
             header : RangeHeaders \cup {None}]

-----------------------------------------------------------------------------
(* The Range header.                                                       *)

Least(m, n) == IF m <= n THEN m ELSE n

SaturatingSub(m, n) == IF m >= n THEN m - n ELSE 0

(* str::parse::<u64>                                                       *)
Parses(offset) == offset = None \/ offset <= MaxU64

(* Mutant: the end of a range may lie past the end of the file.            *)
MeantUnclamped(header, size) ==
  IF header.first = None
  THEN [start |-> SaturatingSub(size, header.last), end |-> size - 1]
  ELSE IF header.last = None
  THEN [start |-> header.first, end |-> size - 1]
  ELSE [start |-> header.first, end |-> header.last]

(* The range of a header, the last byte being size - 1.                    *)
Meant(header, size) ==
  IF header.first = None
  THEN [start |-> SaturatingSub(size, header.last), end |-> size - 1]
  ELSE IF header.last = None
  THEN [start |-> header.first, end |-> size - 1]
  ELSE [start |-> header.first, end |-> Least(header.last, size - 1)]

Refused(header) ==
  \/ ~Parses(header.first) \/ ~Parses(header.last)
  \/ header.first = None /\ header.last \in {None, 0}
  \/ header.first # None /\ header.last # None /\ header.first > header.last

(* None stands for every RangeError: all of them are answered with 416.    *)
parse(header, size) ==
  IF size = 0 \/ Refused(header) THEN None
  ELSE LET range == Meant(header, size)
       IN IF range.start > range.end \/ range.start >= size THEN None ELSE range

Length(range) == Least(SaturatingSub(range.end, range.start) + 1, MaxU64)

-----------------------------------------------------------------------------
(* The disk, which others write.                                           *)

Touches(place) == moved' = (moved \/ place = resolved)

Change ==
  /\ changes < MaxChanges /\ changes' = changes + 1
  /\ UNCHANGED <<seeks, step, local, answer, body>>

(* A link on the way is turned to another place, or to none.               *)
Repoint(name) ==
  /\ Change
  /\ \E place \in Places \cup {None} : leads' = [leads EXCEPT ![name] = place]
  /\ UNCHANGED <<at, bytes, moved, edited>>

(* Another file is moved to the place, or the one there removed.           *)
Put(place) ==
  /\ Change
  /\ \E f \in Files \cup {None} : at' = [at EXCEPT ![place] = f]
  /\ Touches(place)
  /\ UNCHANGED <<leads, bytes, edited>>

(* A file is written over in place.                                        *)
Edit(f) ==
  /\ Change
  /\ \E content \in Contents : bytes' = [bytes EXCEPT ![f] = content]
  /\ moved' = (moved \/ (resolved # None /\ at[resolved] = f))
  /\ edited' = (edited \/ f = file)
  /\ UNCHANGED <<leads, at>>

-----------------------------------------------------------------------------
(* The handler.                                                            *)

(* The id named an item, or (None) it did not: entry() of the views.       *)
Request ==
  /\ step \in Over
  /\ request' \in Requests
  /\ step' = "resolve"
  /\ resolved' = None /\ file_size' = 0 /\ file' = None
  /\ answer' = None /\ body' = <<>>
  /\ moved' = FALSE /\ edited' = FALSE
  /\ UNCHANGED <<disk, seeks>>

(* status, Content-Range and Content-Length; "bytes */size" is size alone. *)
Reply(status, range, size, length) ==
  [status |-> status, range |-> range, size |-> size, length |-> length]

Refuse(status, size) ==
  /\ step' = "done"
  /\ answer' = Reply(status, None, size, 0)

(* canonicalize() fails for a path that leads nowhere.                     *)
Stands(place) == place # None /\ place \in Library /\ at[place] # None

Resolve ==
  /\ step = "resolve"
  /\ LET place == IF request.item = None THEN None ELSE leads[request.item]
     IN IF Stands(place)
        THEN resolved' = place /\ step' = "stat" /\ UNCHANGED answer
        ELSE Refuse(404, 0) /\ UNCHANGED resolved
  /\ UNCHANGED <<disk, seeks, request, file_size, file, body, moved, edited>>

(* Does the Range header count?  A source that cannot seek ignores it.     *)
Ranged(header) == header # None /\ seeks

Stat ==
  /\ step = "stat"
  /\ IF at[resolved] = None THEN Refuse(404, 0) /\ UNCHANGED file_size
     ELSE /\ file_size' = Size[bytes[at[resolved]]]
          /\ IF Ranged(request.header) /\ parse(request.header, file_size') = None
             THEN Refuse(416, file_size')
             ELSE step' = "open" /\ UNCHANGED answer
  /\ UNCHANGED <<disk, seeks, request, resolved, file, body, moved, edited>>

(* Outcome and item_response.                                              *)
item_response(header, size) ==
  IF Ranged(header)
  THEN LET range == parse(header, size) IN Reply(206, range, size, Length(range))
  ELSE Reply(200, None, 0, size)

(* Mutant: whether the file could be opened is not looked at.              *)
OpenUnchecked ==
  /\ step = "open"
  /\ file' = at[resolved]
  /\ answer' = item_response(request.header, file_size)
  /\ step' = IF request.method = "HEAD" THEN "done" ELSE "stream"
  /\ UNCHANGED <<disk, seeks, request, resolved, file_size, body, moved, edited>>

(* without_body drops the stream of a HEAD at once.                        *)
Open ==
  /\ step = "open"
  /\ IF at[resolved] = None THEN Refuse(404, 0) /\ UNCHANGED file
     ELSE /\ file' = at[resolved]
          /\ answer' = item_response(request.header, file_size)
          /\ step' = IF request.method = "HEAD" THEN "done" ELSE "stream"
  /\ UNCHANGED <<disk, seeks, request, resolved, file_size, body, moved, edited>>

(* count bytes of a content, from an offset on.                            *)
Slice(content, offset, count) ==
  [i \in 1 .. count |-> <<content, offset + i - 1>>]

Offset == (IF answer.range = None THEN 0 ELSE answer.range.start) + Len(body)

(* What is still to be read: take(len) ends a range, and hyper a body that *)
(* would outgrow its Content-Length.                                       *)
Left == Least(answer.length - Len(body), SaturatingSub(Size[bytes[file]], Offset))

(* Mutant: a read that gives nothing is not taken for the end.            *)
StreamPastEnd ==
  /\ step = "stream"
  /\ IF Len(body) < answer.length
     THEN /\ \E count \in 0 .. Least(MaxChunk, Left) :
               body' = body \o Slice(bytes[file], Offset, count)
          /\ UNCHANGED step
     ELSE step' = "done" /\ UNCHANGED body
  /\ UNCHANGED <<disk, seeks, local, answer, moved, edited>>

(* Mutant: the place is opened again for every read.                       *)
StreamReopening ==
  /\ step = "stream"
  /\ IF at[resolved] # None /\ Left > 0
     THEN /\ body' = body \o Slice(bytes[at[resolved]], Offset, 1)
          /\ UNCHANGED step
     ELSE step' = "done" /\ UNCHANGED body
  /\ UNCHANGED <<disk, seeks, local, answer, moved, edited>>

(* One read of the stream.  hyper closes the connection under a body that  *)
(* ends before its Content-Length.                                         *)
Stream ==
  /\ step = "stream"
  /\ IF Left > 0
     THEN /\ \E count \in 1 .. Least(MaxChunk, Left) :
               body' = body \o Slice(bytes[file], Offset, count)
          /\ UNCHANGED step
     ELSE /\ step' = IF Len(body) = answer.length THEN "done" ELSE "broken"
          /\ UNCHANGED body
  /\ UNCHANGED <<disk, seeks, local, answer, moved, edited>>

(* The client goes away.                                                   *)
Leave ==
  /\ step \notin Over
  /\ step' = "left"
  /\ UNCHANGED <<disk, seeks, local, answer, body, moved, edited>>

-----------------------------------------------------------------------------
Init ==
  /\ leads \in [Names -> Library]
  /\ at \in [Library -> Files]
  /\ bytes \in [Files -> Contents]
  /\ changes = 0
  /\ seeks \in BOOLEAN
  /\ step = "idle"
  /\ request = [item |-> None, method |-> "GET", header |-> None]
  /\ resolved = None /\ file_size = 0 /\ file = None
  /\ answer = None /\ body = <<>>
  /\ moved = FALSE /\ edited = FALSE

Serve == Resolve \/ Stat \/ Open \/ Stream

Next ==
  \/ Request \/ Serve \/ Leave
  \/ \E name \in Names : Repoint(name)
  \/ \E place \in Library : Put(place)
  \/ \E f \in Files : Edit(f)

(* The request's task goes on, and its client reads what it is sent.       *)
Spec == Init /\ [][Next]_vars /\ WF_vars(Serve)

-----------------------------------------------------------------------------
(* Every variable holds what its field or local of the code may.           *)
TypeOK ==
  /\ leads \in [Names -> Places \cup {None}]
  /\ at \in [Library -> Files \cup {None}]
  /\ bytes \in [Files -> Contents]
  /\ changes \in 0 .. MaxChanges
  /\ seeks \in BOOLEAN
  /\ step \in Over \cup {"resolve", "stat", "open", "stream"}
  /\ request \in Requests
  /\ resolved \in Library \cup {None}
  /\ file_size \in 0 .. MaxU64
  /\ file \in Files \cup {None}
  /\ answer \in Answers \cup {None}
  /\ body \in Seq(Contents \X Nat)
  /\ moved \in BOOLEAN /\ edited \in BOOLEAN
  /\ step \in {"stat", "open", "stream"} => resolved # None
  /\ step = "stream" \/ edited => file # None
  /\ step \in {"stream", "done", "broken"} => answer # None

(* The bytes a Range header asks for, as HTTP defines it for one range.    *)
Wanted(header, size) ==
  {i \in 0 .. size - 1 :
     IF header.first = None THEN size <= i + header.last
     ELSE header.first <= i /\ (header.last = None \/ i <= header.last)}

(* Is it a single range, in numbers the server can hold?                   *)
Understood(header) ==
  /\ Parses(header.first) /\ Parses(header.last)
  /\ header.first # None \/ header.last # None

(* What the answer to a request for a file of this content must be.        *)
Right(content) ==
  LET size == Size[content]
  IN \/ /\ ~Ranged(request.header)
        /\ answer = Reply(200, None, 0, size)
     \/ /\ Ranged(request.header)
        /\ Understood(request.header)
        /\ answer.status = 206
        /\ answer.range.start <= answer.range.end
        /\ Wanted(request.header, size) = answer.range.start .. answer.range.end
        /\ answer.size = size
        /\ answer.length = answer.range.end - answer.range.start + 1
     \/ /\ Ranged(request.header)
        /\ ~Understood(request.header) \/ Wanted(request.header, size) = {}
        /\ answer = Reply(416, None, size, 0)

Start == IF answer.range = None THEN 0 ELSE answer.range.start

(* As long as nothing happens to the file an item resolved to, the answer  *)
(* is the one its size and the Range header call for (handle_item and      *)
(* range::parse), its body is the bytes it announces, all of them and no   *)
(* other, or none for a HEAD, and it is never cut short.                   *)
Exact ==
  resolved # None /\ ~moved =>
    /\ step # "broken"
    /\ step = "done" =>
         LET content == bytes[at[resolved]]
         IN /\ Right(content)
            /\ body = Slice(content, Start,
                 IF request.method = "HEAD" THEN 0 ELSE answer.length)

(* Whatever is done to links and places while an answer is on its way, its *)
(* bytes are consecutive ones of the one file it opened: a track replaced  *)
(* by another while it plays is never continued with the other's bytes.    *)
OneVersion ==
  file # None /\ ~edited => body = Slice(bytes[file], Start, Len(body))

(* Every request ends, though its file be cut short under the stream.      *)
Answered == step \notin Over ~> step \in Over
=============================================================================
