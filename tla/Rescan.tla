------------------------------- MODULE Rescan -------------------------------
(***************************************************************************)
(* The rescan loop (rescan.rs) with the walk it runs (scanner.rs), the     *)
(* metadata provider the walk asks (metadata/tags.rs, in front of it the   *)
(* persistent cache of metadata/tag_cache.rs) and the process that starts  *)
(* and stops around it (main.rs).                                          *)
(*                                                                         *)
(* One scan is one sequential thread, but the media directories belong to  *)
(* someone else: files are rewritten, removed and put back between any two *)
(* system calls of the scan.  Every stat and every read is a step of its   *)
(* own.  Where the items sit in the tree is the subject of TreeScan; here  *)
(* the index is a map from paths to items.                                 *)
(***************************************************************************)
EXTENDS Naturals, FiniteSets

CONSTANTS
  Paths,          \* the audio files a configured directory may hold
  Folders,        \* the directories find_cover_file looks into
  FolderOf,       \* path -> the directory whose image is its cover
  EmbeddedArt,    \* the versions whose tag holds a picture
  MaxVersion,     \* bounds how often one file is rewritten
  MaxDisruptions, \* bounds terminations, kills, scan panics and cache failures
  None,           \* no entry, no record, no path
  CacheEnabled,   \* [tag_cache] enabled
  Flicker,        \* may a file be gone for a while and return unchanged?
  CoverEdits      \* may cover images come and go?

ASSUME MaxVersionAssumption == MaxVersion \in Nat \ {0}
ASSUME FolderAssumption == FolderOf \in [Paths -> Folders]
ASSUME SwitchAssumption ==
  {CacheEnabled, Flicker, CoverEdits} \subseteq BOOLEAN
ASSUME DisruptionsAssumption == MaxDisruptions \in Nat
ASSUME NoneAssumption ==
  None \notin [stamp : Nat, content : Nat, art : BOOLEAN]

VARIABLES
  disk,        \* path -> the file there now
  covers,      \* the folders that hold a cover image now
  proc,        \* the server process: "down", "up" or "stopping"
  provider,    \* the MetadataProvider build_tags chose: "plain" or "cached"
  pc,          \* the step the rescan loop is at
  todo,        \* paths the walk has still to finish with
  cur,         \* the path being read
  seen,        \* the stamp of cur's directory entry
  key,         \* the stamp the cache's own stat gave, 0 for none
  got,         \* the tags read so far
  build,       \* the index under construction
  stale,       \* the keys retain_only decided to drop
  index,       \* path -> the item SharedIndex serves
  cache,       \* path -> the tag record, as this process sees the database
  durable,     \* path -> the tag record a killed process leaves behind
  disrupted,   \* how many disruptions there have been
  health,      \* history: "failed" once an operation of the cache failed
  dirtyScan,   \* history: paths touched since the running scan began, or all
  dirtyIndex   \* history: paths touched since the scan behind index began

media    == <<disk, covers>>
locals   == <<todo, cur, seen, key, got, build, stale>>
database == <<cache, durable>>
process  == <<proc, provider>>
trouble  == <<disrupted, health>>
history  == <<dirtyScan, dirtyIndex>>
vars     == <<media, process, trouble, pc, locals, index, database, history>>

(* What the loop promises to the views.                                    *)
Contract == INSTANCE LibraryContract

File         == Contract!File
Versions     == Contract!Versions
Item         == Contract!Item
Entries      == Contract!Entries
NoFiles      == Contract!NoFiles
FilenameOnly == Contract!FilenameOnly

(* What a MetadataProvider returns of a file.  `content` stands for every  *)
(* field that comes out of the file's own bytes.                           *)
Tags   == [content : Contract!Contents, art : BOOLEAN]
NoTags == [content |-> FilenameOnly, art |-> FALSE]

(* A record of the cache: the stamp it was made under and the tags.        *)
Record == Item

Reading == {"stat", "lookup", "parse", "cover", "store"}
Walking == Reading \cup {"walk"}
Steps   == Walking \cup {"sleep", "delete", "replace"}

(* What art() would find for p now: a picture in the tag, else a cover.    *)
HasArt(p) == disk[p].ver \in EmbeddedArt \/ FolderOf[p] \in covers

(* Mutant: any record counts, whatever stamp it was made under.            *)
HitAnyStamp == cache[cur] # None

(* lookup(): the record stored for cur counts only under the same stamp.   *)
Hit == cache[cur] # None /\ cache[cur].stamp = key

(* What the scan's locals are while none runs.                             *)
NoScan ==
  /\ dirtyScan' = Paths
  /\ todo' = {} /\ cur' = None /\ seen' = 0 /\ key' = 0
  /\ got' = NoTags /\ build' = NoFiles /\ stale' = {}

Disrupt ==
  /\ disrupted < MaxDisruptions
  /\ disrupted' = disrupted + 1

-----------------------------------------------------------------------------
(* The media directories, which others write.                              *)

Touched(ps) ==
  /\ dirtyScan' = dirtyScan \cup ps
  /\ dirtyIndex' = dirtyIndex \cup ps
  /\ UNCHANGED <<process, trouble, pc, locals, index, database>>

ChangeFile(p, f) ==
  /\ disk' = [disk EXCEPT ![p] = f]
  /\ Touched({p})
  /\ UNCHANGED covers

Write(p) ==
  /\ disk[p].ver < MaxVersion
  /\ ChangeFile(p, [ver |-> disk[p].ver + 1, present |-> TRUE])

Remove(p) ==
  /\ disk[p].present
  /\ ChangeFile(p, [ver |-> disk[p].ver, present |-> FALSE])

(* A disk is mounted again, a file is moved back, a failing read works     *)
(* again: the same bytes under the same size and mtime.                    *)
Reappear(p) ==
  /\ Flicker
  /\ ~disk[p].present
  /\ ChangeFile(p, [ver |-> disk[p].ver, present |-> TRUE])

(* A cover image is added beside the tracks of d, or taken away.           *)
EditCover(d) ==
  /\ CoverEdits
  /\ covers' = (covers \cup {d}) \ (covers \cap {d})
  /\ Touched({p \in Paths : FolderOf[p] = d})
  /\ UNCHANGED disk

-----------------------------------------------------------------------------
(* The walk and the provider.                                              *)

Running(step) == proc # "down" /\ pc = step

(* A step of the scan's own thread changes its locals, pc and the cache.   *)
Internal == UNCHANGED <<media, process, index, durable, history>>

(* Each of the cache's own operations may fail, and none reports it.       *)
Works == UNCHANGED trouble
Fails == Disrupt /\ health' = "failed"

(* Mutant: the loop scans until it has published once.                     *)
BeginFirstScan ==
  /\ proc = "up" /\ pc = "sleep" /\ index = NoFiles
  /\ pc' = "walk"
  /\ todo' = Paths
  /\ dirtyScan' = {}
  /\ UNCHANGED <<media, process, trouble, cur, seen, key, got, build, stale,
                 index, database, dirtyIndex>>

BeginScan ==
  /\ proc = "up" /\ pc = "sleep"
  /\ pc' = "walk"
  /\ todo' = Paths
  /\ dirtyScan' = {}
  /\ UNCHANGED <<media, process, trouble, cur, seen, key, got, build, stale,
                 index, database, dirtyIndex>>

(* p is not there when its directory is listed or its entry is stat'ed.    *)
Skip(p) ==
  /\ Running("walk") /\ p \in todo
  /\ ~disk[p].present
  /\ todo' = todo \ {p}
  /\ Internal
  /\ UNCHANGED <<trouble, pc, cur, seen, key, got, build, stale, cache>>

(* Mutant: the entry's own size and mtime are not kept.                    *)
VisitWithoutStamp(p) ==
  /\ Running("walk") /\ p \in todo
  /\ disk[p].present
  /\ cur' = p
  /\ pc' = IF provider = "cached" THEN "stat" ELSE "parse"
  /\ Internal
  /\ UNCHANGED <<trouble, todo, seen, key, got, build, stale, cache>>

Visit(p) ==
  /\ Running("walk") /\ p \in todo
  /\ disk[p].present
  /\ cur' = p
  /\ seen' = disk[p].ver
  /\ pc' = IF provider = "cached" THEN "stat" ELSE "parse"
  /\ Internal
  /\ UNCHANGED <<trouble, todo, key, got, build, stale, cache>>

(* The cache stats the file itself.  Without a stamp it neither looks up   *)
(* nor stores: the file is gone, or the stat fails (a modification time    *)
(* before 1970 comes to the same).                                         *)
StatForCache ==
  /\ Running("stat")
  /\ \/ disk[cur].present /\ key' = disk[cur].ver /\ pc' = "lookup" /\ Works
     \/ ~disk[cur].present /\ key' = 0 /\ pc' = "parse" /\ Works
     \/ disk[cur].present /\ key' = 0 /\ pc' = "parse" /\ Fails
  /\ Internal
  /\ UNCHANGED <<todo, cur, seen, got, build, stale, cache>>

(* add_item_with_tags: the entry's own stamp, the provider's tags.         *)
AddItem(tags) ==
  /\ build' = [build EXCEPT ![cur] =
                 [stamp |-> seen, content |-> tags.content, art |-> tags.art]]
  /\ todo' = todo \ {cur}
  /\ cur' = None /\ seen' = 0 /\ key' = 0 /\ got' = NoTags
  /\ pc' = "walk"
  /\ UNCHANGED stale

LookupHit ==
  /\ Running("lookup") /\ Hit
  /\ AddItem(cache[cur])
  /\ Internal
  /\ UNCHANGED <<trouble, cache>>

LookupMiss ==
  /\ Running("lookup")
  /\ IF Hit THEN Fails ELSE Works
  /\ pc' = "parse"
  /\ Internal
  /\ UNCHANGED <<todo, cur, seen, key, got, build, stale, cache>>

(* Mutant: the cover lookup also runs, and decides, after a picture was    *)
(* found in the tag.                                                       *)
ParseTagsForgetsPicture ==
  /\ Running("parse")
  /\ got' = [content |-> IF disk[cur].present THEN disk[cur].ver ELSE FilenameOnly,
             art |-> FALSE]
  /\ pc' = "cover"
  /\ Internal
  /\ UNCHANGED <<trouble, todo, cur, seen, key, build, stale, cache>>

(* The file is opened and parsed; a file that cannot be opened yields what *)
(* its name says.  A picture in the tag settles has_art.                   *)
ParseTags ==
  /\ Running("parse")
  /\ LET readable == disk[cur].present
         embedded == readable /\ disk[cur].ver \in EmbeddedArt
     IN /\ got' = [content |-> IF readable THEN disk[cur].ver ELSE FilenameOnly,
                   art |-> embedded]
        /\ pc' = IF embedded THEN "store" ELSE "cover"
  /\ Internal
  /\ UNCHANGED <<trouble, todo, cur, seen, key, build, stale, cache>>

FindCover ==
  /\ Running("cover")
  /\ got' = [got EXCEPT !.art = FolderOf[cur] \in covers]
  /\ pc' = "store"
  /\ Internal
  /\ UNCHANGED <<trouble, todo, cur, seen, key, build, stale, cache>>

(* Mutant: the stamp is taken when the record is stored, after the read.   *)
StoreUnderLaterStamp ==
  /\ Running("store")
  /\ IF key # 0
     THEN cache' = [cache EXCEPT ![cur] = [stamp |-> disk[cur].ver,
                                           content |-> got.content,
                                           art |-> got.art]]
     ELSE UNCHANGED cache
  /\ Works
  /\ AddItem(got)
  /\ Internal

(* store() files the fresh tags under the stamp taken before they were     *)
(* read; whether it succeeds or not the item enters the index.             *)
StoreAndAdd ==
  /\ Running("store")
  /\ \/ /\ key # 0
        /\ cache' = [cache EXCEPT ![cur] =
                       [stamp |-> key, content |-> got.content, art |-> got.art]]
        /\ Works
     \/ key = 0 /\ UNCHANGED cache /\ Works
     \/ key # 0 /\ UNCHANGED cache /\ Fails
  /\ AddItem(got)
  /\ Internal

(* Mutant: live paths are taken from the index being replaced.             *)
RetainReadOldIndex ==
  /\ Running("walk") /\ todo = {}
  /\ stale' = IF provider = "cached"
              THEN {p \in Paths : cache[p] # None /\ index[p] = None}
              ELSE {}
  /\ pc' = IF stale' = {} THEN "replace" ELSE "delete"
  /\ Works
  /\ Internal
  /\ UNCHANGED <<todo, cur, seen, key, got, build, cache>>

(* retain_only's first pass: the keys no item of the new index has.        *)
RetainRead ==
  /\ Running("walk") /\ todo = {}
  /\ \/ /\ provider = "cached"
        /\ stale' = {p \in Paths : cache[p] # None /\ build[p] = None}
        /\ Works
     \/ provider = "plain" /\ stale' = {} /\ Works
     \/ provider = "cached" /\ stale' = {} /\ Fails
  /\ pc' = IF stale' = {} THEN "replace" ELSE "delete"
  /\ Internal
  /\ UNCHANGED <<todo, cur, seen, key, got, build, cache>>

(* retain_only's second pass.                                              *)
RetainDelete ==
  /\ Running("delete")
  /\ \/ cache' = [p \in Paths |-> IF p \in stale THEN None ELSE cache[p]] /\ Works
     \/ UNCHANGED cache /\ Fails
  /\ stale' = {}
  /\ pc' = "replace"
  /\ Internal
  /\ UNCHANGED <<todo, cur, seen, key, got, build>>

(* Mutant: new items are patched into the old index.                       *)
ReplacePatches ==
  /\ Running("replace")
  /\ index' = [p \in Paths |-> IF build[p] = None THEN index[p] ELSE build[p]]
  /\ dirtyIndex' = dirtyScan
  /\ pc' = "sleep"
  /\ NoScan
  /\ UNCHANGED <<media, process, trouble, database>>

(* Back on the async side: the index is swapped, the loop sleeps.  An      *)
(* abort() takes hold at an await only, so a task already past the last    *)
(* one still swaps.                                                        *)
Replace ==
  /\ Running("replace")
  /\ index' = build
  /\ dirtyIndex' = dirtyScan
  /\ pc' = "sleep"
  /\ NoScan
  /\ UNCHANGED <<media, process, trouble, database>>

(* The blocking task panics: the error is logged, the old index stays.     *)
Panic ==
  /\ pc \in Walking \cup {"delete"}
  /\ Disrupt /\ UNCHANGED health
  /\ pc' = "sleep"
  /\ NoScan
  /\ UNCHANGED <<media, process, index, database, dirtyIndex>>

-----------------------------------------------------------------------------
(* The process.                                                            *)

(* main() opens the cache if it is enabled and can be opened.              *)
Start ==
  /\ proc = "down"
  /\ proc' = "up"
  /\ provider' \in {"plain"} \cup (IF CacheEnabled THEN {"cached"} ELSE {})
  /\ UNCHANGED <<media, trouble, pc, locals, index, database, history>>

(* A signal: the rescan task is aborted.  A scan already on its blocking   *)
(* thread runs on, and the process cannot end before it has.               *)
Terminate ==
  /\ proc = "up"
  /\ Disrupt /\ UNCHANGED health
  /\ proc' = "stopping"
  /\ UNCHANGED <<media, provider, pc, locals, index, database, history>>

(* What is left of a process: the database.                                *)
Gone ==
  /\ proc' = "down"
  /\ provider' = "plain"
  /\ pc' = "sleep"
  /\ NoScan
  /\ index' = NoFiles
  /\ dirtyIndex' = Paths
  /\ UNCHANGED media

(* Closing the database may or may not make its last commits durable.      *)
Exit ==
  /\ proc = "stopping" /\ pc \in {"sleep", "replace"}
  /\ Gone
  /\ \/ durable' = cache /\ UNCHANGED cache
     \/ cache' = durable /\ UNCHANGED durable
  /\ UNCHANGED trouble

(* Every commit was made with Durability::None, so a crash forgets it.     *)
Kill ==
  /\ proc # "down"
  /\ Disrupt /\ UNCHANGED health
  /\ Gone
  /\ cache' = durable
  /\ UNCHANGED durable

-----------------------------------------------------------------------------

Init ==
  /\ disk \in [Paths -> [ver : {1}, present : BOOLEAN]]
  /\ covers = {}
  /\ proc = "down" /\ provider = "plain" /\ disrupted = 0 /\ health = "sound"
  /\ pc = "sleep"
  /\ todo = {} /\ cur = None /\ seen = 0 /\ key = 0
  /\ got = NoTags /\ build = NoFiles /\ stale = {}
  /\ index = NoFiles
  /\ cache = NoFiles /\ durable = NoFiles
  /\ dirtyScan = Paths /\ dirtyIndex = Paths

Environment ==
  \/ \E p \in Paths : Write(p) \/ Remove(p) \/ Reappear(p)
  \/ \E d \in Folders : EditCover(d)

(* What the runtime and the blocking thread carry out by themselves.       *)
ScanStep ==
  \/ BeginScan
  \/ \E p \in Paths : Skip(p) \/ Visit(p)
  \/ StatForCache \/ LookupHit \/ LookupMiss
  \/ ParseTags \/ FindCover \/ StoreAndAdd
  \/ RetainRead \/ RetainDelete
  \/ Replace

Lifecycle == Start \/ Terminate \/ Exit \/ Kill \/ Panic

Next == Environment \/ ScanStep \/ Lifecycle

(* The timer fires and the blocking thread runs: a scan that can take its  *)
(* next step takes it.  Nobody promises to start a process or to stop it.  *)
Spec == Init /\ [][Next]_vars /\ WF_vars(ScanStep)

-----------------------------------------------------------------------------
(* Properties.                                                             *)

TypeOK ==
  /\ disk \in [Paths -> File]
  /\ covers \subseteq Folders
  /\ proc \in {"down", "up", "stopping"}
  /\ provider \in {"plain", "cached"}
  /\ pc \in Steps
  /\ todo \subseteq Paths
  /\ cur \in Paths \cup {None}
  /\ seen \in Contract!Contents
  /\ key \in Contract!Contents
  /\ got \in Tags
  /\ build \in [Paths -> Entries]
  /\ stale \subseteq Paths
  /\ index \in [Paths -> Entries]
  /\ cache \in [Paths -> Entries]
  /\ durable \in [Paths -> Entries]
  /\ disrupted \in Nat /\ health \in {"sound", "failed"}
  /\ dirtyScan \subseteq Paths
  /\ dirtyIndex \subseteq Paths
  /\ pc \in Reading => cur \in todo /\ seen # 0

(* The tag cache is never wrong about a file that is there: a record under *)
(* the stamp the file has now holds the tags the file has now, whatever    *)
(* was rewritten between the stat and the read that made it, and whatever  *)
(* a crash rolled back (tag_cache.rs metadata, store, retain_only).        *)
CacheSound ==
  \A p \in Paths :
    cache[p] # None /\ disk[p].present /\ cache[p].stamp = disk[p].ver
      => cache[p].content = disk[p].ver

(* A file nobody touched since the scan behind the served index began is   *)
(* served as it is on disk, with the cache or without it (rescan.rs        *)
(* rescan_once).                                                           *)
IndexFresh == Contract!IndexFresh

(* Such a file is announced with art exactly when a request for its art    *)
(* would find some (tags.rs metadata and find_art).                        *)
ArtFresh ==
  \A p \in Paths \ dirtyIndex :
    index[p] # None => index[p].art = HasArt(p)

(* Once a scan has been published, a cached provider whose database works  *)
(* parses only files touched since that scan began: store and retain_only  *)
(* between them keep the record of every file that stayed (README: repeated*)
(* rescans skip a file once nothing about it has changed).                 *)
ReparseOnlyTouched ==
  [][ParseTags /\ provider = "cached" /\ health = "sound"
       => cur \in dirtyIndex]_vars

(* The loop with its cache keeps the promise of the loop without: readers  *)
(* see the index change only whole, and only to one that is right about    *)
(* every file left alone meanwhile.                                        *)
ImplementsContract == Contract!Spec

(* If the process stays up, then once the files are left alone the served  *)
(* index becomes what the disk holds and stays so: a new file appears and  *)
(* a removed one goes without a restart (rescan.rs run).                   *)
Converges ==
  <>[](proc = "up")
    => <>[](\A p \in Paths : Contract!Describes(p, index[p]))
=============================================================================
