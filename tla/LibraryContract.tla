--------------------------- MODULE LibraryContract ---------------------------
(***************************************************************************)
(* What the rescan loop promises the views that browse the library,       *)
(* without the walk, the tag cache or the process that runs them.          *)
(*                                                                         *)
(* Files change at any moment.  Now and then a scan begins, and later the  *)
(* whole index is exchanged for another one in a single step.  The index   *)
(* put in place describes every file nobody touched since that scan began  *)
(* exactly as it is on disk.  Of a file touched meanwhile nothing is       *)
(* promised: the next scan sees to it.                                     *)
(***************************************************************************)
EXTENDS Naturals

CONSTANTS
  Paths,       \* the audio files a configured directory may hold
  MaxVersion,  \* bounds how often one file is rewritten
  None         \* no entry

VARIABLES
  disk,        \* path -> the file there now
  index,       \* path -> the item SharedIndex serves for it
  dirtyScan,   \* history: paths touched since the running scan began, or all
  dirtyIndex   \* history: paths touched since the scan behind `index` began

contractVars == <<disk, index, dirtyScan, dirtyIndex>>

(* A file's version stands for its bytes and, as its size and mtime, for   *)
(* the stamp they carry: rewriting a file gives it a version of its own.   *)
Versions == 1 .. MaxVersion
File     == [ver : Versions, present : BOOLEAN]

(* What a tag read yields instead when the file cannot be read: what its   *)
(* name alone says.                                                        *)
FilenameOnly == 0
Contents     == Versions \cup {FilenameOnly}

(* An item of the index: its size and mtime, the tags read for it, and     *)
(* whether it has art.                                                     *)
Item    == [stamp : Versions, content : Contents, art : BOOLEAN]
Entries == Item \cup {None}
NoFiles == [p \in Paths |-> None]

(* An index entry says of p what the disk says of it now.                  *)
Describes(p, entry) ==
  IF disk[p].present
  THEN /\ entry # None
       /\ entry.stamp = disk[p].ver
       /\ entry.content = disk[p].ver
  ELSE entry = None

-----------------------------------------------------------------------------

Init ==
  /\ disk \in [Paths -> [ver : {1}, present : BOOLEAN]]
  /\ index = NoFiles
  /\ dirtyScan = Paths
  /\ dirtyIndex = Paths

(* Some files change on disk.                                              *)
Touch(touched) ==
  /\ disk' \in [Paths -> File]
  /\ \A p \in Paths \ touched : disk'[p] = disk[p]
  /\ dirtyScan' = dirtyScan \cup touched
  /\ dirtyIndex' = dirtyIndex \cup touched
  /\ UNCHANGED index

Begin ==
  /\ dirtyScan' = {}
  /\ UNCHANGED <<disk, index, dirtyIndex>>

(* A scan ends without an index.                                           *)
Abandon ==
  /\ dirtyScan' = Paths
  /\ UNCHANGED <<disk, index, dirtyIndex>>

(* The index is exchanged whole.                                           *)
Publish ==
  /\ index' \in [Paths -> Entries]
  /\ \A p \in Paths \ dirtyScan : Describes(p, index'[p])
  /\ dirtyIndex' = dirtyScan
  /\ dirtyScan' = Paths
  /\ UNCHANGED disk

(* The process ends, and the index with it.                                *)
Lose ==
  /\ index' = NoFiles
  /\ dirtyIndex' = Paths
  /\ dirtyScan' = Paths
  /\ UNCHANGED disk

Next ==
  \/ \E touched \in SUBSET Paths : Touch(touched)
  \/ Begin
  \/ Abandon
  \/ Publish
  \/ Lose

Spec == Init /\ [][Next]_contractVars

(* A file untouched since the scan behind the served index began is served *)
(* exactly as it is on disk: present with its size, mtime and tags, or     *)
(* absent.                                                                 *)
IndexFresh == \A p \in Paths \ dirtyIndex : Describes(p, index[p])
==============================================================================
