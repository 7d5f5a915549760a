---------------------------- MODULE RescanProofs ----------------------------
(***************************************************************************)
(* Theorems about the rescan loop, for every set of files and folders and  *)
(* every bound.                                                            *)
(***************************************************************************)
EXTENDS Rescan, TLAPS

(* The definitions the types are made of.                                  *)
USE DEF File, Versions, Item, Entries, NoFiles, FilenameOnly, Tags, NoTags,
        Contract!File, Contract!Versions, Contract!Item, Contract!Entries,
        Contract!NoFiles, Contract!FilenameOnly, Contract!Contents,
        Reading, Walking, Steps

-----------------------------------------------------------------------------

LEMMA InitTypeOK == Init => TypeOK
  BY MaxVersionAssumption DEF Init, TypeOK

LEMMA NextTypeOK == TypeOK /\ [Next]_vars => TypeOK'
<1> SUFFICES ASSUME TypeOK, [Next]_vars PROVE TypeOK'
  OBVIOUS
<1> USE MaxVersionAssumption DEF TypeOK
<1>1. CASE UNCHANGED vars
  BY <1>1 DEF vars, media, process, trouble, locals, database, history
<1>2. ASSUME NEW p \in Paths, Write(p) \/ Remove(p) \/ Reappear(p) PROVE TypeOK'
  <2>1. PICK f \in File : ChangeFile(p, f)
    <3>1. disk[p] \in File
      OBVIOUS
    <3>2. CASE Write(p)
      <4>1. disk[p].ver + 1 \in Versions
        BY <3>1, <3>2 DEF Write
      <4>2. [ver |-> disk[p].ver + 1, present |-> TRUE] \in File
        BY <4>1
      <4> QED
        BY <3>2, <4>2 DEF Write
    <3>3. CASE Remove(p)
      BY <3>1, <3>3 DEF Remove
    <3>4. CASE Reappear(p)
      BY <3>1, <3>4 DEF Reappear
    <3> QED
      BY <1>2, <3>2, <3>3, <3>4
  <2> QED
    BY <2>1 DEF ChangeFile, Touched, process, trouble, locals, database
<1>3. ASSUME NEW d \in Folders, EditCover(d) PROVE TypeOK'
  BY <1>3 DEF EditCover, Touched, process, trouble, locals, database
<1>4. CASE BeginScan
  BY <1>4 DEF BeginScan, media, process, trouble, database
<1>5. ASSUME NEW p \in Paths, Skip(p) PROVE TypeOK'
  BY <1>5 DEF Skip, Running, Internal, media, process, trouble, history
<1>6. ASSUME NEW p \in Paths, Visit(p) PROVE TypeOK'
  BY <1>6 DEF Visit, Running, Internal, media, process, trouble, history
<1>7. CASE StatForCache
  BY <1>7, DisruptionsAssumption
     DEF StatForCache, Running, Internal, Works, Fails, Disrupt, media, process,
         trouble, history
<1>8. CASE LookupHit
  BY <1>8 DEF LookupHit, Hit, AddItem, Running, Internal, media, process,
              trouble, history
<1>9. CASE LookupMiss
  BY <1>9, DisruptionsAssumption
     DEF LookupMiss, Hit, Running, Internal, Works, Fails, Disrupt, media,
         process, trouble, history
<1>10. CASE ParseTags
  BY <1>10 DEF ParseTags, Running, Internal, media, process, trouble, history
<1>11. CASE FindCover
  <2>1. got' \in Tags
    <3>1. got' = [got EXCEPT !.art = FolderOf[cur] \in covers]
      BY <1>11 DEF FindCover
    <3>2. (FolderOf[cur] \in covers) \in BOOLEAN
      OBVIOUS
    <3> QED
      BY <3>1, <3>2
  <2> QED
    BY <1>11, <2>1
    DEF FindCover, Running, Internal, media, process, trouble, history
<1>12. CASE StoreAndAdd
  BY <1>12, DisruptionsAssumption
     DEF StoreAndAdd, AddItem, Running, Internal, Works, Fails, Disrupt, media,
         process, trouble, history
<1>13. CASE RetainRead
  BY <1>13, DisruptionsAssumption
     DEF RetainRead, Running, Internal, Works, Fails, Disrupt, media, process,
         trouble, history
<1>14. CASE RetainDelete
  BY <1>14, DisruptionsAssumption
     DEF RetainDelete, Running, Internal, Works, Fails, Disrupt, media, process,
         trouble, history
<1>15. CASE Replace
  BY <1>15 DEF Replace, NoScan, Running, media, process, trouble, database
<1>16. CASE Start
  BY <1>16 DEF Start, media, trouble, locals, database, history
<1>17. CASE Terminate
  BY <1>17 DEF Terminate, Disrupt, media, locals, database, history
<1>18. CASE Exit
  BY <1>18 DEF Exit, Gone, NoScan, media, trouble
<1>19. CASE Kill
  BY <1>19 DEF Kill, Gone, NoScan, Disrupt, media
<1>20. CASE Panic
  BY <1>20 DEF Panic, NoScan, Disrupt, media, process, database
<1> QED
  BY <1>1, <1>2, <1>3, <1>4, <1>5, <1>6, <1>7, <1>8, <1>9, <1>10, <1>11, <1>12,
     <1>13, <1>14, <1>15, <1>16, <1>17, <1>18, <1>19, <1>20
  DEF Next, Environment, ScanStep, Lifecycle

(* Every state of the loop is of the shape TypeOK gives it.                *)
THEOREM TypeCorrect == Spec => []TypeOK
  BY InitTypeOK, NextTypeOK, PTL DEF Spec

-----------------------------------------------------------------------------
(* The inductive invariant, for files that do not come back unchanged.     *)

(* A record never carries a stamp its file has yet to get, and under the   *)
(* stamp the file has now it holds the tags the file has now.              *)
RecordSound(p, r) ==
  r # None =>
    /\ r.stamp <= disk[p].ver
    /\ disk[p].present /\ r.stamp = disk[p].ver => r.content = disk[p].ver

DatabaseInv ==
  \A p \in Paths : RecordSound(p, cache[p]) /\ RecordSound(p, durable[p])

(* What is known of the file being read: the record about to be stored is  *)
(* sound, and the item about to be added is right if nobody interfered.    *)
ReadInv ==
  /\ pc \notin Reading => key = 0
  /\ pc \in Reading =>
       /\ key <= disk[cur].ver
       /\ pc \in {"cover", "store"} /\ disk[cur].present /\ key = disk[cur].ver
            => got.content = disk[cur].ver
       /\ cur \notin dirtyScan =>
            /\ disk[cur].present
            /\ seen = disk[cur].ver
            /\ pc = "lookup" => key = disk[cur].ver
            /\ pc \in {"cover", "store"} => got.content = disk[cur].ver

(* The walk has entered what it has finished with, and nothing else.       *)
BuildInv ==
  /\ pc = "sleep" => build = NoFiles
  /\ \A p \in todo : build[p] = None
  /\ \A p \in Paths \ (dirtyScan \cup todo) : Contract!Describes(p, build[p])
  /\ pc \in {"delete", "replace"} => todo = {}

Inv == TypeOK /\ DatabaseInv /\ ReadInv /\ BuildInv

LEMMA InitInv == Init => Inv
  BY InitTypeOK, MaxVersionAssumption
  DEF Init, Inv, DatabaseInv, RecordSound, ReadInv, BuildInv

(* Someone else's write leaves every record sound and every claim about an *)
(* untouched file true: it raises the version, or takes the file away.     *)
LEMMA TouchInv ==
  ASSUME Inv, TypeOK', NEW ps \in SUBSET Paths, Touched(ps),
         \A p \in Paths \ ps : disk'[p] = disk[p],
         \A p \in Paths : \/ disk'[p] = disk[p]
                          \/ disk[p].ver < disk'[p].ver
                          \/ disk[p].ver = disk'[p].ver /\ ~disk'[p].present
  PROVE  Inv'
<1> USE DEF Inv, TypeOK
<1>1. UNCHANGED <<pc, cur, seen, key, got, build, todo, cache, durable>>
  BY DEF Touched, locals, database
<1>2. ASSUME NEW p \in Paths, NEW r \in Entries, RecordSound(p, r)
      PROVE  RecordSound(p, r)'
  <2> SUFFICES ASSUME r # None PROVE RecordSound(p, r)'
    BY DEF RecordSound
  <2>1. disk[p].ver \in Nat /\ disk'[p].ver \in Nat /\ r.stamp \in Nat
    OBVIOUS
  <2>2. CASE disk'[p] = disk[p]
    BY <1>2, <2>2 DEF RecordSound
  <2>3. CASE disk[p].ver < disk'[p].ver
    BY <1>2, <2>1, <2>3 DEF RecordSound
  <2>4. CASE disk[p].ver = disk'[p].ver /\ ~disk'[p].present
    BY <1>2, <2>4 DEF RecordSound
  <2> QED
    BY <2>2, <2>3, <2>4
<1>3. DatabaseInv'
  BY <1>1, <1>2 DEF DatabaseInv, RecordSound
<1>4. ReadInv'
  <2> SUFFICES ASSUME pc \in Reading PROVE ReadInv'
    BY <1>1 DEF ReadInv
  <2>1. cur \in Paths /\ disk[cur] \in File /\ disk'[cur] \in File
    OBVIOUS
  <2>2. cur \notin dirtyScan' => cur \notin dirtyScan /\ disk'[cur] = disk[cur]
    BY <2>1 DEF Touched
  <2>3. key' <= disk'[cur].ver
    BY <1>1, <2>1 DEF ReadInv
  <2>4. ASSUME pc \in {"cover", "store"}, disk'[cur].present, key = disk'[cur].ver
        PROVE  got.content = disk'[cur].ver
    <3>1. disk[cur].ver \in Nat /\ disk'[cur].ver \in Nat /\ key \in Nat
      BY <2>1
    <3>2. ~(disk[cur].ver < disk'[cur].ver)
      BY <2>4, <3>1 DEF ReadInv
    <3>3. disk'[cur] = disk[cur]
      BY <2>1, <2>4, <3>2
    <3> QED
      BY <2>4, <3>3 DEF ReadInv
  <2> QED
    BY <1>1, <2>1, <2>2, <2>3, <2>4 DEF ReadInv
<1>5. BuildInv'
  BY <1>1 DEF BuildInv, Touched, Contract!Describes
<1> QED
  BY <1>3, <1>4, <1>5

LEMMA EnvironmentInv == ~Flicker /\ Inv /\ TypeOK' /\ Environment => Inv'
<1> SUFFICES ASSUME ~Flicker, Inv, TypeOK', Environment PROVE Inv'
  OBVIOUS
<1> USE DEF Inv, TypeOK
<1>1. ASSUME NEW p \in Paths, Write(p) \/ Remove(p) \/ Reappear(p) PROVE Inv'
  <2>1. disk[p] \in File
    OBVIOUS
  <2>2. PICK f : /\ ChangeFile(p, f)
                 /\ \/ disk[p].ver < f.ver
                    \/ disk[p].ver = f.ver /\ ~f.present
    <3>1. CASE Write(p)
      BY <2>1, <3>1 DEF Write
    <3>2. CASE Remove(p)
      BY <2>1, <3>2 DEF Remove
    <3>3. ~Reappear(p)
      BY DEF Reappear
    <3> QED
      BY <1>1, <3>1, <3>2, <3>3
  <2> QED
    BY <2>2, TouchInv DEF ChangeFile
<1>2. ASSUME NEW d \in Folders, EditCover(d) PROVE Inv'
  <2>1. {p \in Paths : FolderOf[p] = d} \in SUBSET Paths
    OBVIOUS
  <2> QED
    BY <1>2, <2>1, TouchInv DEF EditCover
<1> QED
  BY <1>1, <1>2 DEF Environment

(* A step that leaves the disk, the database and the history alone, and    *)
(* the item map with the work list, keeps what is said of them.            *)
LEMMA SameDatabase ==
  ASSUME DatabaseInv, UNCHANGED <<disk, cache, durable>> PROVE DatabaseInv'
  BY DEF DatabaseInv, RecordSound

(* add_item with tags that are right if the file was left alone.           *)
LEMMA AddItemInv ==
  ASSUME Inv, TypeOK', pc \in Reading, NEW tags, AddItem(tags),
         UNCHANGED <<disk, dirtyScan>>,
         cur \notin dirtyScan => tags.content = disk[cur].ver,
         tags.art \in BOOLEAN
  PROVE  ReadInv' /\ BuildInv'
<1> USE DEF Inv, TypeOK
<1>1. ReadInv'
  BY DEF AddItem, ReadInv
<1>2. cur \in Paths /\ disk[cur] \in File
  OBVIOUS
<1>3. ASSUME NEW p \in Paths \ (dirtyScan' \cup todo')
      PROVE  Contract!Describes(p, build[p])'
  <2>1. CASE p = cur
    <3>1. disk[p].present /\ seen = disk[p].ver /\ tags.content = disk[p].ver
      BY <1>3, <2>1 DEF ReadInv
    <3>2. build'[p] = [stamp |-> seen, content |-> tags.content, art |-> tags.art]
      BY <1>2, <2>1 DEF AddItem
    <3>3. build'[p] # None
      BY <3>1, <3>2, NoneAssumption
    <3> QED
      BY <3>1, <3>2, <3>3 DEF Contract!Describes
  <2>2. CASE p # cur
    BY <1>2, <1>3, <2>2 DEF AddItem, BuildInv, Contract!Describes
  <2> QED
    BY <2>1, <2>2
<1>4. BuildInv'
  BY <1>3 DEF BuildInv, AddItem
<1> QED
  BY <1>1, <1>4

LEMMA ScanStepInv == Inv /\ TypeOK' /\ ScanStep => Inv'
<1> SUFFICES ASSUME Inv, TypeOK', ScanStep PROVE Inv'
  OBVIOUS
<1> USE DEF Inv, TypeOK
<1>1. CASE BeginScan
  BY <1>1 DEF BeginScan, media, database, DatabaseInv, RecordSound, ReadInv, BuildInv
<1>2. ASSUME NEW p \in Paths, Skip(p) PROVE Inv'
  <2>1. DatabaseInv'
    BY <1>2, SameDatabase DEF Skip, Internal, media
  <2>2. ReadInv'
    BY <1>2 DEF Skip, Running, ReadInv
  <2> QED
    BY <1>2, <2>1, <2>2
    DEF Skip, Running, Internal, media, history, BuildInv, Contract!Describes
<1>3. ASSUME NEW p \in Paths, Visit(p) PROVE Inv'
  <2>1. DatabaseInv'
    BY <1>3, SameDatabase DEF Visit, Internal, media
  <2>2. ReadInv'
    BY <1>3 DEF Visit, Running, Internal, media, history, ReadInv
  <2> QED
    BY <1>3, <2>1, <2>2
    DEF Visit, Running, Internal, media, history, BuildInv, Contract!Describes
<1>4. CASE StatForCache
  <2>1. DatabaseInv'
    BY <1>4, SameDatabase DEF StatForCache, Internal, media
  <2>2. ReadInv'
    BY <1>4 DEF StatForCache, Running, Internal, media, history, ReadInv
  <2> QED
    BY <1>4, <2>1, <2>2
    DEF StatForCache, Running, Internal, media, history, BuildInv, Contract!Describes
<1>5. CASE LookupHit
  <2>1. DatabaseInv'
    BY <1>5, SameDatabase DEF LookupHit, Internal, media
  <2>2. cur \notin dirtyScan => cache[cur].content = disk[cur].ver
    BY <1>5 DEF LookupHit, Running, Hit, ReadInv, DatabaseInv, RecordSound
  <2>3. cache[cur] \in Item
    BY <1>5 DEF LookupHit, Running, Hit
  <2> QED
    BY <1>5, <2>1, <2>2, <2>3, AddItemInv
    DEF LookupHit, Running, Internal, media, history
<1>6. CASE LookupMiss
  <2>1. DatabaseInv'
    BY <1>6, SameDatabase DEF LookupMiss, Internal, media
  <2>2. ReadInv'
    BY <1>6 DEF LookupMiss, Running, Internal, media, history, ReadInv
  <2> QED
    BY <1>6, <2>1, <2>2
    DEF LookupMiss, Running, Internal, media, history, BuildInv, Contract!Describes
<1>7. CASE ParseTags
  <2>1. DatabaseInv'
    BY <1>7, SameDatabase DEF ParseTags, Internal, media
  <2>2. ReadInv'
    BY <1>7 DEF ParseTags, Running, Internal, media, history, ReadInv
  <2> QED
    BY <1>7, <2>1, <2>2
    DEF ParseTags, Running, Internal, media, history, BuildInv, Contract!Describes
<1>8. CASE FindCover
  <2>1. DatabaseInv'
    BY <1>8, SameDatabase DEF FindCover, Internal, media
  <2>2. ReadInv'
    BY <1>8 DEF FindCover, Running, Internal, media, history, ReadInv
  <2> QED
    BY <1>8, <2>1, <2>2
    DEF FindCover, Running, Internal, media, history, BuildInv, Contract!Describes
<1>9. CASE StoreAndAdd
  <2>1. ReadInv' /\ BuildInv'
    BY <1>9, AddItemInv
    DEF StoreAndAdd, Running, Internal, media, history, ReadInv
  <2>2. ASSUME key # 0
        PROVE  RecordSound(cur, [stamp |-> key, content |-> got.content, art |-> got.art])
    BY <1>9, <2>2 DEF StoreAndAdd, Running, RecordSound, ReadInv
  <2>3. DatabaseInv'
    BY <1>9, <2>2 DEF StoreAndAdd, Internal, media, DatabaseInv, RecordSound
  <2> QED
    BY <2>1, <2>3
<1>10. CASE RetainRead
  <2>1. DatabaseInv'
    BY <1>10, SameDatabase DEF RetainRead, Internal, media
  <2> QED
    BY <1>10, <2>1
    DEF RetainRead, Running, Internal, media, history, ReadInv, BuildInv,
        Contract!Describes
<1>11. CASE RetainDelete
  <2>1. DatabaseInv'
    BY <1>11 DEF RetainDelete, Internal, media, DatabaseInv, RecordSound
  <2> QED
    BY <1>11, <2>1
    DEF RetainDelete, Running, Internal, media, history, ReadInv, BuildInv,
        Contract!Describes
<1>12. CASE Replace
  <2>1. DatabaseInv'
    BY <1>12, SameDatabase DEF Replace, media, database
  <2> QED
    BY <1>12, <2>1 DEF Replace, NoScan, ReadInv, BuildInv
<1> QED
  BY <1>1, <1>2, <1>3, <1>4, <1>5, <1>6, <1>7, <1>8, <1>9, <1>10, <1>11, <1>12
  DEF ScanStep

LEMMA LifecycleInv == Inv /\ TypeOK' /\ Lifecycle => Inv'
<1> SUFFICES ASSUME Inv, TypeOK', Lifecycle PROVE Inv'
  OBVIOUS
<1> USE DEF Inv, TypeOK
<1>1. CASE Start \/ Terminate
  BY <1>1 DEF Start, Terminate, media, locals, database, history, DatabaseInv,
              RecordSound, ReadInv, BuildInv, Contract!Describes
<1>2. CASE Exit \/ Kill
  <2>1. DatabaseInv'
    BY <1>2 DEF Exit, Kill, Gone, media, DatabaseInv, RecordSound
  <2> QED
    BY <1>2, <2>1 DEF Exit, Kill, Gone, NoScan, ReadInv, BuildInv
<1>3. CASE Panic
  <2>1. DatabaseInv'
    BY <1>3, SameDatabase DEF Panic, media, database
  <2> QED
    BY <1>3, <2>1 DEF Panic, NoScan, ReadInv, BuildInv
<1> QED
  BY <1>1, <1>2, <1>3 DEF Lifecycle

LEMMA NextInv == ~Flicker /\ Inv /\ [Next]_vars => Inv'
<1> SUFFICES ASSUME ~Flicker, Inv, [Next]_vars PROVE Inv'
  OBVIOUS
<1>1. TypeOK'
  BY NextTypeOK DEF Inv
<1>2. CASE UNCHANGED vars
  BY <1>1, <1>2
  DEF vars, media, locals, database, history, Inv, DatabaseInv, RecordSound,
      ReadInv, BuildInv, Contract!Describes
<1> QED
  BY <1>1, <1>2, EnvironmentInv, ScanStepInv, LifecycleInv DEF Next

LEMMA InvHolds == ASSUME ~Flicker PROVE Spec => []Inv
<1>1. Inv /\ [Next]_vars => Inv'
  BY NextInv
<1> QED
  BY <1>1, InitInv, PTL DEF Spec

-----------------------------------------------------------------------------
(* The tag cache is never wrong about a file that is there, whatever is    *)
(* rewritten between a stat and a read and whatever a crash rolls back, as *)
(* long as no file returns under a stamp it had before.                    *)
THEOREM CacheSoundness == ASSUME ~Flicker PROVE Spec => []CacheSound
<1>1. Inv => CacheSound
  BY DEF Inv, DatabaseInv, RecordSound, CacheSound
<1> QED
  BY <1>1, InvHolds, PTL

-----------------------------------------------------------------------------
(* The loop implements what LibraryContract promises.                      *)

LEMMA InitContract == Init => Contract!Init
  BY DEF Init, Contract!Init

LEMMA StepContract ==
  Inv /\ TypeOK' /\ [Next]_vars => [Contract!Next]_(Contract!contractVars)
<1> SUFFICES ASSUME Inv, TypeOK', [Next]_vars
             PROVE  Contract!Next \/ UNCHANGED Contract!contractVars
  OBVIOUS
<1> USE DEF Contract!contractVars
<1>1. CASE UNCHANGED vars
  BY <1>1 DEF vars, media, history
<1>2. ASSUME NEW p \in Paths, Write(p) \/ Remove(p) \/ Reappear(p)
      PROVE  Contract!Touch({p})
  <2>1. PICK f : ChangeFile(p, f)
    BY <1>2 DEF Write, Remove, Reappear
  <2> QED
    BY <2>1 DEF ChangeFile, Touched, Contract!Touch, Inv, TypeOK
<1>3. ASSUME NEW d \in Folders, EditCover(d)
      PROVE  Contract!Touch({p \in Paths : FolderOf[p] = d})
  BY <1>3 DEF EditCover, Touched, Contract!Touch, Inv, TypeOK
<1>4. CASE BeginScan
  BY <1>4 DEF BeginScan, media, Contract!Begin, Contract!Next
<1>5. CASE Replace
  BY <1>5
  DEF Replace, Running, NoScan, media, Inv, TypeOK, BuildInv, Contract!Publish,
      Contract!Next
<1>6. CASE Exit \/ Kill
  BY <1>6 DEF Exit, Kill, Gone, NoScan, media, Contract!Lose, Contract!Next
<1>7. CASE Panic
  BY <1>7 DEF Panic, NoScan, media, Contract!Abandon, Contract!Next
<1>8. CASE Start \/ Terminate
  BY <1>8 DEF Start, Terminate, media, history
<1>9. CASE \/ \E p \in Paths : Skip(p) \/ Visit(p)
           \/ StatForCache \/ LookupHit \/ LookupMiss \/ ParseTags
           \/ FindCover \/ StoreAndAdd \/ RetainRead \/ RetainDelete
  BY <1>9
  DEF Skip, Visit, StatForCache, LookupHit, LookupMiss, ParseTags, FindCover,
      StoreAndAdd, RetainRead, RetainDelete, Internal, media, history
<1>10. ASSUME NEW ps \in SUBSET Paths, Contract!Touch(ps) PROVE Contract!Next
  BY <1>10 DEF Contract!Next
<1> QED
  BY <1>1, <1>2, <1>3, <1>4, <1>5, <1>6, <1>7, <1>8, <1>9, <1>10
  DEF Next, Environment, ScanStep, Lifecycle

(* Readers see the index change only whole, and only to one that is right  *)
(* about every file nobody touched since the scan began: the cached loop   *)
(* implements the contract.                                                *)
THEOREM Implementation == ASSUME ~Flicker PROVE Spec => ImplementsContract
<1>1. Inv /\ Inv' /\ [Next]_vars => [Contract!Next]_(Contract!contractVars)
  BY StepContract DEF Inv
<1> QED
  BY <1>1, InitContract, InvHolds, PTL DEF Spec, ImplementsContract, Contract!Spec

LEMMA ContractStepFresh ==
  Contract!IndexFresh /\ [Contract!Next]_(Contract!contractVars)
    => Contract!IndexFresh'
<1> SUFFICES ASSUME Contract!IndexFresh, [Contract!Next]_(Contract!contractVars)
             PROVE  Contract!IndexFresh'
  OBVIOUS
<1> USE DEF Contract!IndexFresh, Contract!Describes
<1>1. ASSUME NEW ps \in SUBSET Paths, Contract!Touch(ps)
      PROVE  Contract!IndexFresh'
  BY <1>1 DEF Contract!Touch
<1>2. CASE Contract!Publish
  BY <1>2 DEF Contract!Publish
<1> QED
  BY <1>1, <1>2
  DEF Contract!Next, Contract!contractVars, Contract!Begin, Contract!Abandon,
      Contract!Lose

(* Whatever implements the contract serves every file left alone since the *)
(* scan behind the index began exactly as it is on disk.                   *)
THEOREM ContractFresh == Contract!Spec => []Contract!IndexFresh
<1>1. Contract!Init => Contract!IndexFresh
  BY DEF Contract!Init, Contract!IndexFresh
<1> QED
  BY <1>1, ContractStepFresh, PTL DEF Contract!Spec

(* So the index the rescan loop serves is never stale but for a file       *)
(* touched after the scan behind it began.                                 *)
THEOREM IndexFreshness == ASSUME ~Flicker PROVE Spec => []IndexFresh
  BY Implementation, ContractFresh, PTL DEF IndexFresh, ImplementsContract
-----------------------------------------------------------------------------
(* Without the cache nothing needs to be assumed of the files, and what is *)
(* said of covers is right too.                                            *)

(* An entry says of p what disk and covers say of it now.                  *)
Right(p, entry) ==
  Contract!Describes(p, entry) /\ (entry # None => entry.art = HasArt(p))

(* What is known of the file being read, if nobody interfered.             *)
PlainRead ==
  pc # "sleep" =>
    /\ pc \in {"walk", "parse", "cover", "store", "replace"}
    /\ pc \in Reading /\ cur \notin dirtyScan =>
         /\ disk[cur].present /\ seen = disk[cur].ver
         /\ pc \in {"cover", "store"} => got.content = disk[cur].ver
         /\ pc = "cover" => disk[cur].ver \notin EmbeddedArt
         /\ pc = "store" => got.art = HasArt(cur)

PlainBuild ==
  /\ pc = "sleep" => build = NoFiles
  /\ \A p \in todo : build[p] = None
  /\ \A p \in Paths \ (dirtyScan \cup todo) : Right(p, build[p])
  /\ pc = "replace" => todo = {}

PlainIndex == \A p \in Paths \ dirtyIndex : Right(p, index[p])

PlainInv ==
  /\ TypeOK /\ provider = "plain" /\ key = 0
  /\ PlainRead /\ PlainBuild /\ PlainIndex

LEMMA PlainTouch ==
  ASSUME PlainInv, TypeOK', NEW ps \in SUBSET Paths, Touched(ps),
         \A p \in Paths \ ps : disk'[p] = disk[p] /\ HasArt(p)' = HasArt(p)
  PROVE  PlainInv'
<1> USE DEF PlainInv
<1>1. UNCHANGED <<provider, pc, cur, seen, key, got, build, todo, index>>
  BY DEF Touched, process, locals
<1>2. ASSUME NEW p \in Paths \ ps, NEW entry, Right(p, entry)
      PROVE  Right(p, entry)'
  BY <1>2 DEF Right, Contract!Describes
<1>3. PlainRead'
  <2> SUFFICES ASSUME pc # "sleep" PROVE PlainRead'
    BY <1>1 DEF PlainRead
  <2>1. pc \in {"walk", "parse", "cover", "store", "replace"}
    BY DEF PlainRead
  <2>2. ASSUME pc \in Reading, cur \notin dirtyScan'
        PROVE  /\ disk'[cur].present /\ seen = disk'[cur].ver
               /\ pc \in {"cover", "store"} => got.content = disk'[cur].ver
               /\ pc = "cover" => disk'[cur].ver \notin EmbeddedArt
               /\ pc = "store" => got.art = HasArt(cur)'
    <3>1. cur \in Paths
      BY <2>2 DEF TypeOK
    <3>2. cur \notin dirtyScan /\ cur \notin ps
      BY <2>2 DEF Touched
    <3>3. cur' = cur /\ disk'[cur] = disk[cur] /\ HasArt(cur)' = HasArt(cur)
      BY <1>1, <3>1, <3>2 DEF HasArt, locals
    <3>4. /\ disk[cur].present /\ seen = disk[cur].ver
          /\ pc \in {"cover", "store"} => got.content = disk[cur].ver
          /\ pc = "cover" => disk[cur].ver \notin EmbeddedArt
          /\ pc = "store" => got.art = HasArt(cur)
      BY <2>2, <3>2 DEF PlainRead
    <3> QED BY <3>3, <3>4
  <2> QED BY <1>1, <2>1, <2>2 DEF PlainRead
<1>4. PlainBuild'
  BY <1>1, <1>2 DEF PlainBuild, Touched
<1>5. PlainIndex'
  BY <1>1, <1>2 DEF PlainIndex, Touched
<1> QED BY <1>1, <1>3, <1>4, <1>5

LEMMA PlainEnvironment == PlainInv /\ TypeOK' /\ Environment => PlainInv'
<1> SUFFICES ASSUME PlainInv, TypeOK', Environment PROVE PlainInv'
  OBVIOUS
<1> USE DEF PlainInv
<1>1. ASSUME NEW p \in Paths, Write(p) \/ Remove(p) \/ Reappear(p) PROVE PlainInv'
  <2>1. PICK f : ChangeFile(p, f)
    BY <1>1 DEF Write, Remove, Reappear
  <2>2. \A q \in Paths \ {p} : disk'[q] = disk[q]
    BY <2>1 DEF ChangeFile, TypeOK
  <2>3. \A q \in Paths \ {p} : HasArt(q)' = HasArt(q)
    BY <2>1, <2>2 DEF ChangeFile, HasArt
  <2>4. {p} \in SUBSET Paths /\ Touched({p})
    BY <2>1 DEF ChangeFile
  <2> QED BY <2>2, <2>3, <2>4, PlainTouch
<1>2. ASSUME NEW d \in Folders, EditCover(d) PROVE PlainInv'
  <2> DEFINE ps == {p \in Paths : FolderOf[p] = d}
  <2>1. ps \in SUBSET Paths /\ Touched(ps) /\ disk' = disk
    BY <1>2 DEF EditCover
  <2>2. ASSUME NEW q \in Paths \ ps
        PROVE  HasArt(q)' = HasArt(q)
    <3>1. FolderOf[q] \in covers' <=> FolderOf[q] \in covers
      BY <1>2 DEF EditCover
    <3> QED BY <2>1, <3>1 DEF HasArt
  <2> HIDE DEF ps
  <2> QED BY <2>1, <2>2, PlainTouch
<1> QED BY <1>1, <1>2 DEF Environment

(* A step that leaves disk, covers, histories and maps alone.              *)
LEMMA PlainSame ==
  ASSUME PlainBuild, PlainIndex, pc' # "sleep", pc # "sleep",
         pc' = "replace" => todo' = {},
         UNCHANGED <<disk, covers, build, todo, index, dirtyScan, dirtyIndex>>
  PROVE  PlainBuild' /\ PlainIndex'
<1>1. \A p, entry : Right(p, entry)' <=> Right(p, entry)
  BY DEF Right, HasArt, Contract!Describes
<1> QED BY <1>1 DEF PlainBuild, PlainIndex

LEMMA PlainScan == PlainInv /\ TypeOK' /\ ScanStep => PlainInv'
<1> SUFFICES ASSUME PlainInv, TypeOK', ScanStep PROVE PlainInv'
  OBVIOUS
<1> USE DEF PlainInv, TypeOK
<1>0. /\ disk' = disk /\ covers' = covers
         => \A p, entry : Right(p, entry)' <=> Right(p, entry)
  BY DEF Right, HasArt, Contract!Describes
<1>1. CASE BeginScan
  BY <1>0, <1>1
  DEF BeginScan, media, process, PlainRead, PlainBuild, PlainIndex
<1>2. ASSUME NEW p \in Paths, Skip(p) PROVE PlainInv'
  <2>1. PlainRead' /\ provider' = "plain" /\ key' = 0
    BY <1>2 DEF Skip, Running, Internal, process, PlainRead
  <2>2. Right(p, build[p]) \/ p \in dirtyScan
    BY <1>2 DEF Skip, PlainBuild, Right, Contract!Describes
  <2>3. PlainBuild' /\ PlainIndex'
    BY <1>0, <1>2, <2>2
    DEF Skip, Running, Internal, media, history, PlainBuild, PlainIndex
  <2> QED BY <2>1, <2>3
<1>3. ASSUME NEW p \in Paths, Visit(p) PROVE PlainInv'
  <2>1. PlainRead' /\ provider' = "plain" /\ key' = 0
    BY <1>3 DEF Visit, Running, Internal, media, process, history, PlainRead
  <2>2. PlainBuild' /\ PlainIndex'
    BY <1>3, PlainSame DEF Visit, Running, Internal, media, history
  <2> QED BY <2>1, <2>2
<1>4. ~StatForCache /\ ~LookupHit /\ ~LookupMiss /\ ~RetainDelete
  BY DEF StatForCache, LookupHit, LookupMiss, RetainDelete, Running, PlainRead
<1>5. CASE ParseTags
  <2>1. PlainRead' /\ provider' = "plain" /\ key' = 0
    BY <1>5 DEF ParseTags, Running, Internal, media, process, history, PlainRead, HasArt
  <2>2. PlainBuild' /\ PlainIndex'
    BY <1>5, PlainSame DEF ParseTags, Running, Internal, media, history
  <2> QED BY <2>1, <2>2
<1>6. CASE FindCover
  <2>1. PlainRead' /\ provider' = "plain" /\ key' = 0
    <3>1. cur \notin dirtyScan => got'.art = HasArt(cur)'
      BY <1>6 DEF FindCover, Running, Internal, media, PlainRead, HasArt
    <3> QED
      BY <1>6, <3>1 DEF FindCover, Running, Internal, media, process, history, PlainRead
  <2>2. PlainBuild' /\ PlainIndex'
    BY <1>6, PlainSame DEF FindCover, Running, Internal, media, history
  <2> QED BY <2>1, <2>2
<1>7. CASE StoreAndAdd
  <2>1. PlainRead' /\ provider' = "plain" /\ key' = 0
    BY <1>7 DEF StoreAndAdd, AddItem, Internal, process, PlainRead
  <2>2. cur \in Paths /\ pc = "store" /\ AddItem(got)
    BY <1>7 DEF StoreAndAdd, Running
  <2>3. UNCHANGED <<disk, covers, index, dirtyScan, dirtyIndex>>
    BY <1>7 DEF StoreAndAdd, Internal, media, history
  <2>4. cur \notin dirtyScan => Right(cur, build'[cur])
    <3>1. build'[cur] = [stamp |-> seen, content |-> got.content, art |-> got.art]
      BY <2>2 DEF AddItem
    <3>2. build'[cur] # None
      BY <2>2, <3>1, NoneAssumption
    <3>3. cur \notin dirtyScan => /\ disk[cur].present /\ seen = disk[cur].ver
                                  /\ got.content = disk[cur].ver /\ got.art = HasArt(cur)
      BY <2>2 DEF PlainRead
    <3> QED BY <3>1, <3>2, <3>3 DEF Right, Contract!Describes
  <2>5. PlainBuild'
    BY <1>0, <2>2, <2>3, <2>4 DEF AddItem, PlainBuild
  <2>6. PlainIndex'
    BY <1>0, <2>3 DEF PlainIndex
  <2> QED BY <2>1, <2>5, <2>6
<1>8. CASE RetainRead
  <2>1. PlainRead' /\ provider' = "plain" /\ key' = 0
    BY <1>8 DEF RetainRead, Running, Internal, process, PlainRead
  <2>2. PlainBuild' /\ PlainIndex'
    BY <1>8, PlainSame DEF RetainRead, Running, Internal, media, history
  <2> QED BY <2>1, <2>2
<1>9. CASE Replace
  BY <1>0, <1>9
  DEF Replace, Running, NoScan, media, process, PlainRead, PlainBuild, PlainIndex
<1> QED
  BY <1>1, <1>2, <1>3, <1>4, <1>5, <1>6, <1>7, <1>8, <1>9 DEF ScanStep

LEMMA PlainLifecycle ==
  ASSUME ~CacheEnabled, PlainInv, TypeOK', Lifecycle
  PROVE  PlainInv'
<1> USE DEF PlainInv
<1>0. /\ disk' = disk /\ covers' = covers
         => \A p, entry : Right(p, entry)' <=> Right(p, entry)
  BY DEF Right, HasArt, Contract!Describes
<1>1. CASE Start \/ Terminate
  <2>1. /\ UNCHANGED <<disk, covers, pc, todo, cur, seen, key, got, build, index,
                       dirtyScan, dirtyIndex>>
        /\ provider' = "plain"
    BY <1>1 DEF Start, Terminate, media, locals, history
  <2>2. HasArt(cur)' = HasArt(cur)
    BY <2>1 DEF HasArt
  <2> QED BY <1>0, <2>1, <2>2 DEF PlainRead, PlainBuild, PlainIndex
<1>2. CASE Exit \/ Kill
  BY <1>2 DEF Exit, Kill, Gone, NoScan, PlainRead, PlainBuild, PlainIndex
<1>3. CASE Panic
  BY <1>0, <1>3 DEF Panic, NoScan, media, process, PlainRead, PlainBuild, PlainIndex
<1> QED BY <1>1, <1>2, <1>3 DEF Lifecycle

LEMMA PlainStep == ~CacheEnabled /\ PlainInv /\ [Next]_vars => PlainInv'
<1> SUFFICES ASSUME ~CacheEnabled, PlainInv, [Next]_vars PROVE PlainInv'
  OBVIOUS
<1>1. TypeOK'
  BY NextTypeOK DEF PlainInv
<1>2. CASE UNCHANGED vars
  <2>1. UNCHANGED <<disk, covers, provider, pc, todo, cur, seen, key, got, build,
                    index, dirtyScan, dirtyIndex>>
    BY <1>2 DEF vars, media, process, locals, history
  <2>2. \A p, entry : HasArt(p)' = HasArt(p) /\ (Right(p, entry)' <=> Right(p, entry))
    BY <2>1 DEF Right, HasArt, Contract!Describes
  <2> QED BY <1>1, <2>1, <2>2 DEF PlainInv, PlainRead, PlainBuild, PlainIndex
<1> QED
  BY <1>1, <1>2, PlainEnvironment, PlainScan, PlainLifecycle DEF Next

LEMMA PlainHolds == ASSUME ~CacheEnabled PROVE Spec => []PlainInv
<1>1. Init => PlainInv
  BY InitTypeOK DEF Init, PlainInv, PlainRead, PlainBuild, PlainIndex
<1>2. PlainInv /\ [Next]_vars => PlainInv'
  BY PlainStep
<1> QED BY <1>1, <1>2, PTL DEF Spec

(* Without the cache every file left alone since the scan behind the index *)
(* began is served as it is on disk, whatever vanished and came back, and  *)
(* with art exactly when a request would find some (rescan.rs, rescan_once;*)
(* tags.rs, metadata and find_art).                                        *)
THEOREM PlainFreshness == ASSUME ~CacheEnabled PROVE Spec => [](IndexFresh /\ ArtFresh)
<1>1. PlainInv => IndexFresh /\ ArtFresh
  BY DEF PlainInv, PlainIndex, Right, IndexFresh, ArtFresh, Contract!IndexFresh
<1> QED BY <1>1, PlainHolds, PTL

-----------------------------------------------------------------------------
(* The cache parses nothing it need not.                                   *)

(* p is there and its record is good.                                      *)
Kept(p) == disk[p].present => cache[p] # None /\ cache[p].stamp = disk[p].ver

(* While a scan runs it knows no less than the index before it; where no   *)
(* process runs there is no index.                                         *)
FramesInv ==
  /\ pc # "sleep" => dirtyScan \subseteq dirtyIndex
  /\ proc = "down" => pc = "sleep" /\ dirtyIndex = Paths
  /\ pc = "sleep" => stale = {}

(* With the cache at work: the records of all files served and left alone  *)
(* are good, the scan keeps those of the files it has finished with, and   *)
(* what retain_only drops is gone.                                         *)
KeptInv ==
  provider = "cached" /\ health = "sound" =>
    /\ \A p \in Paths \ dirtyIndex : Kept(p)
    /\ pc # "sleep" =>
         \A p \in Paths \ (dirtyScan \cup todo) :
           Kept(p) /\ (disk[p].present => build[p] # None)
    /\ pc \in {"delete", "replace"} => todo = {}
    /\ \A p \in stale \ dirtyScan : ~disk[p].present
    /\ pc \in Reading /\ cur \notin dirtyScan =>
         /\ disk[cur].present
         /\ pc # "stat" => key = disk[cur].ver
    /\ pc \in {"parse", "cover", "store"} => cur \in dirtyIndex

ReparseInv == TypeOK /\ FramesInv /\ KeptInv

LEMMA ReparseTouch ==
  ASSUME ReparseInv, TypeOK', NEW ps \in SUBSET Paths, Touched(ps),
         \A p \in Paths \ ps : disk'[p] = disk[p]
  PROVE  ReparseInv'
<1> USE DEF ReparseInv
<1>1. UNCHANGED <<proc, provider, health, pc, cur, key, build, todo, stale, cache>>
      /\ dirtyScan' = dirtyScan \cup ps /\ dirtyIndex' = dirtyIndex \cup ps
  BY DEF Touched, process, trouble, locals, database
<1>2. FramesInv'
  BY <1>1 DEF FramesInv, TypeOK
<1>3. \A p \in Paths \ ps : Kept(p)' <=> Kept(p)
  BY <1>1 DEF Kept
<1>4. KeptInv'
  <2> SUFFICES ASSUME provider = "cached", health = "sound" PROVE KeptInv'
    BY <1>1 DEF KeptInv
  <2>1. \A p \in Paths \ dirtyIndex' : Kept(p)'
    BY <1>1, <1>3 DEF KeptInv
  <2>2. pc # "sleep" => \A p \in Paths \ (dirtyScan' \cup todo) :
                          Kept(p)' /\ (disk'[p].present => build[p] # None)
    BY <1>1, <1>3 DEF KeptInv
  <2>3. \A p \in stale \ dirtyScan' : ~disk'[p].present
    BY <1>1 DEF KeptInv, TypeOK
  <2>4. pc \in Reading /\ cur \notin dirtyScan' =>
          /\ disk'[cur].present
          /\ pc # "stat" => key = disk'[cur].ver
    BY <1>1 DEF KeptInv, TypeOK
  <2> QED BY <1>1, <2>1, <2>2, <2>3, <2>4 DEF KeptInv
<1> QED BY <1>2, <1>4

LEMMA ReparseEnvironment == ReparseInv /\ TypeOK' /\ Environment => ReparseInv'
<1> SUFFICES ASSUME ReparseInv, TypeOK', Environment PROVE ReparseInv'
  OBVIOUS
<1>1. ASSUME NEW p \in Paths, Write(p) \/ Remove(p) \/ Reappear(p) PROVE ReparseInv'
  <2>1. PICK f : ChangeFile(p, f)
    BY <1>1 DEF Write, Remove, Reappear
  <2>2. /\ \A q \in Paths \ {p} : disk'[q] = disk[q]
        /\ {p} \in SUBSET Paths /\ Touched({p})
    BY <2>1 DEF ChangeFile, ReparseInv, TypeOK
  <2> QED BY <2>2, ReparseTouch
<1>2. ASSUME NEW d \in Folders, EditCover(d) PROVE ReparseInv'
  <2>1. {p \in Paths : FolderOf[p] = d} \in SUBSET Paths
    OBVIOUS
  <2> QED BY <1>2, <2>1, ReparseTouch DEF EditCover
<1> QED BY <1>1, <1>2 DEF Environment

(* A step that reads on, and neither finishes a file nor touches the cache.*)
LEMMA ReparseReads ==
  ASSUME ReparseInv, TypeOK', pc # "sleep", pc' # "sleep", proc # "down",
         UNCHANGED <<disk, proc, provider, todo, build, stale, cache,
                     dirtyScan, dirtyIndex>>,
         health' = "sound" => health = "sound",
         pc' \in {"delete", "replace"} => pc \in {"delete", "replace"},
         provider = "cached" /\ health' = "sound" =>
           /\ pc' \in Reading /\ cur' \notin dirtyScan =>
                /\ disk[cur'].present
                /\ pc' # "stat" => key' = disk[cur'].ver
           /\ pc' \in {"parse", "cover", "store"} => cur' \in dirtyIndex
  PROVE  ReparseInv'
<1>1. FramesInv'
  BY DEF ReparseInv, FramesInv
<1>2. \A p : Kept(p)' <=> Kept(p)
  BY DEF Kept
<1>3. KeptInv'
  BY <1>2 DEF ReparseInv, KeptInv
<1> QED BY <1>1, <1>3 DEF ReparseInv

(* add_item of a file whose record is good by then, if it was left alone.  *)
LEMMA ReparseAdds ==
  ASSUME ReparseInv, TypeOK', pc \in Reading, proc # "down",
         NEW tags, AddItem(tags),
         UNCHANGED <<disk, proc, provider, dirtyScan, dirtyIndex>>,
         health' = "sound" => health = "sound",
         tags.content \in Contract!Contents, tags.art \in BOOLEAN,
         \A p \in Paths \ {cur} : cache'[p] = cache[p],
         provider = "cached" /\ health' = "sound" /\ disk[cur].present
           /\ (cur \notin dirtyScan \/ cur \notin dirtyIndex) =>
           cache'[cur] # None /\ cache'[cur].stamp = disk[cur].ver
  PROVE  ReparseInv'
<1> USE DEF ReparseInv
<1>1. FramesInv'
  BY DEF FramesInv, AddItem
<1>2. \A p \in Paths \ {cur} : Kept(p)' <=> Kept(p)
  BY DEF Kept
<1>3. cur \in Paths /\ cur \in todo
  BY DEF TypeOK
<1>4. build'[cur] # None
  <2>1. build'[cur] = [stamp |-> seen, content |-> tags.content, art |-> tags.art]
    BY <1>3 DEF AddItem, TypeOK
  <2>2. seen \in Nat /\ tags.content \in Nat
    BY MaxVersionAssumption DEF TypeOK
  <2> QED BY <2>1, <2>2, NoneAssumption
<1>5. \A p \in Paths \ {cur} : build'[p] = build[p]
  BY DEF AddItem, TypeOK
<1>6. KeptInv'
  <2> SUFFICES ASSUME provider = "cached", health' = "sound" PROVE KeptInv'
    BY DEF KeptInv
  <2>0. ASSUME NEW p \in Paths, p = cur, p \notin dirtyScan \/ p \notin dirtyIndex
        PROVE  Kept(p)'
    BY <2>0 DEF Kept
  <2>1. \A p \in Paths \ dirtyIndex : Kept(p)'
    BY <1>2, <2>0 DEF KeptInv
  <2>2. ASSUME NEW p \in Paths \ (dirtyScan \cup todo')
        PROVE  Kept(p)' /\ (disk[p].present => build'[p] # None)
    <3>1. CASE p = cur
      BY <1>4, <2>0, <3>1
    <3>2. CASE p # cur
      BY <1>2, <1>5, <2>2, <3>2 DEF KeptInv, AddItem
    <3> QED BY <3>1, <3>2
  <2>3. pc' = "walk" /\ stale' = stale
    BY DEF AddItem
  <2> QED BY <2>1, <2>2, <2>3 DEF KeptInv
<1> QED BY <1>1, <1>6

LEMMA ReparseScan == ReparseInv /\ TypeOK' /\ ScanStep => ReparseInv'
<1> SUFFICES ASSUME ReparseInv, TypeOK', ScanStep PROVE ReparseInv'
  OBVIOUS
<1> USE DEF ReparseInv
<1>0. UNCHANGED <<disk, cache>> => \A p : Kept(p)' <=> Kept(p)
  BY DEF Kept
<1>1. CASE BeginScan
  <2>1. FramesInv'
    BY <1>1 DEF BeginScan, process, FramesInv
  <2>2. /\ pc = "sleep" /\ pc' = "walk" /\ todo' = Paths /\ stale = {}
        /\ UNCHANGED <<disk, cache, provider, health, stale, dirtyIndex>>
    BY <1>1 DEF BeginScan, media, process, trouble, database, FramesInv
  <2>3. KeptInv'
    BY <1>0, <2>2 DEF KeptInv, Reading
  <2> QED BY <2>1, <2>3
<1>2. ASSUME NEW p \in Paths, Skip(p) PROVE ReparseInv'
  <2>1. FramesInv'
    BY <1>2 DEF Skip, Running, Internal, process, history, FramesInv
  <2>2. KeptInv'
    BY <1>0, <1>2
    DEF Skip, Running, Internal, media, process, trouble, history, KeptInv, Kept
  <2> QED BY <2>1, <2>2
<1>3. ASSUME NEW p \in Paths, Visit(p) PROVE ReparseInv'
  BY <1>3, ReparseReads
  DEF Visit, Running, Internal, media, process, trouble, history, TypeOK
<1>4. CASE StatForCache
  <2>1. provider = "cached" /\ health' = "sound" =>
          /\ pc' \in Reading /\ cur' \notin dirtyScan =>
               /\ disk[cur'].present
               /\ pc' # "stat" => key' = disk[cur'].ver
          /\ pc' \in {"parse", "cover", "store"} => cur' \in dirtyIndex
    BY <1>4
    DEF StatForCache, Running, Works, Fails, trouble, KeptInv, FramesInv, TypeOK
  <2> QED
    BY <1>4, <2>1, ReparseReads
    DEF StatForCache, Running, Internal, Works, Fails, trouble, media, process, history
<1>5. CASE LookupHit
  <2>1. provider = "cached" /\ health = "sound" /\ cur \notin dirtyScan =>
          cache'[cur] # None /\ cache'[cur].stamp = disk[cur].ver
    BY <1>5 DEF LookupHit, Running, Hit, KeptInv
  <2>2. cur \notin dirtyIndex => cur \notin dirtyScan
    BY <1>5 DEF LookupHit, Running, FramesInv
  <2>3. cache[cur] \in Item
    BY <1>5 DEF LookupHit, Running, Hit, TypeOK
  <2> QED
    BY <1>5, <2>1, <2>2, <2>3, ReparseAdds
    DEF LookupHit, Running, Internal, media, process, trouble, history
<1>6. CASE LookupMiss
  <2>1. provider = "cached" /\ health' = "sound" => cur \in dirtyIndex
    <3> SUFFICES ASSUME provider = "cached", health' = "sound", cur \notin dirtyIndex
                 PROVE  FALSE
      OBVIOUS
    <3>1. health = "sound" /\ ~Hit /\ cur \in Paths
      BY <1>6 DEF LookupMiss, Running, Works, Fails, trouble, TypeOK
    <3>2. cur \notin dirtyScan
      BY <1>6 DEF LookupMiss, Running, FramesInv
    <3>3. disk[cur].present /\ key = disk[cur].ver /\ Kept(cur)
      BY <1>6, <3>1, <3>2 DEF LookupMiss, Running, KeptInv
    <3> QED BY <3>1, <3>3 DEF Kept, Hit
  <2>2. health' = "sound" => health = "sound"
    BY <1>6 DEF LookupMiss, Works, Fails, trouble, TypeOK
  <2>3. provider = "cached" /\ health' = "sound" /\ cur' \notin dirtyScan =>
          disk[cur'].present /\ key' = disk[cur'].ver
    BY <1>6, <2>2 DEF LookupMiss, Running, KeptInv
  <2> QED
    BY <1>6, <2>1, <2>2, <2>3, ReparseReads
    DEF LookupMiss, Running, Internal, media, process, history
<1>7. CASE ParseTags \/ FindCover
  <2>1. /\ pc \in {"parse", "cover"} /\ pc' \in {"cover", "store"}
        /\ proc # "down" /\ cur' = cur /\ key' = key /\ health' = health
        /\ UNCHANGED <<disk, proc, provider, todo, build, stale, cache,
                       dirtyScan, dirtyIndex>>
    BY <1>7
    DEF ParseTags, FindCover, Running, Internal, media, process, trouble, history
  <2>2. provider = "cached" /\ health' = "sound" =>
          /\ pc' \in Reading /\ cur' \notin dirtyScan =>
               /\ disk[cur'].present
               /\ pc' # "stat" => key' = disk[cur'].ver
          /\ pc' \in {"parse", "cover", "store"} => cur' \in dirtyIndex
    BY <2>1 DEF KeptInv
  <2> QED BY <2>1, <2>2, ReparseReads
<1>8. CASE StoreAndAdd
  <2>1. /\ pc = "store" /\ proc # "down" /\ AddItem(got) /\ cur \in Paths
        /\ UNCHANGED <<disk, proc, provider, dirtyScan, dirtyIndex>>
        /\ health' = "sound" => health = "sound"
        /\ got.content \in Contract!Contents /\ got.art \in BOOLEAN
    BY <1>8
    DEF StoreAndAdd, Running, Internal, Works, Fails, trouble, media, process,
        history, TypeOK
  <2>2. \A p \in Paths \ {cur} : cache'[p] = cache[p]
    BY <1>8 DEF StoreAndAdd, TypeOK
  <2>3. ASSUME provider = "cached", health' = "sound"
        PROVE  /\ cur \in dirtyIndex
               /\ cur \notin dirtyScan =>
                    cache'[cur] # None /\ cache'[cur].stamp = disk[cur].ver
    <3>1. cur \in dirtyIndex
      BY <2>1, <2>3 DEF KeptInv
    <3>2. ASSUME cur \notin dirtyScan
          PROVE  cache'[cur] # None /\ cache'[cur].stamp = disk[cur].ver
      <4>1. disk[cur].present /\ key = disk[cur].ver
        BY <2>1, <2>3, <3>2 DEF KeptInv
      <4>2. key # 0
        BY <2>1, <4>1 DEF TypeOK
      <4>3. cache' = [cache EXCEPT ![cur] =
                        [stamp |-> key, content |-> got.content, art |-> got.art]]
        BY <1>8, <2>3, <4>2 DEF StoreAndAdd, Fails
      <4>4. cache'[cur] = [stamp |-> key, content |-> got.content, art |-> got.art]
        BY <2>1, <4>3 DEF TypeOK
      <4>5. cache'[cur] # None
        BY <4>4, <2>1, NoneAssumption, MaxVersionAssumption DEF TypeOK
      <4> QED BY <4>1, <4>4, <4>5
    <3> QED BY <3>1, <3>2
  <2> QED BY <2>1, <2>2, <2>3, ReparseAdds
<1>9. CASE RetainRead
  <2>1. FramesInv'
    BY <1>9 DEF RetainRead, Running, Internal, process, history, FramesInv
  <2>2. /\ pc = "walk" /\ todo = {} /\ todo' = {} /\ pc' \in {"delete", "replace"}
        /\ health' = "sound" => health = "sound"
        /\ UNCHANGED <<disk, provider, build, cache, dirtyScan, dirtyIndex>>
        /\ provider = "cached" /\ health' = "sound" =>
             \A p \in stale' : build[p] = None
    BY <1>9
    DEF RetainRead, Running, Internal, Works, Fails, trouble, media, process, history
  <2>3. provider = "cached" /\ health' = "sound" =>
          \A p \in stale' \ dirtyScan : ~disk[p].present
    BY <2>2 DEF KeptInv, TypeOK
  <2>4. KeptInv'
    BY <1>0, <2>2, <2>3 DEF KeptInv
  <2> QED BY <2>1, <2>4
<1>10. CASE RetainDelete
  <2>1. FramesInv'
    BY <1>10 DEF RetainDelete, Running, Internal, process, history, FramesInv
  <2>2. /\ pc = "delete" /\ pc' = "replace" /\ stale' = {} /\ todo' = todo
        /\ health' = "sound" =>
             /\ health = "sound"
             /\ cache' = [p \in Paths |-> IF p \in stale THEN None ELSE cache[p]]
        /\ UNCHANGED <<disk, provider, build, dirtyScan, dirtyIndex>>
    BY <1>10
    DEF RetainDelete, Running, Internal, Works, Fails, trouble, media, process, history
  <2>3. ASSUME provider = "cached", health' = "sound", NEW p \in Paths \ dirtyScan
        PROVE  Kept(p) => Kept(p)'
    <3>1. p \in stale => ~disk[p].present
      BY <2>2, <2>3 DEF KeptInv
    <3> QED BY <2>2, <2>3, <3>1 DEF Kept
  <2>4. dirtyScan \subseteq dirtyIndex
    BY <2>2 DEF FramesInv
  <2>5. KeptInv'
    BY <2>2, <2>3, <2>4 DEF KeptInv
  <2> QED BY <2>1, <2>5
<1>11. CASE Replace
  <2>1. /\ pc = "replace" /\ pc' = "sleep" /\ proc # "down" /\ stale' = {} /\ todo' = {}
        /\ dirtyIndex' = dirtyScan
        /\ UNCHANGED <<disk, cache, proc, provider, health>>
    BY <1>11 DEF Replace, Running, NoScan, media, process, trouble, database
  <2>2. FramesInv'
    BY <2>1 DEF FramesInv
  <2>3. KeptInv'
    BY <1>0, <2>1 DEF KeptInv
  <2> QED BY <2>2, <2>3
<1> QED
  BY <1>1, <1>2, <1>3, <1>4, <1>5, <1>6, <1>7, <1>8, <1>9, <1>10, <1>11 DEF ScanStep

LEMMA ReparseLifecycle == ReparseInv /\ TypeOK' /\ Lifecycle => ReparseInv'
<1> SUFFICES ASSUME ReparseInv, TypeOK', Lifecycle PROVE ReparseInv'
  OBVIOUS
<1> USE DEF ReparseInv
<1>0. UNCHANGED <<disk, cache>> => \A p : Kept(p)' <=> Kept(p)
  BY DEF Kept
<1>1. CASE Start
  <2>1. /\ pc = "sleep" /\ dirtyIndex = Paths /\ proc' = "up"
        /\ UNCHANGED <<disk, pc, stale, dirtyIndex>>
    BY <1>1 DEF Start, FramesInv, media, locals, history
  <2>2. FramesInv'
    BY <2>1 DEF FramesInv
  <2>3. stale = {}
    BY <2>1 DEF FramesInv
  <2> QED BY <2>1, <2>2, <2>3 DEF KeptInv
<1>2. CASE Terminate
  <2>1. /\ proc' = "stopping" /\ proc = "up"
        /\ UNCHANGED <<disk, cache, health, provider, pc, todo, cur, key, build, stale,
                       dirtyScan, dirtyIndex>>
    BY <1>2 DEF Terminate, media, locals, database, history
  <2>2. FramesInv'
    BY <2>1 DEF FramesInv
  <2> QED BY <1>0, <2>1, <2>2 DEF KeptInv
<1>3. CASE Exit \/ Kill
  <2>1. /\ proc' = "down" /\ provider' = "plain" /\ pc' = "sleep"
        /\ stale' = {} /\ dirtyIndex' = Paths
    BY <1>3 DEF Exit, Kill, Gone, NoScan
  <2>2. FramesInv'
    BY <2>1 DEF FramesInv
  <2>3. KeptInv'
    BY <2>1 DEF KeptInv
  <2> QED BY <2>2, <2>3
<1>4. CASE Panic
  <2>1. /\ pc # "sleep" /\ pc' = "sleep" /\ stale' = {}
        /\ UNCHANGED <<disk, cache, health, proc, provider, dirtyIndex>>
    BY <1>4 DEF Panic, NoScan, media, process, database
  <2>2. FramesInv'
    BY <2>1 DEF FramesInv
  <2> QED BY <1>0, <2>1, <2>2 DEF KeptInv
<1> QED BY <1>1, <1>2, <1>3, <1>4 DEF Lifecycle

LEMMA ReparseStep == ReparseInv /\ [Next]_vars => ReparseInv'
<1> SUFFICES ASSUME ReparseInv, [Next]_vars PROVE ReparseInv'
  OBVIOUS
<1>1. TypeOK'
  BY NextTypeOK DEF ReparseInv
<1>2. CASE UNCHANGED vars
  <2>1. UNCHANGED <<disk, cache, health, proc, provider, pc, todo, cur, key, build,
                    stale, dirtyScan, dirtyIndex>>
    BY <1>2 DEF vars, media, process, trouble, locals, database, history
  <2>2. \A p : Kept(p)' <=> Kept(p)
    BY <2>1 DEF Kept
  <2> QED BY <1>1, <2>1, <2>2 DEF ReparseInv, FramesInv, KeptInv
<1> QED
  BY <1>1, <1>2, ReparseEnvironment, ReparseScan, ReparseLifecycle DEF Next

(* A provider whose cache works parses a file only if it was touched since *)
(* the scan behind the index began, through every crash, panic and restart *)
(* (tag_cache.rs, metadata, store and retain_only).                        *)
THEOREM NoNeedlessParse == Spec => ReparseOnlyTouched
<1>1. Init => ReparseInv
  BY InitTypeOK DEF Init, ReparseInv, FramesInv, KeptInv
<1>2. ReparseInv /\ [Next]_vars
        => [ParseTags /\ provider = "cached" /\ health = "sound" => cur \in dirtyIndex]_vars
  BY DEF ReparseInv, KeptInv, ParseTags, Running
<1> QED BY <1>1, <1>2, ReparseStep, PTL DEF Spec, ReparseOnlyTouched
=============================================================================
