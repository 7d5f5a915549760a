-------------------------- MODULE ItemServeProofs ---------------------------
(* What holds of ItemServe for every header, every size and every file.    *)
EXTENDS ItemServe, SequenceTheorems, TLAPS

Headers == [first : Nat \cup {None}, last : Nat \cup {None}]

(* An answer's head is fixed once its file is open: it is the one that the *)
(* size stat gave and the Range header call for.                           *)
Opened ==
  file # None =>
    /\ step \in {"stream", "done", "broken", "left"}
    /\ Ranged(request.header) => parse(request.header, file_size) # None
    /\ answer = item_response(request.header, file_size)
    /\ Len(body) <= answer.length
    /\ step = "stream" => request.method # "HEAD"
    /\ step = "done" =>
         Len(body) = IF request.method = "HEAD" THEN 0 ELSE answer.length

Unopened == file = None => body = <<>> /\ step # "broken"

(* What the handler learned of a file nothing happened to still holds.     *)
Still ==
  resolved # None /\ ~moved =>
    /\ at[resolved] \in Files
    /\ step = "open" \/ file # None => file_size = Size[bytes[at[resolved]]]
    /\ file # None => file = at[resolved] /\ ~edited
    /\ step # "broken"
    /\ step = "done" /\ file = None =>
         LET size == Size[bytes[at[resolved]]]
         IN /\ Ranged(request.header) /\ parse(request.header, size) = None
            /\ answer = Reply(416, None, size, 0)

Before ==
  /\ step = "resolve" => resolved = None
  /\ resolved = None => file = None
  /\ step = "open" /\ Ranged(request.header) =>
       parse(request.header, file_size) # None

Inv == TypeOK /\ Opened /\ Unopened /\ Still /\ Before /\ OneVersion

-----------------------------------------------------------------------------
(* Pieces of a file.                                                       *)

LEMMA SliceType ==
  ASSUME NEW c \in Contents, NEW offset \in Nat, NEW n \in Nat
  PROVE  Slice(c, offset, n) \in Seq(Contents \X Nat) /\ Len(Slice(c, offset, n)) = n
<1>1. \A i \in 1 .. n : <<c, offset + i - 1>> \in Contents \X Nat
  OBVIOUS
<1>2. Slice(c, offset, n) \in [1 .. n -> Contents \X Nat]
  BY <1>1 DEF Slice
<1> QED
  BY <1>2

Joined(s, t) == s \o t

LEMMA SlicesJoin ==
  ASSUME NEW c \in Contents, NEW offset \in Nat, NEW m \in Nat, NEW n \in Nat
  PROVE  Joined(Slice(c, offset, m), Slice(c, offset + m, n))
           = Slice(c, offset, m + n)
<1> DEFINE s == Slice(c, offset, m)
           t == Slice(c, offset + m, n)
           u == Slice(c, offset, m + n)
<1>1. /\ s \in Seq(Contents \X Nat) /\ Len(s) = m
      /\ t \in Seq(Contents \X Nat) /\ Len(t) = n
      /\ u \in Seq(Contents \X Nat) /\ Len(u) = m + n
  <2>1. offset + m \in Nat /\ m + n \in Nat
    OBVIOUS
  <2> QED
    BY <2>1, SliceType
<1> HIDE DEF s, t, u
<1>2. /\ s \o t \in Seq(Contents \X Nat) /\ Len(s \o t) = m + n
      /\ \A i \in 1 .. m + n :
           (s \o t)[i] = IF i <= m THEN s[i] ELSE t[i - m]
  <2> DEFINE Byte == Contents \X Nat
  <2> HIDE DEF Byte
  <2>1. s \in Seq(Byte) /\ t \in Seq(Byte)
    BY <1>1 DEF Byte
  <2>2. /\ s \o t \in Seq(Byte) /\ Len(s \o t) = Len(s) + Len(t)
        /\ \A i \in 1 .. Len(s) + Len(t) :
             (s \o t)[i] = IF i <= Len(s) THEN s[i] ELSE t[i - Len(s)]
    BY <2>1, ConcatProperties
  <2> QED
    BY <1>1, <2>2 DEF Byte
<1>3. ASSUME NEW i \in 1 .. m + n PROVE (s \o t)[i] = u[i]
  <2>1. u[i] = <<c, offset + i - 1>>
    BY DEF Slice, u
  <2>2. CASE i <= m
    <3>1. (s \o t)[i] = s[i]
      BY <1>2, <2>2
    <3>2. s[i] = <<c, offset + i - 1>>
      BY <2>2 DEF Slice, s
    <3> QED
      BY <2>1, <3>1, <3>2
  <2>3. CASE i > m
    <3>1. (s \o t)[i] = t[i - m]
      <4>1. (s \o t)[i] = IF i <= m THEN s[i] ELSE t[i - m]
        BY <1>2
      <4>2. ~(i <= m)
        BY <2>3
      <4> QED
        BY <4>1, <4>2
    <3>2. i - m \in 1 .. n
      BY <2>3
    <3>3. t[i - m] = <<c, offset + m + (i - m) - 1>>
      BY <3>2 DEF Slice, t
    <3>4. offset + m + (i - m) - 1 = offset + i - 1
      OBVIOUS
    <3> QED
      BY <2>1, <3>1, <3>3, <3>4
  <2>4. i <= m \/ i > m
    OBVIOUS
  <2> QED
    BY <2>2, <2>3, <2>4
<1>4. s \o t = u
  BY <1>1, <1>2, <1>3, SeqEqual
<1> QED
  BY <1>4 DEF s, t, u, Joined

USE SizeAssumption, NoneAssumption

-----------------------------------------------------------------------------
(* The Range header.                                                       *)

LEMMA RefusedUnderstood ==
  ASSUME NEW header \in Headers, NEW size \in 0 .. MaxU64
  PROVE  Refused(header) <=>
           \/ ~Understood(header)
           \/ header.first = None /\ header.last = 0
           \/ header.first # None /\ header.last # None /\ header.first > header.last
BY DEF Refused, Understood, Headers, Parses

LEMMA MeantIsWanted ==
  ASSUME NEW header \in Headers, NEW size \in 0 .. MaxU64, size # 0,
         ~Refused(header)
  PROVE  /\ Meant(header, size).start \in Nat
         /\ Meant(header, size).end \in 0 .. size - 1
         /\ Meant(header, size) \in ByteRange
         /\ Wanted(header, size) =
              Meant(header, size).start .. Meant(header, size).end
<1>1. CASE header.first = None
  <2>1. header.last \in Nat \ {0}
    BY <1>1 DEF Headers, Refused
  <2>2. Meant(header, size) =
          [start |-> SaturatingSub(size, header.last), end |-> size - 1]
    BY <1>1 DEF Meant
  <2>3. Wanted(header, size) = {i \in 0 .. size - 1 : size <= i + header.last}
    BY <1>1 DEF Wanted
  <2> QED
    BY <2>1, <2>2, <2>3 DEF SaturatingSub, ByteRange
<1>2. CASE header.first # None /\ header.last = None
  <2>1. header.first \in Nat
    BY <1>2 DEF Headers
  <2>2. Meant(header, size) = [start |-> header.first, end |-> size - 1]
    BY <1>2 DEF Meant
  <2>3. Wanted(header, size) = {i \in 0 .. size - 1 : header.first <= i}
    BY <1>2 DEF Wanted
  <2> QED
    BY <2>1, <2>2, <2>3 DEF ByteRange
<1>3. CASE header.first # None /\ header.last # None
  <2>1. header.first \in Nat /\ header.last \in Nat
    BY <1>3 DEF Headers
  <2>2. Meant(header, size) =
          [start |-> header.first, end |-> Least(header.last, size - 1)]
    BY <1>3 DEF Meant
  <2>3. Wanted(header, size) =
          {i \in 0 .. size - 1 : header.first <= i /\ i <= header.last}
    BY <1>3 DEF Wanted
  <2> QED
    BY <2>1, <2>2, <2>3 DEF Least, ByteRange
<1> QED
  BY <1>1, <1>2, <1>3

(* For every header and every size a u64 can hold, range::parse refuses    *)
(* exactly the headers that ask for no byte of the file or cannot be       *)
(* understood, and otherwise returns the bytes asked for, first to last,   *)
(* all of them inside the file.                                            *)
THEOREM ParseExact ==
  ASSUME NEW header \in Headers, NEW size \in 0 .. MaxU64
  PROVE  LET range == parse(header, size)
         IN /\ range = None <=> ~Understood(header) \/ Wanted(header, size) = {}
            /\ range # None => /\ range \in ByteRange
                               /\ range.start <= range.end /\ range.end < size
                               /\ Wanted(header, size) = range.start .. range.end
<1> DEFINE meant == Meant(header, size)
<1>1. CASE size = 0
  <2>1. parse(header, size) = None
    BY <1>1 DEF parse
  <2>2. Wanted(header, size) = {}
    BY <1>1 DEF Wanted
  <2> QED
    BY <2>1, <2>2
<1>2. CASE size # 0 /\ Refused(header)
  <2>1. parse(header, size) = None
    BY <1>2 DEF parse
  <2>2. ~Understood(header) \/ Wanted(header, size) = {}
    <3>1. CASE header.first = None /\ header.last = 0
      BY <3>1 DEF Wanted
    <3>2. CASE header.first # None /\ header.last # None /\ header.first > header.last
      <4>1. header.first \in Nat /\ header.last \in Nat
        BY <3>2 DEF Headers
      <4>2. Wanted(header, size) =
              {i \in 0 .. size - 1 : header.first <= i /\ i <= header.last}
        BY <3>2 DEF Wanted
      <4> QED
        BY <3>2, <4>1, <4>2
    <3> QED
      BY <1>2, <3>1, <3>2, RefusedUnderstood
  <2> QED
    BY <2>1, <2>2
<1>3. CASE size # 0 /\ ~Refused(header)
  <2>1. /\ meant.start \in Nat /\ meant.end \in 0 .. size - 1
        /\ meant \in ByteRange
        /\ Wanted(header, size) = meant.start .. meant.end
    BY <1>3, MeantIsWanted
  <2>2. Understood(header)
    BY <1>3, RefusedUnderstood
  <2>3. CASE meant.start > meant.end
    <3>1. parse(header, size) = None
      BY <1>3, <2>3 DEF parse
    <3>2. meant.start .. meant.end = {}
      BY <2>1, <2>3
    <3> QED
      BY <2>1, <3>1, <3>2
  <2>4. CASE meant.start <= meant.end
    <3>1. meant # None
      BY <2>1 DEF parse
    <3>2. parse(header, size) = meant
      BY <1>3, <2>1, <2>4 DEF parse
    <3>3. meant.start \in meant.start .. meant.end
      BY <2>1, <2>4
    <3> QED
      BY <2>1, <2>2, <2>4, <3>1, <3>2, <3>3
  <2> QED
    BY <2>1, <2>3, <2>4
<1> QED
  BY <1>1, <1>2, <1>3

(* The answer to a request that got past stat: of Content-Length bytes,    *)
(* all of them in a file of that size.                                     *)
LEMMA ResponseFits ==
  ASSUME NEW header \in Headers \cup {None}, NEW size \in 0 .. MaxU64,
         seeks \in BOOLEAN,
         Ranged(header) => parse(header, size) # None
  PROVE  LET a == item_response(header, size)
             start == IF a.range = None THEN 0 ELSE a.range.start
         IN a \in Answers /\ start \in Nat /\ start + a.length <= size
<1>1. CASE ~Ranged(header)
  BY <1>1 DEF item_response, Reply, Answers
<1>2. CASE Ranged(header)
  <2> DEFINE range == parse(header, size)
  <2>1. header \in Headers /\ range # None
    BY <1>2 DEF Ranged
  <2>2. range \in ByteRange /\ range.start <= range.end /\ range.end < size
    BY <2>1, ParseExact
  <2>3. range.start \in Nat /\ range.end \in Nat
    BY <2>2 DEF ByteRange
  <2>4. Length(range) = range.end - range.start + 1
    BY <2>2, <2>3 DEF Length, Least, SaturatingSub
  <2> HIDE DEF range
  <2>5. item_response(header, size) = Reply(206, range, size, Length(range))
    BY <1>2 DEF item_response, range
  <2> QED
    BY <2>2, <2>3, <2>4, <2>5 DEF Reply, Answers
<1> QED
  BY <1>1, <1>2

-----------------------------------------------------------------------------
(* The invariant, action by action.                                        *)

LEMMA InitInv == Init => Inv
<1> SUFFICES ASSUME Init PROVE Inv
  OBVIOUS
<1> USE DEF Init
<1>1. TypeOK
  <2>1. \A f \in [Library -> Files] : f \in [Library -> Files \cup {None}]
    OBVIOUS
  <2>2. \A f \in [Names -> Library] : f \in [Names -> Places \cup {None}]
    BY PlacesAssumption
  <2>3. request \in Requests
    BY DEF Requests
  <2>4. 0 \in 0 .. MaxU64 /\ 0 \in 0 .. MaxChanges
    BY BoundsAssumption
  <2>5. <<>> \in Seq(Contents \X Nat)
    OBVIOUS
  <2>6. leads \in [Names -> Places \cup {None}] /\ at \in [Library -> Files \cup {None}]
    BY <2>1, <2>2
  <2> QED
    BY <2>3, <2>4, <2>5, <2>6 DEF TypeOK, Over
<1>2. Opened /\ Unopened /\ Still /\ Before /\ OneVersion
  BY DEF Opened, Unopened, Still, Before, OneVersion
<1> QED
  BY <1>1, <1>2 DEF Inv

(* What an action that only writes the disk leaves as it is.               *)
LEMMA ChangeInv ==
  Inv /\ Change =>
    /\ Opened' /\ Unopened' /\ Before'
    /\ changes' \in 0 .. MaxChanges
BY BoundsAssumption
   DEF Inv, TypeOK, Change, local, Opened, Unopened, Before,
       Ranged, item_response

LEMMA RepointInv ==
  ASSUME Inv, NEW name \in Names, Repoint(name)
  PROVE  Inv'
<1>1. Opened' /\ Unopened' /\ Before' /\ changes' \in 0 .. MaxChanges
  BY ChangeInv DEF Repoint
<1>2. leads' \in [Names -> Places \cup {None}]
  BY DEF Inv, TypeOK, Repoint
<1>3. TypeOK'
  BY <1>1, <1>2 DEF Inv, TypeOK, Repoint, Change, local
<1>4. Still' /\ OneVersion'
  BY DEF Inv, Repoint, Change, local, Still, OneVersion, Start, Ranged
<1> QED
  BY <1>1, <1>3, <1>4 DEF Inv

LEMMA PutInv ==
  ASSUME Inv, NEW place \in Library, Put(place)
  PROVE  Inv'
<1>1. Opened' /\ Unopened' /\ Before' /\ changes' \in 0 .. MaxChanges
  BY ChangeInv DEF Put
<1>2. at' \in [Library -> Files \cup {None}]
  BY DEF Inv, TypeOK, Put
<1>3. TypeOK'
  BY <1>1, <1>2 DEF Inv, TypeOK, Put, Change, local, Touches
<1>4. CASE place = resolved
  <2>1. moved'
    BY <1>4 DEF Put, Touches
  <2> QED
    BY <1>1, <1>3, <2>1 DEF Inv, Put, Change, local, Still, OneVersion, Start
<1>5. CASE place # resolved
  <2>1. moved' = moved
    BY <1>5 DEF Put, Touches, Inv, TypeOK
  <2>2. resolved # None => at'[resolved] = at[resolved]
    BY <1>5, PlacesAssumption DEF Put, Inv, TypeOK
  <2>3. Still'
    BY <2>1, <2>2 DEF Inv, Put, Change, local, Still, Ranged
  <2> QED
    BY <1>1, <1>3, <2>3 DEF Inv, Put, Change, local, OneVersion, Start
<1> QED
  BY <1>4, <1>5

LEMMA EditInv ==
  ASSUME Inv, NEW f \in Files, Edit(f)
  PROVE  Inv'
<1>1. Opened' /\ Unopened' /\ Before' /\ changes' \in 0 .. MaxChanges
  BY ChangeInv DEF Edit
<1>2. bytes' \in [Files -> Contents]
  BY DEF Inv, TypeOK, Edit
<1>3. TypeOK'
  BY <1>1, <1>2, PlacesAssumption DEF Inv, TypeOK, Edit, Change, local
<1>4. OneVersion'
  <2>1. CASE f = file
    BY <2>1 DEF Edit, OneVersion
  <2>2. CASE f # file
    <3>1. edited' = edited
      BY <2>2 DEF Edit, Inv, TypeOK
    <3>2. file # None => bytes'[file] = bytes[file]
      BY <2>2 DEF Edit, Inv, TypeOK
    <3> QED
      BY <3>1, <3>2 DEF Inv, Edit, Change, local, OneVersion, Start
  <2> QED
    BY <2>1, <2>2
<1>5. Still'
  <2> SUFFICES ASSUME resolved' # None /\ ~moved' PROVE Still'
    BY DEF Still
  <2>1. resolved # None /\ ~moved /\ at[resolved] # f
    BY DEF Edit, Change, local
  <2>2. at[resolved] \in Files /\ (file # None => file = at[resolved] /\ ~edited)
    BY <2>1 DEF Inv, Still
  <2>3. bytes'[at[resolved]] = bytes[at[resolved]]
    BY <2>1, <2>2 DEF Edit, Inv, TypeOK
  <2>4. file # None => ~edited'
    BY <2>1, <2>2, PlacesAssumption DEF Edit
  <2> QED
    BY <2>1, <2>3, <2>4 DEF Inv, Edit, Change, local, Still, Ranged
<1> QED
  BY <1>1, <1>3, <1>4, <1>5 DEF Inv

LEMMA RequestInv == Inv /\ Request => Inv'
<1> SUFFICES ASSUME Inv, Request PROVE Inv'
  OBVIOUS
<1>1. TypeOK'
  <2>1. /\ file_size' \in 0 .. MaxU64
        /\ body' \in Seq(Contents \X Nat)
    BY DEF Request
  <2> QED
    BY <2>1 DEF Inv, TypeOK, Request, disk, Over
<1>2. Opened' /\ Unopened' /\ Still' /\ Before' /\ OneVersion'
  BY DEF Request, Opened, Unopened, Still, Before, OneVersion
<1> QED
  BY <1>1, <1>2 DEF Inv

LEMMA RefuseType ==
  ASSUME NEW status \in {404, 416}, NEW size \in Nat, Refuse(status, size)
  PROVE  answer' \in Answers
BY DEF Refuse, Reply, Answers

LEMMA ResolveInv == Inv /\ Resolve => Inv'
<1> SUFFICES ASSUME Inv, Resolve PROVE Inv'
  OBVIOUS
<1> DEFINE place == IF request.item = None THEN None ELSE leads[request.item]
<1>1. step = "resolve" /\ resolved = None /\ file = None /\ body = <<>>
  BY DEF Inv, Before, Unopened, Resolve
<1>2. UNCHANGED <<disk, seeks, request, file_size, file, body, moved, edited>>
  BY DEF Resolve
<1>3. CASE Stands(place)
  <2>1. resolved' = place /\ step' = "stat" /\ UNCHANGED answer
    BY <1>3 DEF Resolve
  <2>2. place \in Library /\ place # None /\ at[place] \in Files
    BY <1>3, PlacesAssumption DEF Stands, Inv, TypeOK
  <2>3. TypeOK'
    BY <1>2, <2>1, <2>2 DEF Inv, TypeOK, disk, Over
  <2>4. Opened' /\ Unopened' /\ Still' /\ Before' /\ OneVersion'
    BY <1>1, <1>2, <2>1, <2>2
       DEF disk, Opened, Unopened, Still, Before, OneVersion
  <2> QED
    BY <2>3, <2>4 DEF Inv
<1>4. CASE ~Stands(place)
  <2>1. Refuse(404, 0) /\ UNCHANGED resolved
    BY <1>4 DEF Resolve
  <2>2. answer' \in Answers
    BY <2>1, RefuseType
  <2>3. TypeOK'
    BY <1>1, <1>2, <2>1, <2>2 DEF Inv, TypeOK, disk, Over, Refuse
  <2>4. Opened' /\ Unopened' /\ Still' /\ Before' /\ OneVersion'
    BY <1>1, <1>2, <2>1
       DEF disk, Opened, Unopened, Still, Before, OneVersion, Refuse
  <2> QED
    BY <2>3, <2>4 DEF Inv
<1> QED
  BY <1>3, <1>4

LEMMA StatInv == Inv /\ Stat => Inv'
<1> SUFFICES ASSUME Inv, Stat PROVE Inv'
  OBVIOUS
<1>1. /\ step = "stat" /\ resolved # None /\ resolved \in Library
      /\ file = None /\ body = <<>>
  BY DEF Inv, TypeOK, Opened, Unopened, Stat
<1>2. UNCHANGED <<disk, seeks, request, resolved, file, body, moved, edited>>
  BY DEF Stat
<1>3. CASE at[resolved] = None
  <2>1. Refuse(404, 0) /\ UNCHANGED file_size
    BY <1>3 DEF Stat
  <2>2. answer' \in Answers
    BY <2>1, RefuseType
  <2>3. TypeOK'
    BY <1>2, <2>1, <2>2 DEF Inv, TypeOK, disk, Over, Refuse
  <2>4. moved
    BY <1>1, <1>3, PlacesAssumption DEF Inv, Still
  <2>5. Opened' /\ Unopened' /\ Still' /\ Before' /\ OneVersion'
    BY <1>1, <1>2, <2>1, <2>4
       DEF Opened, Unopened, Still, Before, OneVersion, Refuse
  <2> QED
    BY <2>3, <2>5 DEF Inv
<1>4. CASE at[resolved] # None
  <2> DEFINE size == Size[bytes[at[resolved]]]
  <2>1. at[resolved] \in Files /\ size \in 0 .. MaxU64
    BY <1>1, <1>4, PlacesAssumption DEF Inv, TypeOK
  <2>2. size \in Nat
    BY <2>1
  <2>3. file_size' = size
    BY <1>4 DEF Stat
  <2>4. CASE Ranged(request.header) /\ parse(request.header, size) = None
    <3>1. Refuse(416, size)
      BY <1>4, <2>3, <2>4 DEF Stat
    <3>2. answer' \in Answers
      BY <2>2, <3>1, RefuseType
    <3> HIDE DEF size
    <3>3. TypeOK'
      BY <1>1, <1>2, <2>1, <2>3, <3>1, <3>2 DEF Inv, TypeOK, disk, Over, Refuse
    <3>4. size' = size
      BY <1>2 DEF size, disk
    <3>5. Still'
      BY <1>1, <1>2, <2>1, <2>4, <3>1, <3>4 DEF disk, Still, Refuse, Ranged, size
    <3>6. Opened' /\ Unopened' /\ Before' /\ OneVersion'
      BY <1>1, <1>2, <3>1 DEF Opened, Unopened, Before, OneVersion, Refuse
    <3> QED
      BY <3>3, <3>5, <3>6 DEF Inv
  <2>5. CASE ~(Ranged(request.header) /\ parse(request.header, size) = None)
    <3>1. step' = "open" /\ UNCHANGED answer
      BY <1>4, <2>3, <2>5 DEF Stat
    <3> HIDE DEF size
    <3>2. TypeOK'
      BY <1>1, <1>2, <2>1, <2>3, <3>1 DEF Inv, TypeOK, disk, Over
    <3>3. Still'
      BY <1>1, <1>2, <2>1, <2>3, <3>1 DEF disk, Still, size
    <3>4. Before'
      BY <1>1, <1>2, <2>3, <2>5, <3>1 DEF Before, Ranged
    <3>5. Opened' /\ Unopened' /\ OneVersion'
      BY <1>1, <1>2, <3>1 DEF Opened, Unopened, OneVersion
    <3> QED
      BY <3>2, <3>3, <3>4, <3>5 DEF Inv
  <2> QED
    BY <2>4, <2>5
<1> QED
  BY <1>3, <1>4

LEMMA OpenInv == Inv /\ Open => Inv'
<1> SUFFICES ASSUME Inv, Open PROVE Inv'
  OBVIOUS
<1>1. /\ step = "open" /\ resolved # None /\ resolved \in Library
      /\ file = None /\ body = <<>>
  BY DEF Inv, TypeOK, Opened, Unopened, Open
<1>2. UNCHANGED <<disk, seeks, request, resolved, file_size, body, moved, edited>>
  BY DEF Open
<1>3. CASE at[resolved] = None
  <2>1. Refuse(404, 0) /\ UNCHANGED file
    BY <1>3 DEF Open
  <2>2. answer' \in Answers
    BY <2>1, RefuseType
  <2>3. TypeOK'
    BY <1>2, <2>1, <2>2 DEF Inv, TypeOK, disk, Over, Refuse
  <2>4. moved
    BY <1>1, <1>3, PlacesAssumption DEF Inv, Still
  <2>5. Opened' /\ Unopened' /\ Still' /\ Before' /\ OneVersion'
    BY <1>1, <1>2, <2>1, <2>4
       DEF Opened, Unopened, Still, Before, OneVersion, Refuse
  <2> QED
    BY <2>3, <2>5 DEF Inv
<1>4. CASE at[resolved] # None
  <2> DEFINE response == item_response(request.header, file_size)
  <2>1. /\ file' = at[resolved] /\ answer' = response
        /\ step' = IF request.method = "HEAD" THEN "done" ELSE "stream"
    BY <1>4 DEF Open
  <2>2. at[resolved] \in Files
    BY <1>1, <1>4, PlacesAssumption DEF Inv, TypeOK
  <2>3. Ranged(request.header) => parse(request.header, file_size) # None
    BY <1>1 DEF Inv, Before
  <2>4. /\ request.header \in Headers \cup {None}
        /\ file_size \in 0 .. MaxU64 /\ seeks \in BOOLEAN
    BY HeaderAssumption DEF Inv, TypeOK, Requests, Headers
  <2>5. response \in Answers /\ response.length \in Nat
    BY <2>3, <2>4, ResponseFits DEF Answers
  <2>6. response' = response /\ Ranged(request.header)' = Ranged(request.header)
    BY <1>2 DEF item_response, Ranged
  <2> HIDE DEF response
  <2>7. TypeOK'
    <3>1. step' \in {"done", "stream"}
      BY <2>1
    <3>2. file' \in Files /\ file' # None /\ answer' \in Answers /\ answer' # None
      BY <2>1, <2>2, <2>5, PlacesAssumption
    <3> QED
      BY <1>1, <1>2, <3>1, <3>2 DEF Inv, TypeOK, disk, Over
  <2>8. Opened'
    <3>1. Len(body') = 0
      BY <1>1, <1>2
    <3>2. (Ranged(request.header) => parse(request.header, file_size) # None)'
      BY <1>2, <2>3, <2>6
    <3>3. answer' = item_response(request.header, file_size)'
      BY <2>1, <2>6 DEF response
    <3>4. 0 <= answer'.length
      BY <2>1, <2>5
    <3>5. step' = IF request'.method = "HEAD" THEN "done" ELSE "stream"
      BY <1>2, <2>1
    <3> QED
      BY <2>1, <3>1, <3>2, <3>3, <3>4, <3>5 DEF Opened
  <2>9. Still'
    BY <1>1, <1>2, <2>1, <2>2, PlacesAssumption DEF Inv, Still, Before, TypeOK, disk
  <2>10. OneVersion'
    <3>1. body' = <<>> /\ Len(body') = 0
      BY <1>1, <1>2
    <3>2. Slice(bytes[file], Start, Len(body))' = <<>>
      BY <3>1 DEF Slice
    <3> QED
      BY <3>1, <3>2 DEF OneVersion
  <2>11. Unopened' /\ Before'
    BY <1>1, <1>2, <2>1, <2>2, PlacesAssumption DEF Unopened, Before
  <2> QED
    BY <2>7, <2>8, <2>9, <2>10, <2>11 DEF Inv
<1> QED
  BY <1>3, <1>4

LEMMA StreamInv == Inv /\ Stream => Inv'
<1> SUFFICES ASSUME Inv, Stream PROVE Inv'
  OBVIOUS
<1>1. step = "stream" /\ file # None /\ file \in Files /\ answer # None
  BY DEF Inv, TypeOK, Stream
<1>2. UNCHANGED <<disk, seeks, local, answer, moved, edited>>
  BY DEF Stream
<1> DEFINE content == bytes[file]
<1>3. /\ content \in Contents /\ Size[content] \in 0 .. MaxU64
      /\ body \in Seq(Contents \X Nat) /\ Len(body) \in Nat
  BY <1>1 DEF Inv, TypeOK
<1>4. /\ Ranged(request.header) => parse(request.header, file_size) # None
      /\ answer = item_response(request.header, file_size)
      /\ Len(body) <= answer.length
  BY <1>1 DEF Inv, Opened
<1>5. answer \in Answers /\ Start \in Nat /\ Start + answer.length <= file_size
  <2>1. /\ request.header \in Headers \cup {None}
        /\ file_size \in 0 .. MaxU64 /\ seeks \in BOOLEAN
    BY HeaderAssumption DEF Inv, TypeOK, Requests, Headers
  <2> QED
    BY <1>4, <2>1, ResponseFits DEF Start
<1>6. answer.length \in Nat /\ file_size \in Nat
  BY <1>5 DEF Answers, Inv, TypeOK
<1>7. Offset = Start + Len(body) /\ Offset \in Nat
  BY <1>3, <1>5 DEF Offset, Start
<1>8. /\ Left <= answer.length - Len(body)
      /\ Left \in Int
      /\ Left <= 0 =>
           Len(body) = answer.length \/ Size[content] <= Offset
  <2> DEFINE wanted == answer.length - Len(body)
             there == SaturatingSub(Size[content], Offset)
  <2>1. there \in Nat /\ (there = 0 => Size[content] <= Offset)
    BY <1>3, <1>7 DEF SaturatingSub
  <2>2. wanted \in Nat /\ (wanted = 0 => Len(body) = answer.length)
    BY <1>3, <1>4, <1>6
  <2> HIDE DEF wanted, there
  <2>3. Left = Least(wanted, there)
    BY DEF Left, wanted, there
  <2> QED
    BY <2>1, <2>2, <2>3 DEF Least, wanted
<1>9. Start' = Start /\ content' = content
  BY <1>2 DEF Start, local, disk
<1>10. CASE Left > 0
  <2>1. PICK count \in 1 .. Least(MaxChunk, Left) :
               body' = body \o Slice(content, Offset, count)
    BY <1>10 DEF Stream
  <2>2. UNCHANGED step
    BY <1>10 DEF Stream
  <2>3. count \in Nat /\ count <= Left
    BY <1>8, <2>1, BoundsAssumption DEF Least
  <2>4. /\ body' \in Seq(Contents \X Nat)
        /\ Len(body') = Len(body) + count
    <3>1. /\ Slice(content, Offset, count) \in Seq(Contents \X Nat)
          /\ Len(Slice(content, Offset, count)) = count
      BY <1>3, <1>7, <2>3, SliceType
    <3> DEFINE piece == Slice(content, Offset, count)
    <3> HIDE DEF piece
    <3>2. body' = body \o piece
      BY <2>1 DEF piece
    <3>3. piece \in Seq(Contents \X Nat) /\ Len(piece) = count
      BY <3>1 DEF piece
    <3> QED
      BY <1>3, <3>2, <3>3, ConcatProperties
  <2>5. Len(body') <= answer.length
    <3>1. \A a, b, l, c \in Int : l <= a - b /\ c <= l => b + c <= a
      OBVIOUS
    <3>2. Len(body) + count <= answer.length
      BY <1>3, <1>6, <1>8, <2>3, <3>1
    <3> QED
      BY <2>4, <3>2
  <2>6. TypeOK'
    BY <1>2, <2>2, <2>4 DEF Inv, TypeOK, disk, local
  <2>7. Opened'
    BY <1>1, <1>2, <2>2, <2>5 DEF Inv, Opened, local, Ranged, item_response
  <2>8. Still'
    BY <1>2, <2>2 DEF Inv, Still, disk, local, Ranged
  <2>9. OneVersion'
    <3>1. CASE edited
      BY <1>2, <3>1 DEF OneVersion
    <3>2. CASE ~edited
      <4>1. body = Slice(content, Start, Len(body))
        BY <1>1, <3>2 DEF Inv, OneVersion
      <4> HIDE DEF content
      <4>2. /\ content \in Contents /\ Start \in Nat /\ Len(body) \in Nat
            /\ count \in Nat /\ Offset = Start + Len(body)
            /\ Len(body') = Len(body) + count
        BY <1>3, <1>5, <1>7, <2>3, <2>4
      <4>3. PICK m \in Nat : m = Len(body)
        BY <4>2
      <4>4. Joined(Slice(content, Start, m), Slice(content, Start + m, count))
              = Slice(content, Start, m + count)
        BY <4>2, SlicesJoin
      <4>5. Joined(body, Slice(content, Offset, count)) = Slice(content, Start, Len(body'))
        BY <4>1, <4>2, <4>3, <4>4
      <4>6. body' = Slice(content, Start, Len(body'))
        BY <2>1, <4>5 DEF Joined, content
      <4> QED
        BY <1>9, <4>6 DEF OneVersion, content
    <3> QED
      BY <3>1, <3>2
  <2>10. Unopened' /\ Before'
    BY <1>1, <1>2, <2>2 DEF Inv, Unopened, Before, local
  <2> QED
    BY <2>6, <2>7, <2>8, <2>9, <2>10 DEF Inv
<1>11. CASE ~(Left > 0)
  <2>1. /\ step' = IF Len(body) = answer.length THEN "done" ELSE "broken"
        /\ UNCHANGED body
    BY <1>11 DEF Stream
  <2>2. TypeOK'
    BY <1>1, <1>2, <2>1 DEF Inv, TypeOK, disk, local, Over
  <2>3. request.method # "HEAD"
    BY <1>1 DEF Inv, Opened
  <2>4. Opened'
    BY <1>1, <1>2, <1>4, <2>1, <2>3 DEF Opened, local, Ranged, item_response
  <2>5. Still'
    <3> SUFFICES ASSUME resolved # None, ~moved PROVE Still'
      BY <1>2 DEF Still, local
    <3>1. file = at[resolved] /\ file_size = Size[content]
      BY <1>1 DEF Inv, Still
    <3>2. Len(body) = answer.length
      <4> SUFFICES ASSUME Size[content] <= Offset PROVE Len(body) = answer.length
        BY <1>8, <1>11
      <4> QED
        BY <1>3, <1>4, <1>5, <1>6, <1>7, <3>1
    <3> QED
      BY <1>1, <1>2, <2>1, <3>2 DEF Inv, Still, disk, local
  <2>6. OneVersion'
    BY <1>2, <1>9, <2>1 DEF Inv, OneVersion, local
  <2>7. Unopened' /\ Before'
    BY <1>1, <1>2, <2>1 DEF Inv, Unopened, Before, local
  <2> QED
    BY <2>2, <2>4, <2>5, <2>6, <2>7 DEF Inv
<1> QED
  BY <1>10, <1>11

LEMMA LeaveInv == Inv /\ Leave => Inv'
<1> SUFFICES ASSUME Inv, Leave PROVE Inv'
  OBVIOUS
<1>1. /\ step' = "left" /\ step \notin Over
      /\ UNCHANGED <<disk, seeks, local, answer, body, moved, edited>>
  BY DEF Leave
<1>2. TypeOK'
  BY <1>1 DEF Inv, TypeOK, disk, local, Over
<1>3. Opened' /\ Unopened' /\ Before'
  BY <1>1 DEF Inv, Opened, Unopened, Before, local, Ranged, item_response
<1>4. Still'
  BY <1>1 DEF Inv, Still, disk, local
<1>5. OneVersion'
  BY <1>1 DEF Inv, OneVersion, disk, local, Start
<1> QED
  BY <1>2, <1>3, <1>4, <1>5 DEF Inv

LEMMA StutterInv == Inv /\ UNCHANGED vars => Inv'
<1> SUFFICES ASSUME Inv, UNCHANGED vars PROVE Inv'
  OBVIOUS
<1> USE DEF vars, disk, local
<1>1. TypeOK' /\ Unopened' /\ Before'
  BY DEF Inv, TypeOK, Unopened, Before, Ranged
<1>2. Opened' /\ Still' /\ OneVersion'
  BY DEF Inv, Opened, Still, OneVersion, Start, Ranged, item_response
<1> QED
  BY <1>1, <1>2 DEF Inv

LEMMA NextInv == Inv /\ [Next]_vars => Inv'
<1> SUFFICES ASSUME Inv, [Next]_vars PROVE Inv'
  OBVIOUS
<1>1. CASE Request
  BY <1>1, RequestInv
<1>2. CASE Serve
  BY <1>2, ResolveInv, StatInv, OpenInv, StreamInv DEF Serve
<1>3. CASE Leave
  BY <1>3, LeaveInv
<1>4. CASE \E name \in Names : Repoint(name)
  BY <1>4, RepointInv
<1>5. CASE \E place \in Library : Put(place)
  BY <1>5, PutInv
<1>6. CASE \E f \in Files : Edit(f)
  BY <1>6, EditInv
<1>7. CASE UNCHANGED vars
  BY <1>7, StutterInv
<1> QED
  BY <1>1, <1>2, <1>3, <1>4, <1>5, <1>6, <1>7 DEF Next

LEMMA InvHolds == Spec => []Inv
  BY InitInv, NextInv, PTL DEF Spec

(* Every variable always holds what its field or local of the code may.    *)
THEOREM TypeCorrect == Spec => []TypeOK
<1>1. Inv => TypeOK
  BY DEF Inv
<1> QED
  BY <1>1, InvHolds, PTL

(* The bytes of an answer are consecutive ones of the file it opened,      *)
(* whatever happens to links and places on the way.                        *)
THEOREM NeverMixed == Spec => []OneVersion
<1>1. Inv => OneVersion
  BY DEF Inv
<1> QED
  BY <1>1, InvHolds, PTL

LEMMA InvExact == Inv => Exact
<1> SUFFICES ASSUME Inv, resolved # None, ~moved PROVE Exact
  BY DEF Exact
<1> DEFINE content == bytes[at[resolved]]
           size == Size[content]
           header == request.header
<1>1. step # "broken"
  BY DEF Inv, Still
<1>2. /\ at[resolved] \in Files /\ content \in Contents
      /\ size \in 0 .. MaxU64
      /\ header \in Headers \cup {None}
  BY HeaderAssumption DEF Inv, TypeOK, Still, Requests, Headers
<1>3. Ranged(header) => header \in Headers
  BY <1>2 DEF Ranged
<1>4. CASE step = "done" /\ file = None
  <2>1. /\ Ranged(header) /\ parse(header, size) = None
        /\ answer = Reply(416, None, size, 0)
    BY <1>4 DEF Inv, Still
  <2>2. ~Understood(header) \/ Wanted(header, size) = {}
    BY <1>2, <1>3, <2>1, ParseExact
  <2>3. Right(content)
    BY <2>1, <2>2 DEF Right
  <2>4. body = <<>> /\ answer.length = 0
    BY <1>4, <2>1 DEF Inv, Unopened, Reply
  <2>5. Slice(content, Start, 0) = <<>>
    BY DEF Slice
  <2> QED
    BY <1>1, <2>3, <2>4, <2>5 DEF Exact
<1>5. CASE step = "done" /\ file # None
  <2>1. /\ file = at[resolved] /\ ~edited /\ file_size = size
        /\ Ranged(header) => parse(header, size) # None
        /\ answer = item_response(header, size)
        /\ Len(body) = IF request.method = "HEAD" THEN 0 ELSE answer.length
    BY <1>5 DEF Inv, Still, Opened
  <2>2. body = Slice(content, Start, Len(body))
    BY <1>5, <2>1 DEF Inv, OneVersion
  <2>3. Right(content)
    <3>1. CASE ~Ranged(header)
      BY <2>1, <3>1 DEF Right, item_response
    <3>2. CASE Ranged(header)
      <4> DEFINE range == parse(header, size)
      <4>1. /\ range \in ByteRange /\ Understood(header)
            /\ range.start <= range.end /\ range.end < size
            /\ Wanted(header, size) = range.start .. range.end
        BY <1>2, <1>3, <2>1, <3>2, ParseExact
      <4> HIDE DEF range
      <4>2. Length(range) = range.end - range.start + 1
        BY <1>2, <4>1 DEF Length, Least, SaturatingSub, ByteRange
      <4>3. answer = Reply(206, range, size, Length(range))
        BY <2>1, <3>2 DEF item_response, range
      <4>4. /\ answer.status = 206 /\ answer.range = range
            /\ answer.size = size /\ answer.length = Length(range)
        BY <4>3 DEF Reply
      <4> QED
        BY <3>2, <4>1, <4>2, <4>4 DEF Right
    <3> QED
      BY <3>1, <3>2
  <2> QED
    BY <1>1, <2>1, <2>2, <2>3 DEF Exact
<1>6. CASE step # "done"
  BY <1>1, <1>6 DEF Exact
<1> QED
  BY <1>4, <1>5, <1>6

(* An answer about a file nothing happened to is exactly what HTTP asks    *)
(* for, for every size, header and way its reads fall into chunks.         *)
THEOREM ExactAnswers == Spec => []Exact
  BY InvExact, InvHolds, PTL
=============================================================================
