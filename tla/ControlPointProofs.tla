------------------------- MODULE ControlPointProofs -------------------------
(***************************************************************************)
(* What a control point asks is understood and answered, whatever it asks, *)
(* however the body is written and whatever the library holds: first how   *)
(* the parser of Soap gets on in a body put together from pieces (find_body*)
(* and the action's start tag, then argument by argument, then the text of *)
(* each), then the routes, then the two services' actions.                 *)
(***************************************************************************)
EXTENDS ControlPoint, LibraryViewsProofs

-----------------------------------------------------------------------------
(* Trimming.                                                               *)

Solid(text, blank) == {i \in DOMAIN text : text[i] # blank}

Trimmed(text, blank) ==
  IF Solid(text, blank) = {} THEN <<>>
  ELSE SubSeq(text, Min(Solid(text, blank)), Max(Solid(text, blank)))

LEMMA TrimIs ==
  ASSUME NEW X, NEW blank, NEW text \in Seq(X)
  PROVE  \/ Solid(text, blank) = {} /\ Trimmed(text, blank) = <<>>
         \/ \E a, b \in 1 .. Len(text) :
              /\ a <= b /\ Trimmed(text, blank) = SubSeq(text, a, b)
              /\ a \in Solid(text, blank) /\ b \in Solid(text, blank)
              /\ \A i \in Solid(text, blank) : a <= i /\ i <= b
<1> DEFINE S == Solid(text, blank)
<1>0. Len(text) \in Nat /\ S \subseteq 1 .. Len(text)
  BY LenProperties DEF Solid
<1>1. Trimmed(text, blank) = IF S = {} THEN <<>> ELSE SubSeq(text, Min(S), Max(S))
  BY DEF Trimmed
<1>2. CASE S = {}
  BY <1>1, <1>2
<1>3. CASE S # {}
  <2>1. S \in SUBSET Nat /\ S \in SUBSET (0 .. Len(text))
    BY <1>0
  <2> HIDE DEF S
  <2>2. PICK a \in S : \A k \in S : a <= k
    BY <1>3, <2>1, LeastExists
  <2>3. PICK b \in S : \A k \in S : k <= b
    BY <1>0, <1>3, <2>1, GreatestExists
  <2>4. Min(S) = a /\ Max(S) = b
    BY <2>1, <2>2, <2>3, MinIs, MaxIs
  <2> QED BY <1>0, <1>1, <1>3, <2>2, <2>3, <2>4 DEF S
<1> QED BY <1>2, <1>3

(* Space around a text makes no difference to what is left of it.          *)
Shifted(u, text, blank, n, p, q) ==
  /\ n \in Nat /\ n = Len(text) /\ p \in Nat /\ q \in Nat /\ Len(u) = p + n + q
  /\ \A i \in 1 .. p : u[i] = blank
  /\ \A i \in 1 .. n : u[p + i] = text[i]
  /\ \A i \in 1 .. q : u[p + n + i] = blank

LEMMA TrimShifted ==
  ASSUME NEW X, NEW blank, NEW text \in Seq(X), NEW u \in Seq(X), NEW n, NEW p, NEW q,
         Shifted(u, text, blank, n, p, q)
  PROVE  Trimmed(u, blank) = Trimmed(text, blank)
<1> DEFINE m == Len(u)
<1>0. /\ n \in Nat /\ n = Len(text) /\ p \in Nat /\ q \in Nat /\ m = p + n + q /\ m \in Nat
      /\ \A i \in 1 .. p : u[i] = blank
      /\ \A i \in 1 .. n : u[p + i] = text[i]
      /\ \A i \in 1 .. q : u[p + n + i] = blank
  BY DEF Shifted
<1> USE <1>0
<1>1. DOMAIN u = 1 .. m /\ DOMAIN text = 1 .. n
  BY LenProperties
<1>2. ASSUME NEW i \in Solid(u, blank) PROVE i \in Int /\ i - p \in Solid(text, blank)
  <2>1. i \in 1 .. m /\ u[i] # blank
    BY <1>1 DEF Solid
  <2>2. i \notin 1 .. p
    BY <2>1
  <2>3. i - (p + n) \notin 1 .. q
    <3>1. p + n + (i - (p + n)) = i
      BY <2>1
    <3> QED BY <2>1, <3>1
  <2>4. i - p \in 1 .. n /\ p + (i - p) = i
    BY <2>1, <2>2, <2>3
  <2>5. u[i] = text[i - p]
    BY <2>4
  <2> QED BY <1>1, <2>1, <2>4, <2>5 DEF Solid
<1>3. ASSUME NEW k \in Solid(text, blank) PROVE k \in 1 .. n /\ p + k \in Solid(u, blank)
  <2>1. k \in 1 .. n /\ text[k] # blank
    BY <1>1 DEF Solid
  <2>2. p + k \in 1 .. m /\ u[p + k] = text[k]
    BY <2>1
  <2> QED BY <1>1, <2>1, <2>2 DEF Solid
<1>4. CASE Solid(text, blank) = {}
  <2>1. Solid(u, blank) = {}
    BY <1>2, <1>4
  <2> QED BY <1>4, <2>1 DEF Trimmed
<1>5. CASE Solid(text, blank) # {}
  <2>1. PICK a, b \in 1 .. n : /\ a <= b /\ Trimmed(text, blank) = SubSeq(text, a, b)
                               /\ a \in Solid(text, blank) /\ b \in Solid(text, blank)
                               /\ \A i \in Solid(text, blank) : a <= i /\ i <= b
    BY <1>5, TrimIs
  <2>2. p + a \in Solid(u, blank) /\ p + b \in Solid(u, blank)
    BY <1>3, <2>1
  <2>3. PICK c, d \in 1 .. m : /\ c <= d /\ Trimmed(u, blank) = SubSeq(u, c, d)
                               /\ c \in Solid(u, blank) /\ d \in Solid(u, blank)
                               /\ \A i \in Solid(u, blank) : c <= i /\ i <= d
    BY <2>2, TrimIs
  <2>4. c = p + a /\ d = p + b
    <3>1. c - p \in Solid(text, blank) /\ d - p \in Solid(text, blank)
      BY <1>2, <2>3
    <3>2. c <= p + a /\ p + b <= d /\ a <= c - p /\ d - p <= b
      BY <2>1, <2>2, <2>3, <3>1
    <3> QED BY <3>2
  <2>5. /\ SubSeq(text, a, b) \in Seq(X) /\ Len(SubSeq(text, a, b)) = b - a + 1
        /\ \A i \in 1 .. b - a + 1 : SubSeq(text, a, b)[i] = text[a + i - 1]
    <3>1. a \in Int /\ b \in Int /\ \A i \in a .. b : i \in 1 .. n
      OBVIOUS
    <3>2. \A i \in a .. b : text[i] \in X
      BY <3>1, ElementOfSeq
    <3>3. a <= b
      BY <2>1
    <3> QED BY <3>1, <3>2, <3>3, SubSeqProperties
  <2>6. /\ SubSeq(u, c, d) \in Seq(X) /\ Len(SubSeq(u, c, d)) = d - c + 1
        /\ \A i \in 1 .. d - c + 1 : SubSeq(u, c, d)[i] = u[c + i - 1]
    <3>1. \A i \in c .. d : i \in 1 .. m
      OBVIOUS
    <3>2. \A i \in c .. d : u[i] \in X
      BY <3>1, ElementOfSeq
    <3> QED BY <2>3, <3>2, SubSeqProperties, SMTT(30)
  <2>7. d - c + 1 = b - a + 1 /\ b - a + 1 \in Nat
    BY <2>1, <2>4
  <2>8. ASSUME NEW i \in 1 .. b - a + 1 PROVE SubSeq(u, c, d)[i] = SubSeq(text, a, b)[i]
    <3>1. a + i - 1 \in 1 .. n /\ c + i - 1 = p + (a + i - 1)
      BY <2>1, <2>4
    <3>2. SubSeq(u, c, d)[i] = u[p + (a + i - 1)] /\ SubSeq(text, a, b)[i] = text[a + i - 1]
      BY <2>5, <2>6, <2>7, <3>1
    <3> QED BY <3>1, <3>2
  <2>9. SubSeq(u, c, d) = SubSeq(text, a, b)
    <3>1. PICK s, t, k : s = SubSeq(u, c, d) /\ t = SubSeq(text, a, b) /\ k = b - a + 1
      OBVIOUS
    <3>2. s \in Seq(X) /\ t \in Seq(X) /\ Len(s) = k /\ Len(t) = k
      BY <2>5, <2>6, <2>7, <3>1
    <3>3. \A i \in 1 .. k : s[i] = t[i]
      BY <2>8, <3>1
    <3> HIDE <1>0
    <3>4. Len(s) = Len(t) /\ \A i \in 1 .. Len(s) : s[i] = t[i]
      BY <3>2, <3>3
    <3>5. s = t
      BY <3>2, <3>4, SeqsEqual
    <3> QED BY <3>1, <3>5
  <2> QED BY <2>1, <2>3, <2>9
<1> QED BY <1>4, <1>5

LEMMA TrimPadded ==
  ASSUME NEW X, NEW text \in Seq(X), NEW blank,
         NEW before \in Seq({blank}), NEW after \in Seq({blank})
  PROVE  Trimmed((before \o text) \o after, blank) = Trimmed(text, blank)
<1> DEFINE Y == X \cup {blank}
<1>1. text \in Seq(Y) /\ before \in Seq(Y) /\ after \in Seq(Y)
  BY SeqMonotonic
<1>2. PICK front, u, n, p, q, m :
        /\ front = before \o text /\ u = front \o after
        /\ n = Len(text) /\ p = Len(before) /\ q = Len(after) /\ m = Len(u)
  OBVIOUS
<1> HIDE DEF Y
<1>3. /\ front \in Seq(Y) /\ Len(front) = p + n /\ p \in Nat /\ n \in Nat
      /\ \A i \in 1 .. p : front[i] = before[i]
      /\ \A i \in 1 .. n : front[p + i] = text[i]
  BY <1>1, <1>2, ConcatIs
<1>4. /\ u \in Seq(Y) /\ Len(u) = p + n + q /\ q \in Nat
      /\ \A i \in 1 .. p + n : u[i] = front[i]
      /\ \A i \in 1 .. q : u[p + n + i] = after[i]
  BY <1>1, <1>2, <1>3, ConcatIs
<1>5. /\ \A i \in 1 .. p : before[i] = blank
      /\ \A i \in 1 .. q : after[i] = blank
  <2>1. before \in [1 .. p -> {blank}] /\ after \in [1 .. q -> {blank}]
    BY <1>2, LenProperties
  <2> QED BY <2>1
<1>6. /\ \A i \in 1 .. p : i \in 1 .. p + n
      /\ \A i \in 1 .. n : p + i \in 1 .. p + n
      /\ m \in Nat /\ m = p + n + q
  BY <1>2, <1>3, <1>4
<1>7. /\ \A i \in 1 .. p : u[i] = blank
      /\ \A i \in 1 .. n : u[p + i] = text[i]
      /\ \A i \in 1 .. q : u[p + n + i] = blank
  BY <1>3, <1>4, <1>5, <1>6
<1>8. Trimmed(u, blank) = Trimmed(text, blank)
  <2>1. Shifted(u, text, blank, n, p, q)
    BY <1>2, <1>3, <1>4, <1>6, <1>7 DEF Shifted
  <2> QED BY <1>1, <1>4, <2>1, TrimShifted
<1> QED BY <1>2, <1>8

LEMMA TrimIsTrimmed == ASSUME NEW text PROVE trim(text) = Trimmed(text, " ")
  BY DEF trim, Trimmed, Solid

-----------------------------------------------------------------------------
(* Joining.                                                                *)

(* Texts of one token each make a text of these tokens.                    *)
LEMMA FlattenTokens ==
  ASSUME NEW X, NEW text \in Seq(X), NEW n, n = Len(text), NEW seqs, seqs = [i \in 1 .. n |-> <<text[i]>>]
  PROVE  FlattenSeq(seqs) = text
<1>1. n \in Nat /\ \A i \in 1 .. n : text[i] \in X
  BY LenProperties, ElementOfSeq
<1>2. ASSUME NEW x \in X PROVE <<x>> \in Seq(X) /\ Len(<<x>>) = 1 /\ <<x>>[1] = x
  OBVIOUS
<1>3. seqs \in [1 .. n -> Seq(X)]
  BY <1>1, <1>2
<1>4. seqs \in Seq(Seq(X)) /\ Len(seqs) = n
  BY <1>1, <1>3
<1>5. \A i \in 1 .. n : seqs[i] = <<text[i]>>
  OBVIOUS
<1>6. PICK F : Joins(F, seqs, X)
  BY <1>4, FlattenJoins
<1> DEFINE S == {i \in Nat : i <= n => Len(F[i]) = i /\ \A k \in 1 .. i : F[i][k] = text[k]}
<1>7. 0 \in S
  BY <1>6, EmptySeq DEF Joins
<1>8. ASSUME NEW i \in Nat, i \in S PROVE i + 1 \in S
  <2> SUFFICES ASSUME i + 1 <= n
               PROVE  Len(F[i + 1]) = i + 1 /\ \A k \in 1 .. i + 1 : F[i + 1][k] = text[k]
    OBVIOUS
  <2>1. i + 1 \in 1 .. n /\ (i + 1) - 1 = i /\ i \in 0 .. n
    BY <1>1
  <2>2. Len(F[i]) = i /\ \A k \in 1 .. i : F[i][k] = text[k]
    BY <1>8, <2>1
  <2>3. F[i + 1] = F[i] \o <<text[i + 1]>> /\ F[i] \in Seq(X)
    BY <1>4, <1>5, <1>6, <2>1 DEF Joins
  <2>4. text[i + 1] \in X
    BY <1>1, <2>1
  <2>5. /\ Len(F[i + 1]) = i + 1
        /\ \A k \in 1 .. i : F[i + 1][k] = F[i][k]
        /\ F[i + 1][i + 1] = text[i + 1]
    <3>1. PICK x, s : x = text[i + 1] /\ s = F[i]
      OBVIOUS
    <3>2. /\ Len(s \o <<x>>) = i + 1
          /\ \A k \in 1 .. i : (s \o <<x>>)[k] = s[k]
          /\ (s \o <<x>>)[i + 1] = x
      <4>1. <<x>> \in Seq(X) /\ Len(<<x>>) = 1 /\ <<x>>[1] = x /\ s \in Seq(X) /\ Len(s) = i
        BY <1>2, <2>2, <2>3, <2>4, <3>1
      <4> QED BY <4>1, ConcatIs
    <3> QED BY <2>3, <3>1, <3>2
  <2>6. \A k \in 1 .. i + 1 : k \in 1 .. i \/ k = i + 1
    OBVIOUS
  <2> QED BY <2>2, <2>5, <2>6
<1> HIDE DEF S
<1>9. n \in S
  BY <1>1, <1>7, <1>8, NatInduct
<1>10. Len(F[n]) = n /\ \A k \in 1 .. n : F[n][k] = text[k]
  BY <1>1, <1>9 DEF S
<1>11. F[n] \in Seq(X) /\ FlattenSeq(seqs) = F[n]
  BY <1>1, <1>4, <1>6 DEF Joins
<1> QED BY <1>10, <1>11, SeqsEqual

-----------------------------------------------------------------------------
(* The reader's way through the events.                                    *)

(* j is the first place from i on where an event of these kinds is, and    *)
(* the reader comes that far.                                              *)
Nearest(events, i, j, kinds) ==
  /\ i \in Nat /\ j \in i .. Len(events) /\ Len(events) \in Nat
  /\ events[j].kind \in kinds /\ "bad" \notin kinds
  /\ \A k \in i .. j - 1 : events[k].kind # "bad" /\ events[k].kind \notin kinds

Tags == {"start", "empty", "end"}

LEMMA TagReached ==
  ASSUME NEW events, NEW i, NEW j, Nearest(events, i, j, Tags)
  PROVE  Reach(events, i, LAMBDA e : e.kind \in {"start", "empty", "end"}) = j
<1> DEFINE I == {k \in i .. Len(events) : events[k].kind = "bad" \/ events[k].kind \in {"start", "empty", "end"}}
<1>1. I \in SUBSET Nat /\ j \in I
  BY DEF Nearest, Tags
<1>2. \A k \in I : j <= k
  BY DEF Nearest, Tags
<1>3. I # {} /\ Min(I) = j
  BY <1>1, <1>2, MinIs
<1>4. FirstFrom(events, i, LAMBDA e : e.kind = "bad" \/ e.kind \in {"start", "empty", "end"}) = j
  BY <1>3 DEF FirstFrom, SelectInSubSeq
<1>5. events[j].kind # "bad"
  BY DEF Nearest
<1> QED BY <1>4, <1>5 DEF Reach

LEMMA EndReached ==
  ASSUME NEW events, NEW i, NEW j, Nearest(events, i, j, {"end"})
  PROVE  Reach(events, i, LAMBDA e : e.kind = "end") = j
<1> DEFINE I == {k \in i .. Len(events) : events[k].kind = "bad" \/ events[k].kind = "end"}
<1>1. I \in SUBSET Nat /\ j \in I
  BY DEF Nearest
<1>2. \A k \in I : j <= k
  BY DEF Nearest
<1>3. I # {} /\ Min(I) = j
  BY <1>1, <1>2, MinIs
<1>4. FirstFrom(events, i, LAMBDA e : e.kind = "bad" \/ e.kind = "end") = j
  BY <1>3 DEF FirstFrom, SelectInSubSeq
<1>5. events[j].kind # "bad"
  BY DEF Nearest
<1> QED BY <1>4, <1>5 DEF Reach

LEMMA OpenReached ==
  ASSUME NEW events, NEW i, NEW j, Nearest(events, i, j, {"start", "empty"})
  PROVE  Reach(events, i, LAMBDA e : e.kind \in {"start", "empty"}) = j
<1> DEFINE I == {k \in i .. Len(events) : events[k].kind = "bad" \/ events[k].kind \in {"start", "empty"}}
<1>1. I \in SUBSET Nat /\ j \in I
  BY DEF Nearest
<1>2. \A k \in I : j <= k
  BY DEF Nearest
<1>3. I # {} /\ Min(I) = j
  BY <1>1, <1>2, MinIs
<1>4. FirstFrom(events, i, LAMBDA e : e.kind = "bad" \/ e.kind \in {"start", "empty"}) = j
  BY <1>3 DEF FirstFrom, SelectInSubSeq
<1>5. events[j].kind # "bad"
  BY DEF Nearest
<1> QED BY <1>4, <1>5 DEF Reach

LEMMA BodyReached ==
  ASSUME NEW events, Len(events) \in Nat, NEW j \in 1 .. Len(events), events[j] = Event("start", "Body"),
         \A k \in 1 .. j - 1 : events[k].kind # "bad" /\ events[k] # Event("start", "Body")
  PROVE  find_body(events) = j
<1> DEFINE I == {k \in 1 .. Len(events) : events[k].kind = "bad" \/ events[k] = Event("start", "Body")}
<1>1. I \in SUBSET Nat /\ j \in I
  OBVIOUS
<1>2. \A k \in I : j <= k
  OBVIOUS
<1>3. I # {} /\ Min(I) = j
  BY <1>1, <1>2, MinIs
<1>4. FirstFrom(events, 1, LAMBDA e : e.kind = "bad" \/ e = Event("start", "Body")) = j
  BY <1>3 DEF FirstFrom, SelectInSubSeq
<1>5. events[j].kind # "bad"
  BY DEF Event
<1> QED BY <1>4, <1>5 DEF Reach, find_body

(* It never goes back.                                                     *)
LEMMA TagAhead ==
  ASSUME NEW events, Len(events) \in Nat, NEW i \in Nat, NEW j,
         j = Reach(events, i, LAMBDA e : e.kind \in {"start", "empty", "end"})
  PROVE  j = 0 \/ (j \in i .. Len(events) /\ events[j].kind \in Tags)
<1> DEFINE I == {k \in i .. Len(events) : events[k].kind = "bad" \/ events[k].kind \in {"start", "empty", "end"}}
           first == FirstFrom(events, i, LAMBDA e : e.kind = "bad" \/ e.kind \in {"start", "empty", "end"})
<1>1. first = IF I # {} THEN Min(I) ELSE 0
  BY DEF FirstFrom, SelectInSubSeq
<1>2. j = IF first # 0 /\ events[first].kind = "bad" THEN 0 ELSE first
  BY DEF Reach
<1>3. CASE I # {}
  <2>1. I \in SUBSET Nat
    OBVIOUS
  <2>2. \A k \in I : k \in i .. Len(events) /\ (events[k].kind = "bad" \/ events[k].kind \in Tags)
    BY DEF Tags
  <2> HIDE DEF I
  <2>3. PICK m \in I : \A k \in I : m <= k
    BY <1>3, <2>1, LeastExists
  <2>4. Min(I) = m
    BY <2>1, <2>3, MinIs
  <2>5. first = m
    BY <1>1, <1>3, <2>4
  <2> HIDE DEF first
  <2> QED BY <1>2, <2>2, <2>3, <2>5
<1>4. CASE I = {}
  <2>1. first = 0
    BY <1>1, <1>4
  <2> HIDE DEF first
  <2> QED BY <1>2, <2>1
<1> QED BY <1>3, <1>4

LEMMA EndAhead ==
  ASSUME NEW events, Len(events) \in Nat, NEW i \in Nat, NEW j,
         j = Reach(events, i, LAMBDA e : e.kind = "end")
  PROVE  j = 0 \/ j \in i .. Len(events)
<1> DEFINE I == {k \in i .. Len(events) : events[k].kind = "bad" \/ events[k].kind = "end"}
           first == FirstFrom(events, i, LAMBDA e : e.kind = "bad" \/ e.kind = "end")
<1>1. first = IF I # {} THEN Min(I) ELSE 0
  BY DEF FirstFrom, SelectInSubSeq
<1>2. j = IF first # 0 /\ events[first].kind = "bad" THEN 0 ELSE first
  BY DEF Reach
<1>3. CASE I # {}
  <2>1. I \in SUBSET Nat /\ \A k \in I : k \in i .. Len(events)
    OBVIOUS
  <2> HIDE DEF I
  <2>2. PICK m \in I : \A k \in I : m <= k
    BY <1>3, <2>1, LeastExists
  <2>3. Min(I) = m
    BY <2>1, <2>2, MinIs
  <2>4. first = m
    BY <1>1, <1>3, <2>3
  <2> HIDE DEF first
  <2> QED BY <1>2, <2>1, <2>2, <2>4
<1>4. CASE I = {}
  <2>1. first = 0
    BY <1>1, <1>4
  <2> HIDE DEF first
  <2> QED BY <1>2, <2>1
<1> QED BY <1>3, <1>4

-----------------------------------------------------------------------------
(* The arguments, one after the other.                                     *)

LEMMA TurnLooksAhead ==
  ASSUME NEW events, Len(events) \in Nat, NEW i \in Nat, NEW f, NEW g,
         \A k \in i + 1 .. Len(events) + 1 : f[k] = g[k]
  PROVE  arguments_from(events, i, f) = arguments_from(events, i, g)
<1>1. PICK j : j = Reach(events, i, LAMBDA e : e.kind \in {"start", "empty", "end"})
  OBVIOUS
<1>2. PICK end : end = Reach(events, j + 1, LAMBDA e : e.kind = "end")
  OBVIOUS
<1>3. j = 0 \/ (j \in i .. Len(events) /\ events[j].kind \in Tags)
  BY <1>1, TagAhead
<1>4. CASE j = 0
  BY <1>1, <1>4 DEF arguments_from
<1>5. CASE j # 0 /\ events[j].kind = "end"
  BY <1>1, <1>5 DEF arguments_from
<1>6. CASE j # 0 /\ events[j].kind = "empty"
  <2>1. f[j + 1] = g[j + 1]
    BY <1>3, <1>6
  <2> QED BY <1>1, <1>6, <2>1 DEF arguments_from
<1>7. CASE j # 0 /\ events[j].kind = "start"
  <2>1. CASE end = 0
    BY <1>1, <1>2, <1>7, <2>1 DEF arguments_from
  <2>2. CASE end # 0
    <3>1. j + 1 \in Nat
      BY <1>3, <1>7
    <3>2. end \in j + 1 .. Len(events)
      BY <1>2, <2>2, <3>1, EndAhead
    <3>3. f[end + 1] = g[end + 1]
      BY <1>3, <1>7, <3>2
    <3> QED BY <1>1, <1>2, <1>7, <2>2, <3>3 DEF arguments_from
  <2> QED BY <2>1, <2>2
<1> QED BY <1>3, <1>4, <1>5, <1>6, <1>7 DEF Tags

(* The loop has a value from wherever it starts, which the next turn gives.*)
LEMMA TurnsExist ==
  ASSUME NEW events, Len(events) \in Nat
  PROVE  \E f : f = [i \in 1 .. Len(events) + 1 |-> arguments_from(events, i, f)]
<1> DEFINE n == Len(events) + 1
           Good(f, m) == /\ f = [i \in 1 .. n |-> f[i]]
                         /\ \A i \in 1 .. n : i > n - m => f[i] = arguments_from(events, i, f)
           S == {m \in Nat : \E f : Good(f, m)}
<1>1. 0 \in S
  <2> DEFINE f == [i \in 1 .. n |-> 0]
  <2>1. Good(f, 0)
    OBVIOUS
  <2> QED BY <2>1
<1>2. ASSUME NEW m \in Nat, m \in S PROVE m + 1 \in S
  <2>1. PICK f : Good(f, m)
    BY <1>2
  <2>2. PICK j : j = n - m
    OBVIOUS
  <2>3. CASE j \in 1 .. n
    <3> DEFINE g == [i \in 1 .. n |-> IF i = j THEN arguments_from(events, j, f) ELSE f[i]]
    <3>1. /\ g = [i \in 1 .. n |-> g[i]] /\ g[j] = arguments_from(events, j, f)
          /\ \A i \in 1 .. n : i # j => g[i] = f[i]
      BY <2>3
    <3> HIDE DEF g
    <3>2. ASSUME NEW i \in 1 .. n, i > n - (m + 1) PROVE g[i] = arguments_from(events, i, g)
      <4>1. \A k \in i + 1 .. n : k \in 1 .. n /\ k # j
        BY <2>2, <3>2
      <4>2. \A k \in i + 1 .. Len(events) + 1 : f[k] = g[k]
        BY <3>1, <4>1
      <4>3. arguments_from(events, i, f) = arguments_from(events, i, g)
        <5>1. i \in Nat
          OBVIOUS
        <5> QED BY <4>2, <5>1, TurnLooksAhead
      <4>4. CASE i = j
        BY <3>1, <4>3, <4>4
      <4>5. CASE i # j
        <5>1. i > n - m
          BY <2>2, <3>2, <4>5
        <5>2. f[i] = arguments_from(events, i, f) /\ g[i] = f[i]
          BY <2>1, <3>1, <4>5, <5>1
        <5> QED BY <4>3, <5>2
      <4> QED BY <4>4, <4>5
    <3>3. Good(g, m + 1)
      BY <3>1, <3>2
    <3> HIDE DEF Good
    <3> QED BY <3>3
  <2>4. CASE j \notin 1 .. n
    <3>1. \A i \in 1 .. n : i > n - (m + 1) => i > n - m
      BY <2>2, <2>4
    <3>2. Good(f, m + 1)
      BY <2>1, <3>1
    <3> HIDE DEF Good
    <3> QED BY <3>2
  <2> QED BY <2>3, <2>4
<1>3. n \in Nat /\ n \in S
  <2>1. n \in Nat
    OBVIOUS
  <2> HIDE DEF S
  <2> QED BY <1>1, <1>2, <2>1, NatInduct
<1>4. PICK f : Good(f, n)
  BY <1>3
<1>5. \A i \in 1 .. n : i > n - n
  OBVIOUS
<1>6. f = [i \in 1 .. n |-> arguments_from(events, i, f)]
  BY <1>4, <1>5
<1> QED BY <1>6

LEMMA ReadTurns ==
  ASSUME NEW events, Len(events) \in Nat
  PROVE  \E f : \A i \in 1 .. Len(events) + 1 :
                  /\ f[i] = arguments_from(events, i, f) /\ read_arguments(events, i) = f[i]
<1> DEFINE f == CHOOSE from : from = [i \in 1 .. Len(events) + 1 |-> arguments_from(events, i, from)]
<1>1. f = [i \in 1 .. Len(events) + 1 |-> arguments_from(events, i, f)]
  BY TurnsExist
<1>2. ASSUME NEW i PROVE read_arguments(events, i) = f[i]
  BY DEF read_arguments
<1> HIDE DEF f
<1> QED BY <1>1, <1>2

-----------------------------------------------------------------------------
(* What was written, and where it stands.                                  *)

(* From behind the first o events on, these come.                          *)
At(events, o, piece) ==
  /\ o \in Nat /\ Len(piece) \in Nat /\ Len(events) \in Nat
  /\ o + Len(piece) <= Len(events)
  /\ \A k \in 1 .. Len(piece) : events[o + k] = piece[k]

LEMMA AtStart ==
  ASSUME NEW events \in Seq(Events)
  PROVE  At(events, 0, events)
<1>1. Len(events) \in Nat
  BY LenProperties
<1> QED BY <1>1 DEF At

LEMMA AtConcat ==
  ASSUME NEW events, NEW o, NEW s \in Seq(Events), NEW t \in Seq(Events), At(events, o, s \o t)
  PROVE  At(events, o, s) /\ At(events, o + Len(s), t)
<1>1. PICK st, m, n : st = s \o t /\ m = Len(s) /\ n = Len(t)
  OBVIOUS
<1>2. /\ m \in Nat /\ n \in Nat /\ Len(st) = m + n
      /\ \A i \in 1 .. m : st[i] = s[i]
      /\ \A i \in 1 .. n : st[m + i] = t[i]
  BY <1>1, ConcatIs
<1>3. /\ o \in Nat /\ Len(events) \in Nat /\ o + (m + n) <= Len(events)
      /\ \A k \in 1 .. m + n : events[o + k] = st[k]
  BY <1>1, <1>2 DEF At
<1>4. /\ \A i \in 1 .. m : i \in 1 .. m + n
      /\ \A i \in 1 .. n : m + i \in 1 .. m + n /\ (o + m) + i = o + (m + i)
      /\ o + m \in Nat /\ o + m <= Len(events) /\ (o + m) + n <= Len(events)
  BY <1>2, <1>3
<1>5. At(events, o, s)
  <2>1. \A k \in 1 .. m : events[o + k] = s[k]
    BY <1>2, <1>3, <1>4
  <2> QED BY <1>1, <1>2, <1>3, <1>4, <2>1 DEF At
<1>6. At(events, o + m, t)
  <2>1. \A k \in 1 .. n : events[(o + m) + k] = t[k]
    BY <1>2, <1>3, <1>4
  <2> QED BY <1>1, <1>2, <1>3, <1>4, <2>1 DEF At
<1> QED BY <1>1, <1>5, <1>6

LEMMA SingleIs ==
  ASSUME NEW X, NEW x \in X
  PROVE  <<x>> \in Seq(X) /\ Len(<<x>>) = 1 /\ <<x>>[1] = x
  OBVIOUS

LEMMA EventIs ==
  ASSUME NEW kind \in Kinds, NEW name \in Labels
  PROVE  /\ Event(kind, name) \in Events
         /\ Event(kind, name).kind = kind /\ Event(kind, name).name = name
  BY DEF Event, Events

LEMMA ElementIs ==
  ASSUME NEW name \in Labels, NEW content \in Seq(Events), NEW n, n = Len(content)
  PROVE  /\ n \in Nat
         /\ Element(name, content) \in Seq(Events) /\ Len(Element(name, content)) = n + 2
<1>1. PICK start, end, s, e, sc :
        /\ start = Event("start", name) /\ end = Event("end", name)
        /\ s = <<start>> /\ e = <<end>> /\ sc = s \o content
  OBVIOUS
<1>2. start \in Events /\ end \in Events
  <2>1. "start" \in Kinds /\ "end" \in Kinds
    BY DEF Kinds
  <2> QED BY <1>1, <2>1, EventIs
<1>3. s \in Seq(Events) /\ Len(s) = 1 /\ s[1] = start
  BY <1>1, <1>2, SingleIs
<1>4. e \in Seq(Events) /\ Len(e) = 1 /\ e[1] = end
  BY <1>1, <1>2, SingleIs
<1>5. sc \in Seq(Events) /\ Len(sc) = 1 + n /\ n \in Nat
  BY <1>1, <1>3, ConcatIs
<1>6. sc \o e \in Seq(Events) /\ Len(sc \o e) = Len(sc) + 1
  <2>1. sc \o e \in Seq(Events) /\ Len(sc \o e) = Len(sc) + Len(e)
    BY <1>4, <1>5, ConcatProperties
  <2> QED BY <1>4, <2>1
<1>7. Element(name, content) = sc \o e
  BY <1>1 DEF Element
<1>8. Len(sc \o e) = n + 2
  BY <1>5, <1>6
<1> QED BY <1>5, <1>6, <1>7, <1>8

LEMMA ElementAt ==
  ASSUME NEW name \in Labels, NEW content \in Seq(Events), NEW n, n = Len(content),
         NEW events, NEW o, At(events, o, Element(name, content))
  PROVE  /\ n \in Nat
         /\ events[o + 1] = Event("start", name)
         /\ At(events, o + 1, content)
         /\ events[o + n + 2] = Event("end", name)
         /\ o + n + 2 <= Len(events)
<1>1. PICK start, end, s, e, sc :
        /\ start = Event("start", name) /\ end = Event("end", name)
        /\ s = <<start>> /\ e = <<end>> /\ sc = s \o content
  OBVIOUS
<1>2. start \in Events /\ end \in Events
  <2>1. "start" \in Kinds /\ "end" \in Kinds
    BY DEF Kinds
  <2> QED BY <1>1, <2>1, EventIs
<1>3. s \in Seq(Events) /\ Len(s) = 1 /\ s[1] = start
  BY <1>1, <1>2, SingleIs
<1>4. e \in Seq(Events) /\ Len(e) = 1 /\ e[1] = end
  BY <1>1, <1>2, SingleIs
<1>5. sc \in Seq(Events) /\ Len(sc) = 1 + n /\ n \in Nat
  BY <1>1, <1>3, ConcatIs
<1>6. Element(name, content) = sc \o e
  BY <1>1 DEF Element
<1>7. At(events, o, sc) /\ At(events, o + Len(sc), e)
  BY <1>4, <1>5, <1>6, AtConcat
<1>8. At(events, o, s) /\ At(events, o + Len(s), content)
  BY <1>1, <1>3, <1>7, AtConcat
<1>9. o \in Nat /\ events[o + 1] = s[1]
  BY <1>3, <1>8 DEF At
<1>10. o + (1 + n) \in Nat /\ events[o + (1 + n) + 1] = e[1] /\ o + (1 + n) + 1 <= Len(events)
  BY <1>4, <1>5, <1>7 DEF At
<1>11. o + (1 + n) + 1 = o + n + 2
  BY <1>5, <1>9
<1> QED BY <1>1, <1>3, <1>4, <1>5, <1>8, <1>9, <1>10, <1>11


-----------------------------------------------------------------------------
(* Texts, written and read.                                                *)

(* What the reader makes of this event is this token.                      *)
Means(e, token) ==
  \/ e = Event("text", token)
  \/ e.kind = "ref" /\ resolve_general_ref(e.name) = {<<token>>}

Spells(events, text) ==
  /\ Len(events) = Len(text)
  /\ \A i \in 1 .. Len(text) : Means(events[i], text[i])

LEMMA SpellingRead ==
  ASSUME NEW X, NEW events \in Seq(Events), NEW text \in Seq(X), Spells(events, text)
  PROVE  read_text_until_end(events) = {trim(text)}
<1> DEFINE Piece(e) == CASE e.kind = "text" -> {<<e.name>>}
                         [] e.kind = "ref"  -> resolve_general_ref(e.name)
                         [] OTHER           -> {<<>>}
           Join == [i \in DOMAIN events |-> CHOOSE t \in Piece(events[i]) : TRUE]
<1>1. PICK n : n = Len(text)
  OBVIOUS
<1>2. DOMAIN events = 1 .. n /\ n \in Nat
  BY <1>1, LenProperties DEF Spells
<1>3. ASSUME NEW i \in 1 .. n PROVE Piece(events[i]) = {<<text[i]>>}
  <2>1. Means(events[i], text[i])
    BY <1>1 DEF Spells
  <2>2. CASE events[i] = Event("text", text[i])
    <3>1. events[i].kind = "text" /\ events[i].name = text[i]
      BY <2>2 DEF Event
    <3> QED BY <3>1
  <2>3. CASE events[i].kind = "ref" /\ resolve_general_ref(events[i].name) = {<<text[i]>>}
    BY <2>3
  <2> QED BY <2>1, <2>2, <2>3 DEF Means
<1>4. read_text_until_end(events) =
        IF \A i \in DOMAIN events : Piece(events[i]) # {} THEN {trim(FlattenSeq(Join))} ELSE {}
  BY DEF read_text_until_end
<1> HIDE DEF Piece
<1>5. ASSUME NEW i \in 1 .. n PROVE Piece(events[i]) # {} /\ (CHOOSE t \in Piece(events[i]) : TRUE) = <<text[i]>>
  BY <1>3
<1>6. Join = [i \in 1 .. n |-> <<text[i]>>]
  BY <1>2, <1>5
<1> HIDE DEF Join
<1>7. FlattenSeq(Join) = text
  BY <1>1, <1>6, FlattenTokens
<1> QED BY <1>2, <1>4, <1>5, <1>7

LEMMA SpellingJoined ==
  ASSUME NEW X, NEW Y, NEW e1 \in Seq(X), NEW t1 \in Seq(Y), NEW e2 \in Seq(X), NEW t2 \in Seq(Y),
         Spells(e1, t1), Spells(e2, t2)
  PROVE  Spells(e1 \o e2, t1 \o t2)
<1>1. PICK m, n, e, t : m = Len(t1) /\ n = Len(t2) /\ e = e1 \o e2 /\ t = t1 \o t2
  OBVIOUS
<1>2. m = Len(e1) /\ n = Len(e2)
  BY <1>1 DEF Spells
<1>3. /\ m \in Nat /\ n \in Nat /\ Len(e) = m + n
      /\ \A i \in 1 .. m : e[i] = e1[i]
      /\ \A i \in 1 .. n : e[m + i] = e2[i]
  BY <1>1, <1>2, ConcatIs
<1>4. /\ Len(t) = m + n
      /\ \A i \in 1 .. m : t[i] = t1[i]
      /\ \A i \in 1 .. n : t[m + i] = t2[i]
  BY <1>1, ConcatIs
<1>5. ASSUME NEW i \in 1 .. m + n PROVE Means(e[i], t[i])
  <2>1. CASE i \in 1 .. m
    BY <1>1, <1>3, <1>4, <2>1 DEF Spells
  <2>2. CASE i \notin 1 .. m
    <3>1. PICK k \in 1 .. n : i = m + k
      <4>1. i - m \in 1 .. n /\ i = m + (i - m)
        BY <1>3, <2>2
      <4> QED BY <4>1
    <3> QED BY <1>1, <1>3, <1>4, <3>1 DEF Spells
  <2> QED BY <2>1, <2>2
<1> QED BY <1>1, <1>3, <1>4, <1>5 DEF Spells

(* References by whichever of these names mean what they stand for.        *)
Predefined(references) ==
  /\ DOMAIN references \subseteq Labels
  /\ \A name \in DOMAIN references : resolve_general_ref(name) = {<<references[name]>>}

LEMMA ReferencesPredefined ==
  /\ Predefined(Entities)
  /\ \A style \in Styles : Predefined(style.references)
<1>1. DOMAIN Entities = {"amp", "lt", "gt", "apos", "quot"}
  BY DEF Entities
<1>2. DOMAIN CharRefs = {"#38", "#60", "#62", "#39", "#34"}
  BY DEF CharRefs
<1>3. \A name \in DOMAIN CharRefs : name \notin DOMAIN Entities
  BY <1>1, <1>2
<1>4. ASSUME NEW name \in DOMAIN CharRefs PROVE resolve_general_ref(name) = {<<CharRefs[name]>>}
  BY <1>3 DEF resolve_general_ref
<1>5. ASSUME NEW name \in DOMAIN Entities PROVE resolve_general_ref(name) = {<<Entities[name]>>}
  BY <1>3 DEF resolve_general_ref
<1>6. Predefined(Entities)
  BY <1>5 DEF Predefined, Labels
<1>7. ASSUME NEW style \in Styles PROVE Predefined(style.references)
  <2>1. PICK references : references = style.references
    OBVIOUS
  <2>2. /\ DOMAIN references \subseteq STRING
        /\ \A name \in DOMAIN references :
             \/ name \in DOMAIN CharRefs /\ references[name] = CharRefs[name]
             \/ name \in DOMAIN Entities /\ references[name] = Entities[name]
    BY <2>1, StylesAssumption
  <2>3. ASSUME NEW name \in DOMAIN references
        PROVE  resolve_general_ref(name) = {<<references[name]>>}
    BY <1>4, <1>5, <2>2
  <2>4. STRING \subseteq Labels
    BY DEF Labels
  <2> QED BY <2>1, <2>2, <2>3, <2>4 DEF Predefined
<1> QED BY <1>6, <1>7

LEMMA EscapedSpells ==
  ASSUME NEW text \in Seq(Labels), NEW references, Predefined(references)
  PROVE  /\ EscapedAs(text, references) \in Seq(Events)
         /\ Spells(EscapedAs(text, references), text)
<1> DEFINE For(token) == {name \in DOMAIN references : references[name] = token}
           Spelt(token) == IF For(token) = {} THEN Event("text", token)
                           ELSE Event("ref", CHOOSE name \in For(token) : TRUE)
<1>1. ASSUME NEW token \in Labels PROVE Spelt(token) \in Events /\ Means(Spelt(token), token)
  <2>1. "text" \in Kinds /\ "ref" \in Kinds
    BY DEF Kinds
  <2>2. CASE For(token) = {}
    BY <2>1, <2>2, EventIs DEF Means
  <2>3. CASE For(token) # {}
    <3>1. PICK name : name = CHOOSE k \in For(token) : TRUE
      OBVIOUS
    <3>2. name \in DOMAIN references /\ references[name] = token
      BY <2>3, <3>1
    <3>3. name \in Labels /\ resolve_general_ref(name) = {<<token>>}
      BY <2>1, <3>2 DEF Predefined
    <3>4. Spelt(token) = Event("ref", name)
      BY <2>3, <3>1
    <3> HIDE DEF Spelt
    <3> QED BY <2>1, <3>3, <3>4, EventIs DEF Means
  <2> QED BY <2>2, <2>3
<1>2. PICK n : n = Len(text)
  OBVIOUS
<1>3. n \in Nat /\ DOMAIN text = 1 .. n /\ \A i \in 1 .. n : text[i] \in Labels
  BY <1>2, LenProperties, ElementOfSeq
<1>4. EscapedAs(text, references) = [i \in 1 .. n |-> Spelt(text[i])]
  BY <1>3 DEF EscapedAs
<1> HIDE DEF Spelt
<1>5. PICK e : e = EscapedAs(text, references)
  OBVIOUS
<1>6. e \in [1 .. n -> Events] /\ \A i \in 1 .. n : Means(e[i], text[i])
  BY <1>1, <1>3, <1>4, <1>5
<1>7. e \in Seq(Events) /\ Len(e) = n
  BY <1>3, <1>6
<1> QED BY <1>2, <1>5, <1>6, <1>7 DEF Spells

(* White space.                                                            *)
LEMMA PadSpells ==
  ASSUME NEW pad \in Seq({Event("text", " ")})
  PROVE  /\ pad \in Seq(Events)
         /\ \E spaces \in Seq({" "}) : Spells(pad, spaces)
<1>1. PICK n, space : n = Len(pad) /\ space = " "
  OBVIOUS
<1>2. n \in Nat /\ pad \in [1 .. n -> {Event("text", " ")}]
  BY <1>1, LenProperties
<1>3. Event("text", " ") \in Events
  BY EventIs DEF Kinds, Labels
<1>4. pad \in Seq(Events)
  BY <1>3, SeqMonotonic
<1>5. PICK spaces : spaces = [i \in 1 .. n |-> space]
  OBVIOUS
<1>6. spaces \in Seq({space}) /\ Len(spaces) = n /\ \A i \in 1 .. n : spaces[i] = space
  <2>1. PICK S : S = {space}
    OBVIOUS
  <2>2. spaces \in [1 .. n -> S] /\ \A i \in 1 .. n : spaces[i] = space
    BY <1>5, <2>1
  <2>3. n \in Nat
    BY <1>2
  <2>4. spaces \in Seq(S) /\ Len(spaces) = n
    BY <2>2, <2>3, TupleIs
  <2> QED BY <2>4, <2>1, <2>2, <2>3
<1>7. \A i \in 1 .. n : Means(pad[i], spaces[i])
  BY <1>1, <1>2, <1>6, Zenon DEF Means
<1>8. Spells(pad, spaces)
  BY <1>1, <1>6, <1>7 DEF Spells
<1> QED BY <1>1, <1>4, <1>6, <1>8

(* A value is read as it was meant, whatever space is around it.           *)
LEMMA ValueRead ==
  ASSUME NEW text \in Seq(Labels), NEW references, Predefined(references),
         NEW pad \in Seq({Event("text", " ")}), NEW content,
         content = (pad \o EscapedAs(text, references)) \o pad
  PROVE  /\ content \in Seq(Events)
         /\ \A i \in 1 .. Len(content) : content[i].kind \in {"text", "ref"}
         /\ read_text_until_end(content) = {trim(text)}
<1>1. PICK e : e = EscapedAs(text, references)
  OBVIOUS
<1>2. e \in Seq(Events) /\ Spells(e, text)
  BY <1>1, EscapedSpells
<1>3. pad \in Seq(Events)
  BY PadSpells
<1>4. PICK spaces \in Seq({" "}) : Spells(pad, spaces)
  BY PadSpells
<1>5. PICK X : X = Labels
  OBVIOUS
<1>6. text \in Seq(X) /\ spaces \in Seq(X)
  <2>1. {" "} \subseteq Labels
    BY DEF Labels
  <2> QED BY <1>5, <2>1, SeqMonotonic
<1>7. /\ pad \o e \in Seq(Events) /\ spaces \o text \in Seq(X)
      /\ Spells(pad \o e, spaces \o text)
  BY <1>2, <1>3, <1>4, <1>6, ConcatProperties, SpellingJoined
<1>8. PICK meant : meant = (spaces \o text) \o spaces
  OBVIOUS
<1>9. /\ content \in Seq(Events) /\ meant \in Seq(X) /\ Spells(content, meant)
  BY <1>1, <1>3, <1>4, <1>6, <1>7, <1>8, ConcatProperties, SpellingJoined
<1>10. read_text_until_end(content) = {trim(meant)}
  BY <1>9, SpellingRead
<1>11. trim(meant) = trim(text)
  <2>1. PICK space : space = " "
    OBVIOUS
  <2>2. Trimmed(meant, space) = Trimmed(text, space)
    BY <1>8, <2>1, TrimPadded
  <2> QED BY <2>1, <2>2, TrimIsTrimmed
<1>12. ASSUME NEW i \in 1 .. Len(content) PROVE content[i].kind \in {"text", "ref"}
  <2>1. Means(content[i], meant[i])
    BY <1>9 DEF Spells
  <2>2. CASE content[i] = Event("text", meant[i])
    <3>1. PICK token : token = meant[i]
      OBVIOUS
    <3>2. Event("text", token).kind = "text"
      BY DEF Event
    <3> QED BY <2>2, <3>1, <3>2
  <2>3. CASE content[i].kind = "ref"
    BY <2>3
  <2> QED BY <2>1, <2>2, <2>3 DEF Means
<1> QED BY <1>9, <1>10, <1>11, <1>12

-----------------------------------------------------------------------------
(* Arguments, written and read.                                            *)

(* Whatever is read further on, this argument comes to it.                 *)
With(rest, name, texts) == {Argued(name, text, later) : text \in texts, later \in rest}

(* No tag is in here, nor an end of the reading.                           *)
Clear(pad) == \A i \in 1 .. Len(pad) : pad[i].kind \notin Tags \cup {"bad"}

(* Nor the end of an element in here.                                      *)
Whole(content) == \A i \in 1 .. Len(content) : content[i].kind \notin {"end", "bad"}

(* An element's content, and what is read of it.                           *)
Reads(content, value) == Whole(content) /\ read_text_until_end(content) = {value}

LEMMA WithIs ==
  ASSUME NEW rest, NEW name, NEW value
  PROVE  {Argued(name, value, later) : later \in rest} = With(rest, name, {value})
  BY DEF With

LEMMA EmptyRead ==
  ASSUME NEW events, NEW o, NEW pad \in Seq(Events), NEW name,
         Clear(pad),
         At(events, o, pad), o + Len(pad) < Len(events),
         events[o + Len(pad) + 1] = Event("empty", name)
  PROVE  read_arguments(events, o + 1) = With(read_arguments(events, o + Len(pad) + 2), name, {<<>>})
<1>1. PICK p, j : p = Len(pad) /\ j = o + p + 1
  OBVIOUS
<1>2. /\ o \in Nat /\ p \in Nat /\ Len(events) \in Nat /\ j \in o + 1 .. Len(events)
      /\ \A k \in 1 .. p : events[o + k] = pad[k]
      /\ j + 1 = o + p + 2 /\ o + 1 \in 1 .. Len(events) + 1 /\ j + 1 \in 1 .. Len(events) + 1
  BY <1>1 DEF At
<1>3. events[j].kind = "empty" /\ events[j].name = name
  BY <1>1 DEF Event
<1>4. ASSUME NEW k \in o + 1 .. j - 1 PROVE events[k].kind # "bad" /\ events[k].kind \notin Tags
  <2>1. k - o \in 1 .. p /\ o + (k - o) = k
    <3>1. o \in Nat /\ p \in Nat /\ j = o + p + 1
      BY <1>1, <1>2
    <3> QED BY <3>1, Between
  <2>2. events[k] = pad[k - o]
    BY <1>2, <2>1
  <2> QED BY <1>1, <2>1, <2>2 DEF Clear
<1>5. Nearest(events, o + 1, j, Tags)
  BY <1>2, <1>3, <1>4 DEF Nearest, Tags
<1>6. j = Reach(events, o + 1, LAMBDA e : e.kind \in {"start", "empty", "end"})
  BY <1>5, TagReached
<1>7. PICK f : \A i \in 1 .. Len(events) + 1 :
                 f[i] = arguments_from(events, i, f) /\ read_arguments(events, i) = f[i]
  BY <1>2, ReadTurns
<1>8. j # 0
  BY <1>2
<1>9. arguments_from(events, o + 1, f) = With(f[j + 1], name, {<<>>})
  <2>1. arguments_from(events, o + 1, f) = {Argued(events[j].name, <<>>, later) : later \in f[j + 1]}
    BY <1>3, <1>6, <1>8 DEF arguments_from
  <2>2. arguments_from(events, o + 1, f) = With(f[j + 1], events[j].name, {<<>>})
    BY <2>1, WithIs
  <2> QED BY <1>3, <2>2
<1>10. /\ read_arguments(events, o + 1) = arguments_from(events, o + 1, f)
       /\ read_arguments(events, j + 1) = f[j + 1]
  BY <1>2, <1>7
<1>11. j + 1 = o + Len(pad) + 2
  BY <1>1, <1>2
<1> QED BY <1>9, <1>10, <1>11

LEMMA ElementRead ==
  ASSUME NEW events, NEW o, NEW pad \in Seq(Events), NEW name \in Labels,
         NEW content \in Seq(Events), NEW value,
         Clear(pad),
         Reads(content, value),
         At(events, o, pad), At(events, o + Len(pad), Element(name, content))
  PROVE  read_arguments(events, o + 1)
           = With(read_arguments(events, o + Len(pad) + Len(content) + 3), name, {value})
<1>1. PICK p, n, j, end : /\ p = Len(pad) /\ n = Len(content)
                          /\ j = o + p + 1 /\ end = j + n + 1
  OBVIOUS
<1>2. /\ events[j] = Event("start", name) /\ At(events, j, content)
      /\ events[o + p + n + 2] = Event("end", name) /\ o + p + n + 2 <= Len(events)
      /\ n \in Nat
  <2>1. PICK q : q = o + p
    OBVIOUS
  <2>2. At(events, q, Element(name, content))
    BY <1>1, <2>1
  <2>3. /\ events[q + 1] = Event("start", name) /\ At(events, q + 1, content)
        /\ events[q + n + 2] = Event("end", name) /\ q + n + 2 <= Len(events)
        /\ n \in Nat
    <3>1. n = Len(content)
      BY <1>1
    <3> QED BY <2>2, <3>1, ElementAt
  <2>4. q + 1 = j /\ q + n + 2 = o + p + n + 2
    BY <1>1, <2>1
  <2> QED BY <2>3, <2>4
<1>3. /\ o \in Nat /\ p \in Nat /\ Len(events) \in Nat
      /\ \A k \in 1 .. p : events[o + k] = pad[k]
      /\ \A k \in 1 .. n : events[j + k] = content[k]
  BY <1>1, <1>2 DEF At
<1>4. /\ end = o + p + n + 2 /\ end + 1 = o + p + n + 3
      /\ j \in o + 1 .. Len(events) /\ end \in j + 1 .. Len(events)
      /\ o + 1 \in 1 .. Len(events) + 1 /\ end + 1 \in 1 .. Len(events) + 1
      /\ j # 0 /\ end # 0 /\ j \in Nat /\ end \in Nat
  BY <1>1, <1>2, <1>3
<1>5. events[j].kind = "start" /\ events[j].name = name /\ events[end].kind = "end"
  BY <1>2, <1>4 DEF Event
<1>6. ASSUME NEW k \in o + 1 .. j - 1 PROVE events[k].kind # "bad" /\ events[k].kind \notin Tags
  <2>1. k - o \in 1 .. p /\ o + (k - o) = k
    <3>1. o \in Nat /\ p \in Nat /\ j = o + p + 1
      BY <1>1, <1>3
    <3> QED BY <3>1, Between
  <2>2. events[k] = pad[k - o]
    BY <1>3, <2>1
  <2> QED BY <1>1, <2>1, <2>2 DEF Clear
<1>7. ASSUME NEW k \in j + 1 .. end - 1 PROVE events[k].kind # "bad" /\ events[k].kind \notin {"end"}
  <2>1. k - j \in 1 .. n /\ j + (k - j) = k
    <3>1. j \in Nat /\ n \in Nat /\ end = j + n + 1
      BY <1>1, <1>2, <1>4
    <3> QED BY <3>1, Between
  <2>2. events[k] = content[k - j]
    BY <1>3, <2>1
  <2> QED BY <1>1, <2>1, <2>2 DEF Reads, Whole
<1>8. Nearest(events, o + 1, j, Tags)
  BY <1>3, <1>4, <1>5, <1>6 DEF Nearest, Tags
<1>9. Nearest(events, j + 1, end, {"end"})
  BY <1>3, <1>4, <1>5, <1>7 DEF Nearest
<1>10. j = Reach(events, o + 1, LAMBDA e : e.kind \in {"start", "empty", "end"})
  BY <1>8, TagReached
<1>11. end = Reach(events, j + 1, LAMBDA e : e.kind = "end")
  BY <1>9, EndReached
<1>12. SubSeq(events, j + 1, end - 1) = content
  <2>1. \A k \in j + 1 .. end - 1 : events[k] \in Events
    <3> SUFFICES ASSUME NEW k \in j + 1 .. end - 1 PROVE events[k] \in Events
      OBVIOUS
    <3>1. k - j \in 1 .. n /\ j + (k - j) = k
      <4>1. j \in Nat /\ n \in Nat /\ end = j + n + 1
        BY <1>1, <1>2, <1>4
      <4> QED BY <4>1, Between
    <3>2. content[k - j] \in Events
      BY <1>1, <3>1, ElementOfSeq
    <3> QED BY <1>3, <3>1, <3>2
  <2>2. PICK part, first, last : /\ part = SubSeq(events, first, last)
                                 /\ first = j + 1 /\ last = end - 1
    OBVIOUS
  <2>3. first \in Int /\ last \in Int /\ last - first + 1 = n /\ (first <= last \/ n = 0)
    <3>1. j \in Nat /\ n \in Nat /\ end = j + n + 1
      BY <1>1, <1>2, <1>4
    <3> QED BY <2>2, <3>1
  <2>4. /\ part \in Seq(Events) /\ Len(part) = IF first <= last THEN last - first + 1 ELSE 0
        /\ \A i \in 1 .. last - first + 1 : part[i] = events[first + i - 1]
    BY <2>1, <2>2, <2>3, SubSeqProperties
  <2>5. Len(part) = n
    <3>1. first <= last => last - first + 1 = n
      BY <2>3
    <3>2. ~(first <= last) => n = 0
      BY <2>3
    <3> QED BY <2>4, <3>1, <3>2
  <2>6. ASSUME NEW i \in 1 .. n PROVE part[i] = content[i]
    <3>1. first + i - 1 = j + i
      BY <1>4, <2>2
    <3> QED BY <1>3, <2>3, <2>4, <3>1
  <2>7. part = content
    BY <1>1, <2>4, <2>5, <2>6, SeqsEqual
  <2> QED BY <2>2, <2>7
<1>13. PICK f : \A i \in 1 .. Len(events) + 1 :
                  f[i] = arguments_from(events, i, f) /\ read_arguments(events, i) = f[i]
  BY <1>3, ReadTurns
<1>14. arguments_from(events, o + 1, f) = With(f[end + 1], name, {value})
  <2>1. arguments_from(events, o + 1, f)
          = {Argued(events[j].name, text, later) :
               text \in read_text_until_end(SubSeq(events, j + 1, end - 1)), later \in f[end + 1]}
    BY <1>4, <1>5, <1>10, <1>11, SMTT(30) DEF arguments_from
  <2>2. arguments_from(events, o + 1, f)
          = With(f[end + 1], events[j].name, read_text_until_end(SubSeq(events, j + 1, end - 1)))
    BY <2>1 DEF With
  <2>3. read_text_until_end(SubSeq(events, j + 1, end - 1)) = {value}
    BY <1>12 DEF Reads
  <2> QED BY <1>5, <2>2, <2>3
<1>15. /\ read_arguments(events, o + 1) = arguments_from(events, o + 1, f)
       /\ read_arguments(events, end + 1) = f[end + 1]
  BY <1>4, <1>13
<1>16. end + 1 = o + Len(pad) + Len(content) + 3
  BY <1>1, <1>4
<1> QED BY <1>14, <1>15, <1>16

LEMMA ArgumentsEnd ==
  ASSUME NEW events, Len(events) \in Nat, NEW i \in 1 .. Len(events), events[i].kind = "end"
  PROVE  read_arguments(events, i) = {<<>>}
<1>1. Nearest(events, i, i, Tags)
  BY DEF Nearest, Tags
<1>2. i = Reach(events, i, LAMBDA e : e.kind \in {"start", "empty", "end"})
  BY <1>1, TagReached
<1>3. PICK f : \A k \in 1 .. Len(events) + 1 :
                  f[k] = arguments_from(events, k, f) /\ read_arguments(events, k) = f[k]
  BY ReadTurns
<1>4. arguments_from(events, i, f) = {<<>>}
  BY <1>2 DEF arguments_from
<1> QED BY <1>3, <1>4

(* An argument of a question, with white space before it.                  *)
Given(name, value, style) ==
  style.pad \o (IF style.short /\ value = <<>> THEN <<Event("empty", name)>>
                ELSE Element(name, style.pad \o EscapedAs(value, style.references) \o style.pad))

(* Where these events come, the argument is read, and reading goes on      *)
(* behind them.                                                            *)
ReadsAs(piece, name, value) ==
  /\ piece \in Seq(Events)
  /\ \A events, o : At(events, o, piece) =>
       read_arguments(events, o + 1)
         = With(read_arguments(events, o + Len(piece) + 1), name, {value})

LEMMA AlikeIs ==
  ASSUME NEW e, NEW pad \in Seq({e})
  PROVE  \A i \in 1 .. Len(pad) : pad[i] = e
  BY ElementOfSeq

LEMMA PadIs ==
  ASSUME NEW pad \in Seq({Event("text", " ")})
  PROVE  pad \in Seq(Events) /\ Clear(pad)
<1>1. pad \in Seq(Events)
  BY PadSpells
<1>2. PICK e : e = Event("text", " ")
  OBVIOUS
<1>3. e.kind = "text"
  BY <1>2 DEF Event
<1>4. \A i \in 1 .. Len(pad) : pad[i] = e
  <2>1. pad \in Seq({e})
    BY <1>2
  <2> QED BY <2>1, AlikeIs
<1>5. "text" \notin Tags \cup {"bad"}
  BY DEF Tags
<1> QED BY <1>1, <1>3, <1>4, <1>5 DEF Clear

LEMMA EmptyGiven ==
  ASSUME NEW pad \in Seq(Events), Clear(pad), NEW name \in Labels
  PROVE  ReadsAs(pad \o <<Event("empty", name)>>, name, <<>>)
<1>1. PICK tag, s, p : tag = Event("empty", name) /\ s = <<tag>> /\ p = Len(pad)
  OBVIOUS
<1>2. tag \in Events
  BY <1>1, EventIs DEF Kinds
<1>3. s \in Seq(Events) /\ Len(s) = 1 /\ s[1] = tag
  BY <1>1, <1>2, SingleIs
<1>4. pad \o s \in Seq(Events) /\ Len(pad \o s) = p + 1 /\ p \in Nat
  BY <1>1, <1>3, ConcatIs
<1>5. ASSUME NEW events, NEW o, At(events, o, pad \o s)
      PROVE  read_arguments(events, o + 1)
               = With(read_arguments(events, o + (p + 1) + 1), name, {<<>>})
  <2>1. At(events, o, pad) /\ At(events, o + p, s)
    BY <1>1, <1>3, <1>5, AtConcat
  <2>2. o \in Nat
    BY <2>1 DEF At
  <2>3. o + p + 1 <= Len(events) /\ Len(events) \in Nat /\ events[o + p + 1] = tag
    <3>1. PICK q : q = o + p
      OBVIOUS
    <3>2. At(events, q, s)
      BY <2>1, <3>1
    <3>3. q + 1 <= Len(events) /\ Len(events) \in Nat /\ events[q + 1] = s[1]
      BY <1>3, <3>2 DEF At
    <3> QED BY <1>3, <3>1, <3>3
  <2>4. o + p < Len(events)
    BY <1>4, <2>2, <2>3
  <2>5. o + Len(pad) < Len(events) /\ events[o + Len(pad) + 1] = Event("empty", name)
    BY <1>1, <2>3, <2>4
  <2>6. read_arguments(events, o + 1) = With(read_arguments(events, o + Len(pad) + 2), name, {<<>>})
    BY <2>1, <2>5, EmptyRead
  <2>7. o + p + 2 = o + (p + 1) + 1
    BY <1>4, <2>2
  <2> QED BY <1>1, <2>6, <2>7
<1>6. ReadsAs(pad \o s, name, <<>>)
  BY <1>4, <1>5 DEF ReadsAs
<1> QED BY <1>1, <1>6

LEMMA ElementGiven ==
  ASSUME NEW pad \in Seq(Events), Clear(pad), NEW name \in Labels, NEW content \in Seq(Events), NEW value,
         Reads(content, value)
  PROVE  ReadsAs(pad \o Element(name, content), name, value)
<1>1. PICK n, p, el : n = Len(content) /\ p = Len(pad) /\ el = Element(name, content)
  OBVIOUS
<1>2. n \in Nat /\ el \in Seq(Events) /\ Len(el) = n + 2
  BY <1>1, ElementIs
<1>3. pad \o el \in Seq(Events) /\ Len(pad \o el) = p + (n + 2) /\ p \in Nat
  <2>1. pad \o el \in Seq(Events) /\ Len(pad \o el) = Len(pad) + Len(el) /\ Len(pad) \in Nat
    BY <1>2, ConcatIs
  <2> QED BY <1>1, <1>2, <2>1
<1>4. ASSUME NEW events, NEW o, At(events, o, pad \o el)
      PROVE  read_arguments(events, o + 1)
               = With(read_arguments(events, o + (p + n + 2) + 1), name, {value})
  <2>1. At(events, o, pad) /\ At(events, o + Len(pad), el)
    BY <1>2, <1>4, AtConcat
  <2>2. o \in Nat
    BY <2>1 DEF At
  <2>3. At(events, o + Len(pad), Element(name, content))
    BY <1>1, <2>1
  <2>4. read_arguments(events, o + 1)
          = With(read_arguments(events, o + Len(pad) + Len(content) + 3), name, {value})
    BY <2>1, <2>3, ElementRead
  <2>5. o + p + n + 3 = o + (p + n + 2) + 1
    BY <1>2, <1>3, <2>2
  <2> QED BY <1>1, <2>4, <2>5
<1>5. p + (n + 2) = p + n + 2
  BY <1>2, <1>3
<1>6. ReadsAs(pad \o el, name, value)
  BY <1>3, <1>4, <1>5 DEF ReadsAs
<1> QED BY <1>1, <1>6

LEMMA GivenRead ==
  ASSUME NEW style \in Styles, NEW name \in STRING, NEW value \in Seq(STRING)
  PROVE  ReadsAs(Given(name, value, style), name, trim(value))
<1>1. PICK pad, references : pad = style.pad /\ references = style.references
  OBVIOUS
<1>2. pad \in Seq({Event("text", " ")}) /\ Predefined(references)
  BY <1>1, StylesAssumption, ReferencesPredefined
<1>3. pad \in Seq(Events) /\ Clear(pad)
  BY <1>2, PadIs
<1>4. name \in Labels
  BY DEF Labels
<1>5. CASE style.short /\ value = <<>>
  <2>1. Given(name, value, style) = pad \o <<Event("empty", name)>>
    BY <1>1, <1>5 DEF Given
  <2>2. trim(value) = <<>>
    BY <1>5 DEF trim
  <2> QED BY <1>3, <1>4, <2>1, <2>2, EmptyGiven
<1>6. CASE ~(style.short /\ value = <<>>)
  <2>1. PICK content : content = (pad \o EscapedAs(value, references)) \o pad
    OBVIOUS
  <2>2. Given(name, value, style) = pad \o Element(name, content)
    BY <1>1, <1>6, <2>1 DEF Given
  <2>3. /\ content \in Seq(Events)
        /\ \A i \in 1 .. Len(content) : content[i].kind \in {"text", "ref"}
        /\ read_text_until_end(content) = {trim(value)}
    <3>1. value \in Seq(Labels)
      BY SeqMonotonic DEF Labels
    <3> QED BY <1>2, <2>1, <3>1, ValueRead
  <2>4. Reads(content, trim(value))
    BY <2>3 DEF Reads, Whole
  <2>5. content \in Seq(Events)
    BY <2>3
  <2> QED BY <1>3, <1>4, <2>2, <2>4, <2>5, ElementGiven
<1> QED BY <1>5, <1>6

(* The arguments' names, in the order they are written in.                 *)
Lists(names, n, S) == names \in [1 .. n -> S] /\ \A x \in S : \E i \in 1 .. n : names[i] = x

LEMMA NamesListed ==
  ASSUME NEW S, IsFiniteSet(S), NEW names, names = SetToSeq(S)
  PROVE  \E n \in Nat : Lists(names, n, S)
<1>1. PICK n : n = Cardinality(S)
  OBVIOUS
<1>2. n \in Nat /\ ExistsBijection(1 .. n, S)
  BY <1>1, FS_CardinalityType
<1>3. \E f \in [1 .. n -> S] : IsInjective(f)
  BY <1>2 DEF ExistsBijection, Bijection, Injection
<1>4. names \in [1 .. n -> S] /\ IsInjective(names)
  BY <1>1, <1>3 DEF SetToSeq
<1>5. names \in Injection(1 .. n, S)
  BY <1>4 DEF Injection
<1>6. Cardinality(1 .. n) = n
  <2>1. Cardinality(1 .. n) = IF 1 > n THEN 0 ELSE n - 1 + 1
    BY <1>2, FS_Interval
  <2> QED BY <1>2, <2>1
<1>7. names \in Surjection(1 .. n, S)
  BY <1>1, <1>5, <1>6, FS_Injection
<1> QED BY <1>2, <1>4, <1>7 DEF Surjection, Lists

(* Of pieces joined, each stands behind those before it.                   *)
LEMMA JoinedAt ==
  ASSUME NEW seqs \in Seq(Seq(Events)), NEW F, Joins(F, seqs, Events), NEW n, n = Len(seqs),
         NEW events, NEW o, At(events, o, F[n])
  PROVE  \A i \in 1 .. n : /\ At(events, o + Len(F[i - 1]), seqs[i])
                           /\ Len(F[i]) = Len(F[i - 1]) + Len(seqs[i])
<1>1. n \in Nat /\ \A i \in 1 .. n : seqs[i] \in Seq(Events)
  BY LenProperties, ElementOfSeq
<1>2. /\ \A i \in 1 .. n : F[i] = F[i - 1] \o seqs[i]
      /\ \A i \in 0 .. n : F[i] \in Seq(Events)
  BY DEF Joins
<1>3. ASSUME NEW i \in 1 .. n, At(events, o, F[i])
      PROVE  /\ At(events, o, F[i - 1]) /\ At(events, o + Len(F[i - 1]), seqs[i])
             /\ Len(F[i]) = Len(F[i - 1]) + Len(seqs[i])
  <2>1. PICK s, t : s = F[i - 1] /\ t = seqs[i]
    OBVIOUS
  <2>2. i - 1 \in 0 .. n
    BY <1>1
  <2>3. s \in Seq(Events) /\ t \in Seq(Events) /\ F[i] = s \o t
    BY <1>1, <1>2, <2>1, <2>2
  <2>4. At(events, o, s \o t)
    BY <1>3, <2>3
  <2>5. At(events, o, s) /\ At(events, o + Len(s), t) /\ Len(s \o t) = Len(s) + Len(t)
    BY <2>3, <2>4, AtConcat, ConcatIs
  <2> QED BY <2>1, <2>3, <2>5
<1> DEFINE S == {m \in Nat : m <= n => At(events, o, F[n - m])}
<1>4. 0 \in S
  <2>1. n - 0 = n
    BY <1>1
  <2> QED BY <2>1
<1>5. ASSUME NEW m \in Nat, m \in S PROVE m + 1 \in S
  <2> SUFFICES ASSUME m + 1 <= n PROVE At(events, o, F[n - (m + 1)])
    OBVIOUS
  <2>1. n - m \in 1 .. n /\ (n - m) - 1 = n - (m + 1) /\ m <= n
    BY <1>1
  <2>2. At(events, o, F[n - m])
    BY <1>5, <2>1
  <2>3. At(events, o, F[(n - m) - 1])
    BY <1>3, <2>1, <2>2
  <2> QED BY <2>1, <2>3
<1> HIDE DEF S
<1>6. \A m \in Nat : m \in S
  BY <1>4, <1>5, NatInduct
<1>7. ASSUME NEW i \in 1 .. n PROVE At(events, o, F[i])
  <2>1. n - i \in Nat /\ n - i <= n /\ n - (n - i) = i
    BY <1>1
  <2>2. n - i \in S
    BY <1>6, <2>1
  <2> QED BY <2>1, <2>2 DEF S
<1> QED BY <1>3, <1>7

(* What is read from the i-th name on.                                     *)
Rest(values, names, n, i) == [name \in {names[k] : k \in i + 1 .. n} |-> trim(values[name])]

LEMMA RestEmpty ==
  ASSUME NEW values, NEW names, NEW n \in Nat
  PROVE  Rest(values, names, n, n) = <<>>
<1>1. {names[k] : k \in n + 1 .. n} = {}
  OBVIOUS
<1> QED BY <1>1 DEF Rest

(* With one argument more, it is what is read from the name before on.      *)
Resting(values, names, n) ==
  \A i \in 1 .. n : With({Rest(values, names, n, i)}, names[i], {trim(values[names[i]])})
                      = {Rest(values, names, n, i - 1)}

LEMMA RestMore ==
  ASSUME NEW values, NEW names, NEW n \in Nat
  PROVE  Resting(values, names, n)
<1> SUFFICES ASSUME NEW i \in 1 .. n
             PROVE  With({Rest(values, names, n, i)}, names[i], {trim(values[names[i]])})
                      = {Rest(values, names, n, i - 1)}
  BY DEF Resting
<1>1. PICK rest, name, value : /\ rest = Rest(values, names, n, i) /\ name = names[i]
                               /\ value = trim(values[names[i]])
  OBVIOUS
<1>2. {names[k] : k \in (i - 1) + 1 .. n} = {names[k] : k \in i + 1 .. n} \cup {name}
  <2>1. \A k : k \in (i - 1) + 1 .. n <=> (k \in i + 1 .. n \/ k = i)
    OBVIOUS
  <2> QED BY <1>1, <2>1
<1>3. rest = [x \in {names[k] : k \in i + 1 .. n} |-> trim(values[x])]
  BY <1>1 DEF Rest
<1>4. Argued(name, value, rest) = [x \in (DOMAIN rest) \cup {name} |->
                                    IF x \in DOMAIN rest THEN rest[x] ELSE value]
  BY DEF Argued
<1>5. Argued(name, value, rest) = [x \in {names[k] : k \in i + 1 .. n} \cup {name} |-> trim(values[x])]
  BY <1>1, <1>3, <1>4
<1>6. Argued(name, value, rest) = Rest(values, names, n, i - 1)
  BY <1>1, <1>2, <1>5 DEF Rest
<1>7. With({rest}, name, {value}) = {Argued(name, value, rest)}
  BY DEF With
<1> QED BY <1>1, <1>6, <1>7

(* All arguments of a question, as they are written.                       *)
Pieces(values, names, style) == [i \in DOMAIN names |-> Given(names[i], values[names[i]], style)]

Values(values) == [name \in DOMAIN values |-> trim(values[name])]

Valued(values) ==
  /\ IsFiniteSet(DOMAIN values) /\ DOMAIN values \subseteq STRING
  /\ \A name \in DOMAIN values : values[name] \in Seq(STRING)

(* These names are those of the arguments, and this is what is written of  *)
(* them.                                                                   *)
Pieced(n, values, names, seqs) ==
  /\ n \in Nat /\ Lists(names, n, DOMAIN values)
  /\ seqs \in Seq(Seq(Events)) /\ Len(seqs) = n
  /\ \A i \in 1 .. n : ReadsAs(seqs[i], names[i], trim(values[names[i]]))

LEMMA PiecesAre ==
  ASSUME NEW style \in Styles, NEW values, Valued(values),
         NEW names, names = SetToSeq(DOMAIN values), NEW seqs, seqs = Pieces(values, names, style)
  PROVE  \E n \in Nat : Pieced(n, values, names, seqs)
<1>1. PICK n \in Nat : Lists(names, n, DOMAIN values)
  BY NamesListed DEF Valued
<1>2. ASSUME NEW i \in 1 .. n
      PROVE  ReadsAs(Given(names[i], values[names[i]], style), names[i], trim(values[names[i]]))
  <2>1. PICK name : name = names[i]
    OBVIOUS
  <2>2. name \in STRING /\ values[name] \in Seq(STRING)
    BY <1>1, <2>1 DEF Lists, Valued
  <2> QED BY <2>1, <2>2, GivenRead
<1>3. \A i \in 1 .. n : Given(names[i], values[names[i]], style) \in Seq(Events)
  BY <1>2 DEF ReadsAs
<1>4. seqs = [i \in 1 .. n |-> Given(names[i], values[names[i]], style)]
  BY <1>1 DEF Lists, Pieces
<1>5. seqs \in Seq(Seq(Events)) /\ Len(seqs) = n
  BY <1>3, <1>4, TupleIs
<1>6. \A i \in 1 .. n : ReadsAs(seqs[i], names[i], trim(values[names[i]]))
  BY <1>2, <1>4
<1>7. Pieced(n, values, names, seqs)
  BY <1>1, <1>5, <1>6 DEF Pieced
<1> QED BY <1>7

(* Up to the end tag, these are the arguments.                             *)
ReadsAll(content, arguments) ==
  /\ content \in Seq(Events)
  /\ \A events, o :
       /\ At(events, o, content) /\ o + Len(content) + 1 <= Len(events)
       /\ events[o + Len(content) + 1].kind = "end"
       => read_arguments(events, o + 1) = {arguments}

LEMMA ArgumentsRead ==
  ASSUME NEW style \in Styles, NEW values, Valued(values),
         NEW names, names = SetToSeq(DOMAIN values),
         NEW content, content = FlattenSeq(Pieces(values, names, style))
  PROVE  ReadsAll(content, Values(values))
<1>1. PICK seqs : seqs = Pieces(values, names, style)
  OBVIOUS
<1>2. PICK n \in Nat : Pieced(n, values, names, seqs)
  BY <1>1, PiecesAre
<1>3. n \in Nat /\ seqs \in Seq(Seq(Events)) /\ Len(seqs) = n
  BY <1>2 DEF Pieced
<1>4. PICK F : Joins(F, seqs, Events)
  BY <1>3, FlattenJoins
<1>5. /\ F[0] = <<>> /\ content = F[n]
      /\ \A i \in 0 .. n : F[i] \in Seq(Events)
  BY <1>1, <1>3, <1>4 DEF Joins
<1>6. content \in Seq(Events) /\ \A i \in 0 .. n : Len(F[i]) \in Nat
  BY <1>3, <1>5, LenProperties
<1>7. ASSUME NEW events, NEW o, At(events, o, content), o + Len(content) + 1 <= Len(events),
             events[o + Len(content) + 1].kind = "end"
      PROVE  read_arguments(events, o + 1) = {Values(values)}
  <2>1. o \in Nat /\ Len(events) \in Nat
    BY <1>7 DEF At
  <2>2. \A i \in 1 .. n : /\ At(events, o + Len(F[i - 1]), seqs[i])
                          /\ Len(F[i]) = Len(F[i - 1]) + Len(seqs[i])
    <3>1. At(events, o, F[n])
      BY <1>5, <1>7
    <3> QED BY <1>3, <1>4, <3>1, JoinedAt
  <2> DEFINE S == {m \in Nat : m <= n => read_arguments(events, o + Len(F[n - m]) + 1)
                                           = {Rest(values, names, n, n - m)}}
  <2>3. 0 \in S
    <3>1. n - 0 = n
      OBVIOUS
    <3>2. PICK i : i = o + Len(content) + 1
      OBVIOUS
    <3>3. i \in 1 .. Len(events) /\ events[i].kind = "end"
      <4>1. Len(content) \in Nat
        BY <1>6, LenProperties
      <4> QED BY <1>7, <2>1, <3>2, <4>1
    <3>4. read_arguments(events, i) = {<<>>}
      BY <2>1, <3>3, ArgumentsEnd
    <3>5. Rest(values, names, n, n) = <<>>
      BY RestEmpty
    <3> QED BY <1>5, <3>1, <3>2, <3>4, <3>5
  <2>4. ASSUME NEW m \in Nat, m \in S PROVE m + 1 \in S
    <3> SUFFICES ASSUME m + 1 <= n
                 PROVE  read_arguments(events, o + Len(F[n - (m + 1)]) + 1)
                          = {Rest(values, names, n, n - (m + 1))}
      OBVIOUS
    <3>1. PICK i, j : i = n - m /\ j = n - (m + 1)
      OBVIOUS
    <3>2. i \in 1 .. n /\ i \in 0 .. n /\ j \in 0 .. n /\ j = i - 1 /\ m <= n
      BY <3>1
    <3>3. read_arguments(events, o + Len(F[i]) + 1) = {Rest(values, names, n, i)}
      BY <2>4, <3>1, <3>2
    <3>4. At(events, o + Len(F[j]), seqs[i]) /\ Len(F[i]) = Len(F[j]) + Len(seqs[i])
      BY <2>2, <3>2
    <3>5. read_arguments(events, o + Len(F[j]) + 1)
            = With(read_arguments(events, o + Len(F[j]) + Len(seqs[i]) + 1), names[i],
                   {trim(values[names[i]])})
      <4>1. ReadsAs(seqs[i], names[i], trim(values[names[i]]))
        BY <1>2, <3>2 DEF Pieced
      <4> QED BY <3>4, <4>1 DEF ReadsAs
    <3>6. o + Len(F[j]) + Len(seqs[i]) + 1 = o + Len(F[i]) + 1
      <4>1. Len(F[j]) \in Nat /\ Len(seqs[i]) \in Nat
        BY <1>3, <1>6, <3>2, LenProperties, ElementOfSeq
      <4>2. PICK a, b, c : a = Len(F[j]) /\ b = Len(seqs[i]) /\ c = Len(F[i])
        OBVIOUS
      <4>3. a \in Nat /\ b \in Nat /\ c = a + b /\ o \in Nat
        BY <2>1, <3>4, <4>1, <4>2
      <4>4. o + a + b + 1 = o + c + 1
        BY <4>3
      <4> QED BY <4>2, <4>4
    <3>7. With({Rest(values, names, n, i)}, names[i], {trim(values[names[i]])})
            = {Rest(values, names, n, i - 1)}
      <4>1. Resting(values, names, n)
        BY RestMore
      <4> QED BY <3>2, <4>1 DEF Resting
    <3> QED BY <3>1, <3>2, <3>3, <3>5, <3>6, <3>7
  <2> HIDE DEF S
  <2>5. n \in S
    BY <2>3, <2>4, NatInduct
  <2>6. n - n = 0 /\ n <= n /\ o + 0 + 1 = o + 1
    BY <2>1
  <2>7. read_arguments(events, o + Len(F[0]) + 1) = {Rest(values, names, n, 0)}
    BY <2>5, <2>6 DEF S
  <2>8. Len(F[0]) = 0
    BY <1>5, EmptySeq
  <2>9. Rest(values, names, n, 0) = Values(values)
    <3>1. {names[k] : k \in 0 + 1 .. n} = DOMAIN values
      <4>1. 0 + 1 .. n = 1 .. n
        OBVIOUS
      <4>2. Lists(names, n, DOMAIN values)
        BY <1>2 DEF Pieced
      <4> QED BY <4>1, <4>2 DEF Lists
    <3> QED BY <3>1 DEF Rest, Values
  <2> QED BY <2>6, <2>7, <2>8, <2>9
<1> QED BY <1>6, <1>7 DEF ReadsAll

(* Nothing in here is taken for the body.                                  *)
Headed(h) == \A i \in 1 .. Len(h) : h[i].kind # "bad" /\ h[i] # Event("start", "Body")

LEMMA HeaderIs ==
  ASSUME NEW h, \/ h = <<>>
                \/ h = Element("Header", <<Event("empty", "Session")>>)
  PROVE  h \in Seq(Events) /\ Headed(h)
<1>1. CASE h = <<>>
  BY <1>1, EmptySeq DEF Headed
<1>2. CASE h = Element("Header", <<Event("empty", "Session")>>)
  <2>1. PICK tag, name, s : tag = Event("empty", "Session") /\ name = "Header" /\ s = <<tag>>
    OBVIOUS
  <2>2. tag \in Events /\ name \in Labels
    BY <2>1, EventIs DEF Kinds, Labels
  <2>3. s \in Seq(Events) /\ Len(s) = 1 /\ s[1] = tag
    BY <2>1, <2>2, SingleIs
  <2>4. h = Element(name, s)
    BY <1>2, <2>1
  <2>5. h \in Seq(Events) /\ Len(h) = 1 + 2
    BY <2>2, <2>3, <2>4, ElementIs
  <2>6. At(h, 0, Element(name, s))
    BY <2>4, <2>5, AtStart
  <2>7. /\ h[1] = Event("start", name) /\ At(h, 1, s) /\ h[3] = Event("end", name)
    <3>1. PICK n, o : n = Len(s) /\ o = 0
      OBVIOUS
    <3>2. h[o + 1] = Event("start", name) /\ At(h, o + 1, s) /\ h[o + n + 2] = Event("end", name)
      <4>1. At(h, o, Element(name, s))
        BY <2>6, <3>1
      <4>2. name \in Labels /\ s \in Seq(Events) /\ n = Len(s)
        BY <2>2, <2>3, <3>1
      <4> QED BY <4>1, <4>2, ElementAt
    <3>3. o + 1 = 1 /\ o + n + 2 = 3
      BY <2>3, <3>1
    <3> QED BY <3>2, <3>3
  <2>8. h[1 + 1] = tag
    BY <2>3, <2>7 DEF At
  <2>9. h[1] = Event("start", name) /\ h[2] = tag /\ h[3] = Event("end", name) /\ Len(h) = 3
    BY <2>5, <2>7, <2>8
  <2>10. /\ Event("start", name).kind # "bad" /\ Event("start", name) # Event("start", "Body")
         /\ tag.kind # "bad" /\ tag # Event("start", "Body")
         /\ Event("end", name).kind # "bad" /\ Event("end", name) # Event("start", "Body")
    BY <2>1 DEF Event
  <2>11. \A i \in 1 .. 3 : i = 1 \/ i = 2 \/ i = 3
    OBVIOUS
  <2> QED BY <2>5, <2>9, <2>10, <2>11 DEF Headed
<1> QED BY <1>1, <1>2

LEMMA BodyFound ==
  ASSUME NEW h \in Seq(Events), Headed(h), NEW inner \in Seq(Events), NEW events,
         events = Element("Envelope", h \o Element("Body", inner))
  PROVE  /\ events \in Seq(Events)
         /\ \E b \in 1 .. Len(events) : find_body(events) = b /\ At(events, b, inner)
<1>1. PICK m, body, all, outer, name :
        /\ m = Len(h) /\ body = Element("Body", inner) /\ all = h \o body
        /\ outer = "Envelope" /\ name = "Body"
  OBVIOUS
<1>2. outer \in Labels /\ name \in Labels
  BY <1>1 DEF Labels
<1>3. body \in Seq(Events)
  BY <1>1, <1>2, ElementIs
<1>4. all \in Seq(Events) /\ m \in Nat
  <2>1. h \o body \in Seq(Events) /\ Len(h) \in Nat
    BY <1>3, ConcatIs
  <2> QED BY <1>1, <2>1
<1>5. events = Element(outer, all)
  BY <1>1
<1>6. events \in Seq(Events)
  BY <1>2, <1>4, <1>5, ElementIs
<1>7. At(events, 0, Element(outer, all))
  BY <1>5, <1>6, AtStart
<1>8. PICK o, l : o = 0 /\ l = Len(all)
  OBVIOUS
<1>9. events[1] = Event("start", outer) /\ At(events, 1, all)
  <2>1. events[o + 1] = Event("start", outer) /\ At(events, o + 1, all)
    BY <1>2, <1>4, <1>7, <1>8, ElementAt
  <2>2. o + 1 = 1
    BY <1>8
  <2> QED BY <2>1, <2>2
<1>10. At(events, 1, h) /\ At(events, 1 + m, body)
  BY <1>1, <1>3, <1>9, AtConcat
<1>11. PICK n, q : n = Len(inner) /\ q = 1 + m
  OBVIOUS
<1>12. At(events, q, Element(name, inner))
  BY <1>1, <1>10, <1>11
<1>13. /\ events[q + 1] = Event("start", name) /\ At(events, q + 1, inner)
       /\ q + n + 2 <= Len(events) /\ n \in Nat
  BY <1>2, <1>11, <1>12, ElementAt
<1>14. Len(events) \in Nat /\ q + 1 \in 1 .. Len(events) /\ q + 1 \in Nat
  <2>1. Len(events) \in Nat
    BY <1>9 DEF At
  <2> QED BY <1>4, <1>11, <1>13, <2>1
<1>15. ASSUME NEW k \in 1 .. (q + 1) - 1 PROVE events[k].kind # "bad" /\ events[k] # Event("start", name)
  <2>1. CASE k = 1
    <3>1. Event("start", outer).kind # "bad" /\ Event("start", outer) # Event("start", name)
      BY <1>1 DEF Event
    <3> QED BY <1>9, <2>1, <3>1
  <2>2. CASE k # 1
    <3>1. PICK i : i = k - 1
      OBVIOUS
    <3>2. i \in 1 .. m /\ 1 + i = k
      BY <1>4, <1>11, <2>2, <3>1
    <3>3. events[k] = h[i]
      BY <1>1, <1>10, <3>2 DEF At
    <3> QED BY <1>1, <3>2, <3>3 DEF Headed
  <2> QED BY <2>1, <2>2
<1>16. find_body(events) = q + 1
  BY <1>1, <1>13, <1>14, <1>15, BodyReached
<1> QED BY <1>6, <1>13, <1>14, <1>16

LEMMA ActionFound ==
  ASSUME NEW pad \in Seq(Events), Clear(pad), NEW act \in Seq(Events), Len(act) >= 1,
         act[1].kind \in {"start", "empty"}, NEW events, NEW b, At(events, b, pad \o act)
  PROVE  /\ read_action_open(events, b) = b + Len(pad) + 1
         /\ events[b + Len(pad) + 1] = act[1]
         /\ At(events, b + Len(pad), act)
<1>1. PICK p, q, j : p = Len(pad) /\ q = b + p /\ j = q + 1
  OBVIOUS
<1>2. At(events, b, pad) /\ At(events, q, act)
  BY <1>1, AtConcat
<1>3. /\ b \in Nat /\ p \in Nat /\ Len(events) \in Nat /\ q + Len(act) <= Len(events)
      /\ Len(act) \in Nat /\ Len(act) >= 1
  BY <1>1, <1>2 DEF At
<1>4. events[j] = act[1]
  <2>1. 1 \in 1 .. Len(act)
    BY <1>3
  <2> QED BY <1>1, <1>2, <2>1 DEF At
<1>5. b + 1 \in Nat /\ j \in b + 1 .. Len(events)
  BY <1>1, <1>3
<1>6. ASSUME NEW k \in b + 1 .. j - 1
      PROVE  events[k].kind # "bad" /\ events[k].kind \notin {"start", "empty"}
  <2>1. k - b \in 1 .. p /\ b + (k - b) = k
    <3>1. b \in Nat /\ p \in Nat /\ j = b + p + 1
      BY <1>1, <1>3
    <3> QED BY <3>1, Between
  <2>2. events[k] = pad[k - b]
    BY <1>1, <1>2, <2>1 DEF At
  <2> QED BY <1>1, <2>1, <2>2 DEF Clear, Tags
<1>7. Nearest(events, b + 1, j, {"start", "empty"})
  <2>1. events[j].kind \in {"start", "empty"} /\ "bad" \notin {"start", "empty"}
    BY <1>4
  <2> QED BY <1>3, <1>5, <1>6, <2>1 DEF Nearest
<1>8. Reach(events, b + 1, LAMBDA e : e.kind \in {"start", "empty"}) = j
  BY <1>7, OpenReached
<1>9. read_action_open(events, b) = j
  BY <1>8 DEF read_action_open
<1> QED BY <1>1, <1>2, <1>4, <1>9

(* An action of this name, with whatever of these is read.                 *)
Calling(label, read) == {[name |-> label, arguments |-> arguments] : arguments \in read}

(* What is made of a body that is not too long.                            *)
Parsed(events) == parse_action(1000, events)

Reading(events, j) == IF events[j].kind = "empty" THEN {<<>>} ELSE read_arguments(events, j + 1)

LEMMA ParseIs ==
  ASSUME NEW events, NEW b, b # 0, find_body(events) = b,
         NEW j, j # 0, read_action_open(events, b) = j
  PROVE  Parsed(events) = Calling(events[j].name, Reading(events, j))
<1>1. {read_action_open(events, body) : body \in {find_body(events)} \ {0}} \ {0} = {j}
  OBVIOUS
<1> QED BY <1>1 DEF Parsed, Reading, parse_action, MAX_BODY_LEN, Calling

(* What a question calls.                                                  *)
Call(question) == [name |-> question.action, arguments |-> Values(question.arguments)]

(* An action's events, read from wherever they stand.                      *)
Calls(act, label, arguments) ==
  /\ act \in Seq(Events) /\ Len(act) >= 1
  /\ act[1].kind \in {"start", "empty"} /\ act[1].name = label
  /\ \A events, o : At(events, o, act) =>
       (IF act[1].kind = "empty" THEN {<<>>} ELSE read_arguments(events, o + 2))
         = {arguments}

LEMMA BareCalls ==
  ASSUME NEW question, question.action \in STRING, DOMAIN question.arguments = {}
  PROVE  Calls(<<Event("empty", question.action)>>, question.action, Values(question.arguments))
<1>1. PICK tag, act, name : tag = Event("empty", name) /\ act = <<tag>> /\ name = question.action
  OBVIOUS
<1>2. tag \in Events /\ tag.kind = "empty" /\ tag.name = name
  BY <1>1, EventIs DEF Kinds, Labels
<1>3. act \in Seq(Events) /\ Len(act) = 1 /\ act[1] = tag
  BY <1>1, <1>2, SingleIs
<1>4. Values(question.arguments) = <<>>
  BY DEF Values
<1>5. Calls(act, name, Values(question.arguments))
  BY <1>1, <1>2, <1>3, <1>4 DEF Calls
<1> QED BY <1>1, <1>5

LEMMA FullCalls ==
  ASSUME NEW name \in Labels, NEW arguments,
         NEW content \in Seq(Events), ReadsAll(content, arguments)
  PROVE  Calls(Element(name, content), name, arguments)
<1>1. PICK act, n : act = Element(name, content) /\ n = Len(content)
  OBVIOUS
<1>2. name \in Labels
  OBVIOUS
<1>3. act \in Seq(Events) /\ Len(act) = n + 2 /\ n \in Nat
  BY <1>1, <1>2, ElementIs
<1>4. act[1] = Event("start", name)
  <2>1. PICK o : o = 0
    OBVIOUS
  <2>2. At(act, o, Element(name, content))
    BY <1>1, <1>3, <2>1, AtStart
  <2>3. act[o + 1] = Event("start", name)
    BY <1>1, <1>2, <2>2, ElementAt
  <2> QED BY <2>1, <2>3
<1>5. act[1].kind = "start" /\ act[1].name = name
  BY <1>4 DEF Event
<1>6. ASSUME NEW events, NEW o, At(events, o, act)
      PROVE  read_arguments(events, o + 2) = {arguments}
  <2>1. PICK q : q = o + 1
    OBVIOUS
  <2>2. At(events, o, Element(name, content)) /\ o \in Nat
    BY <1>1, <1>6 DEF At
  <2>3. At(events, o + 1, content) /\ events[o + n + 2] = Event("end", name) /\ o + n + 2 <= Len(events)
    BY <1>1, <1>2, <2>2, ElementAt
  <2>4. q + n + 1 = o + n + 2 /\ q + 1 = o + 2
    BY <1>3, <2>1, <2>2
  <2>5. events[o + n + 2].kind = "end"
    BY <2>3 DEF Event
  <2>6. At(events, q, content) /\ q + Len(content) + 1 <= Len(events) /\ events[q + Len(content) + 1].kind = "end"
    BY <1>1, <2>1, <2>3, <2>4, <2>5
  <2>7. read_arguments(events, q + 1) = {arguments}
    BY <2>6 DEF ReadsAll
  <2> QED BY <2>4, <2>7
<1>7. Calls(act, name, arguments)
  BY <1>1, <1>3, <1>5, <1>6 DEF Calls
<1> QED BY <1>1, <1>7

(* A body with one action in it is read as that action.                    *)
LEMMA ActionRead ==
  ASSUME NEW pad \in Seq(Events), Clear(pad), NEW act, NEW label, NEW arguments,
         Calls(act, label, arguments), NEW events, NEW b \in 1 .. Len(events),
         find_body(events) = b, At(events, b, pad \o act)
  PROVE  Parsed(events) = {[name |-> label, arguments |-> arguments]}
<1>1. act \in Seq(Events) /\ Len(act) >= 1 /\ act[1].kind \in {"start", "empty"} /\ act[1].name = label
  BY DEF Calls
<1>2. PICK p, j : p = Len(pad) /\ j = b + p + 1
  OBVIOUS
<1>3. read_action_open(events, b) = j /\ events[j] = act[1] /\ At(events, b + p, act)
  <2>1. /\ read_action_open(events, b) = b + Len(pad) + 1
        /\ events[b + Len(pad) + 1] = act[1]
        /\ At(events, b + Len(pad), act)
    BY <1>1, ActionFound
  <2> QED BY <1>2, <2>1
<1>4. b \in Nat /\ p \in Nat /\ b # 0 /\ j # 0 /\ j + 1 = (b + p) + 2
  <2>1. p \in Nat
    BY <1>2, LenProperties
  <2>2. b \in Nat
    BY DEF At
  <2> QED BY <1>2, <2>1, <2>2
<1>5. Parsed(events) = Calling(events[j].name, Reading(events, j))
  BY <1>3, <1>4, ParseIs
<1>6. Reading(events, j) = {arguments}
  <2>1. (IF act[1].kind = "empty" THEN {<<>>} ELSE read_arguments(events, (b + p) + 2)) = {arguments}
    BY <1>3 DEF Calls
  <2> QED BY <1>3, <1>4, <2>1 DEF Reading
<1>7. Calling(label, {arguments}) = {[name |-> label, arguments |-> arguments]}
  BY DEF Calling
<1> QED BY <1>1, <1>3, <1>5, <1>6, <1>7

(* However it is written, a question calls what it means.                  *)
LEMMA WrittenRead ==
  ASSUME NEW question \in Questions, NEW style \in Styles
  PROVE  /\ Written(question, style) \in Seq(Events)
         /\ Parsed(Written(question, style)) = {Call(question)}
<1>1. /\ question.action \in STRING /\ Valued(question.arguments)
      /\ style.pad \in Seq({Event("text", " ")})
  BY QuestionsAssumption, StylesAssumption DEF Valued
<1>2. PICK names, content, h, act, pad :
        /\ names = SetToSeq(DOMAIN question.arguments) /\ pad = style.pad
        /\ content = FlattenSeq(Pieces(question.arguments, names, style))
        /\ h = IF style.header THEN Element("Header", <<Event("empty", "Session")>>) ELSE <<>>
        /\ act = IF style.short /\ names = <<>> THEN <<Event("empty", question.action)>>
                 ELSE Element(question.action, content)
  OBVIOUS
<1>3. Written(question, style) = Element("Envelope", h \o Element("Body", pad \o act))
  BY <1>2 DEF Written, Pieces, Given
<1>4. Calls(act, question.action, Values(question.arguments))
  <2>1. CASE style.short /\ names = <<>>
    <3>1. PICK n \in Nat : Lists(names, n, DOMAIN question.arguments)
      BY <1>1, <1>2, NamesListed DEF Valued
    <3>2. DOMAIN names = {} /\ DOMAIN names = 1 .. n
      BY <2>1, <3>1 DEF Lists
    <3>3. DOMAIN question.arguments = {}
      BY <3>1, <3>2 DEF Lists
    <3>4. act = <<Event("empty", question.action)>>
      BY <1>2, <2>1
    <3> QED BY <1>1, <3>3, <3>4, BareCalls
  <2>2. CASE ~(style.short /\ names = <<>>)
    <3>1. act = Element(question.action, content)
      BY <1>2, <2>2
    <3>2. ReadsAll(content, Values(question.arguments))
      BY <1>1, <1>2, ArgumentsRead
    <3>3. content \in Seq(Events)
      BY <3>2 DEF ReadsAll
    <3>4. question.action \in Labels
      BY <1>1 DEF Labels
    <3> QED BY <3>1, <3>2, <3>3, <3>4, FullCalls
  <2> QED BY <2>1, <2>2
<1>5. h \in Seq(Events) /\ Headed(h)
  BY <1>2, HeaderIs
<1>6. pad \in Seq(Events) /\ Clear(pad)
  BY <1>1, <1>2, PadIs
<1>7. act \in Seq(Events)
  BY <1>4 DEF Calls
<1>8. PICK inner, events : inner = pad \o act /\ events = Written(question, style)
  OBVIOUS
<1>9. inner \in Seq(Events)
  BY <1>6, <1>7, <1>8, ConcatProperties
<1>10. /\ events \in Seq(Events)
       /\ \E b \in 1 .. Len(events) : find_body(events) = b /\ At(events, b, inner)
  BY <1>3, <1>5, <1>8, <1>9, BodyFound
<1>11. PICK b \in 1 .. Len(events) : find_body(events) = b /\ At(events, b, inner)
  BY <1>10
<1>12. Parsed(events) = {[name |-> question.action, arguments |-> Values(question.arguments)]}
  BY <1>4, <1>6, <1>8, <1>11, ActionRead
<1> QED BY <1>8, <1>10, <1>12 DEF Call

-----------------------------------------------------------------------------
(* Questions are understood.                                               *)

(* What was asked was one of the questions, in one of the styles.          *)
Asked ==
  asked = None \/ \E question \in Questions, style \in Styles :
                    asked = [question |-> question, body |-> Written(question, style)]

LEMMA AskedAlways == Spec => []Asked
<1>1. Init => Asked
  BY DEF Init, Asked
<1>2. Asked /\ [Next]_vars => Asked'
  <2> SUFFICES ASSUME Asked, [Next]_vars PROVE Asked'
    OBVIOUS
  <2>1. ASSUME NEW question \in Questions, NEW style \in Styles, Ask(question, style) PROVE Asked'
    <3>1. asked' = [question |-> question, body |-> Written(question, style)]
      BY <2>1 DEF Ask
    <3> QED BY <3>1 DEF Asked
  <2>2. CASE UNCHANGED asked
    BY <2>2 DEF Asked
  <2>3. Open \/ Browse \/ EndWalk \/ check_fault_701 \/ check_playback => UNCHANGED asked
    BY DEF Open, Browse, EndWalk, check_fault_701, check_playback
  <2>4. UNCHANGED vars => UNCHANGED asked
    BY DEF vars
  <2> QED BY <2>1, <2>2, <2>3, <2>4 DEF Next
<1> QED BY <1>1, <1>2, PTL DEF Spec

(* Whatever is asked, and however it is written, is understood as it was   *)
(* meant (soap.rs, parse_action).                                          *)
THEOREM QuestionsUnderstood == Spec => []Understood
<1>1. Asked => Understood
  <2> SUFFICES ASSUME NEW question \in Questions, NEW style \in Styles,
                      asked = [question |-> question, body |-> Written(question, style)]
               PROVE  Parsed(asked.body)
                        = {[name |-> asked.question.action,
                            arguments |-> [name \in DOMAIN asked.question.arguments |->
                                             trim(asked.question.arguments[name])]]}
    BY DEF Asked, Understood, Parsed
  <2>1. Parsed(Written(question, style)) = {Call(question)}
    BY WrittenRead
  <2>2. asked.question = question /\ asked.body = Written(question, style)
    OBVIOUS
  <2> QED BY <2>1, <2>2 DEF Call, Values
<1> QED BY <1>1, AskedAlways, PTL

-----------------------------------------------------------------------------
(* Where the requests go.                                                  *)

LEMMA OneChosen == ASSUME NEW x PROVE (CHOOSE r \in {x} : TRUE) = x
  OBVIOUS

LEMMA OrElseIs == ASSUME NEW x, NEW y PROVE OrElse({x}, y) = {x}
  BY DEF OrElse

LEMMA DescriptionTold ==
  handle(Get("GET", <<"description.xml">>)) = {Response(200, description)}
<1>1. route("GET", <<"description.xml">>) = Route("description", None)
  <2>1. PICK path, d : path = <<d>> /\ d = "description.xml"
    OBVIOUS
  <2>2. Len(path) = 1 /\ parse_path("item", path) = {} /\ parse_path("art", path) = {}
    BY <2>1 DEF parse_path
  <2>3. {t \in Services : path = scpd_path(t)} = {}
    BY <2>1 DEF scpd_path
  <2>4. {Route("item", id) : id \in parse_path("item", path)} = {}
    BY <2>2
  <2>5. {Route("art", id) : id \in parse_path("art", path)} = {}
    BY <2>2
  <2>6. {Route("scpd", s) : s \in {t \in Services : path = scpd_path(t)}} = {}
    BY <2>3
  <2>7. {Route("description", None) : p \in {path} \cap {<<"description.xml">>}} = {Route("description", None)}
    BY <2>1
  <2>8. route("GET", path)
          = CHOOSE r \in OrElse({Route("description", None)}, Route("not_found", None)) : TRUE
    BY <2>4, <2>5, <2>6, <2>7 DEF route
  <2> QED BY <2>1, <2>8, OneChosen, OrElseIs
<1>2. /\ Get("GET", <<"description.xml">>).method = "GET"
      /\ Get("GET", <<"description.xml">>).path = <<"description.xml">>
  BY DEF Get
<1>3. Route("description", None).kind = "description"
  BY DEF Route
<1> QED BY <1>1, <1>2, <1>3 DEF handle, respond

LEMMA ActionsTold ==
  ASSUME NEW service \in Services
  PROVE  handle(Get("GET", scpd_path(service))) = {Response(200, scpd_document(service))}
<1>1. PICK path : path = scpd_path(service)
  OBVIOUS
<1>2. Len(path) = 2 /\ path[1] = service /\ path # <<"description.xml">>
  BY <1>1 DEF scpd_path
<1>3. service # "item" /\ service # "art"
  BY DEF Services
<1>4. parse_path("item", path) = {} /\ parse_path("art", path) = {}
  BY <1>2, <1>3 DEF parse_path
<1>5. {t \in Services : path = scpd_path(t)} = {service}
  BY <1>1 DEF scpd_path
<1>6. route("GET", path) = Route("scpd", service)
  <2>1. {Route("item", id) : id \in parse_path("item", path)} = {}
    BY <1>4
  <2>2. {Route("art", id) : id \in parse_path("art", path)} = {}
    BY <1>4
  <2>3. {Route("scpd", s) : s \in {t \in Services : path = scpd_path(t)}} = {Route("scpd", service)}
    BY <1>5
  <2>4. {Route("description", None) : p \in {path} \cap {<<"description.xml">>}} = {}
    BY <1>2
  <2>5. route("GET", path) = CHOOSE r \in OrElse({Route("scpd", service)}, Route("not_found", None)) : TRUE
    BY <2>1, <2>2, <2>3, <2>4 DEF route
  <2> QED BY <2>5, OneChosen, OrElseIs
<1>7. Get("GET", path).method = "GET" /\ Get("GET", path).path = path
  BY DEF Get
<1>8. Route("scpd", service).kind = "scpd" /\ Route("scpd", service).of = service
  BY DEF Route
<1> QED BY <1>1, <1>6, <1>7, <1>8 DEF handle, respond

LEMMA ControlReached ==
  ASSUME NEW service \in Services, NEW req, req.method = "POST", req.path = control_path(service)
  PROVE  handle(req) = handle_control(service, req)
<1>1. PICK path : path = control_path(service)
  OBVIOUS
<1>2. {t \in Services : path = control_path(t)} = {service}
  BY <1>1 DEF control_path
<1>3. route("POST", path) = Route("control", service)
  <2>1. {Route("control", s) : s \in {t \in Services : path = control_path(t)}} = {Route("control", service)}
    BY <1>2
  <2>2. route("POST", path) = CHOOSE r \in OrElse({Route("control", service)}, Route("not_found", None)) : TRUE
    BY <2>1 DEF route
  <2> QED BY <2>2, OneChosen, OrElseIs
<1>4. Route("control", service).kind = "control" /\ Route("control", service).of = service
  BY DEF Route
<1> QED BY <1>1, <1>3, <1>4 DEF handle, respond

(* A body with one action in it is answered as the service answers that.   *)
Posted(req, service, body) ==
  /\ req.method = "POST" /\ req.path = control_path(service)
  /\ req.length = 1000 /\ req.body = body

LEMMA ControlAnswers ==
  ASSUME NEW service \in Services, NEW req, NEW body \in Seq(Events), Posted(req, service, body),
         NEW action, Parsed(body) = {action}, dispatch(service, action) # {}
  PROVE  handle(req) = dispatch(service, action)
<1>1. handle(req) = handle_control(service, req)
  BY ControlReached DEF Posted
<1>2. req.length # None /\ ~(req.length > MAX_BODY_LEN) /\ req.body # None
  BY BodiesAssumption DEF MAX_BODY_LEN, Posted
<1>3. parse_action(req.length, req.body) = {action}
  BY DEF Parsed, Posted
<1>4. handle_control(service, req)
        = OrElse(UNION {dispatch(service, a) : a \in {action}}, Fault(401))
  BY <1>2, <1>3 DEF handle_control
<1>5. UNION {dispatch(service, a) : a \in {action}} = dispatch(service, action)
  OBVIOUS
<1> QED BY <1>1, <1>4, <1>5 DEF OrElse

LEMMA QuestionDispatched ==
  ASSUME NEW service \in Services, NEW question \in Questions, NEW style \in Styles, NEW req,
         req = [Post(control_path(service), <<>>) EXCEPT !.body = Written(question, style)],
         dispatch(service, Call(question)) # {}
  PROVE  handle(req) = dispatch(service, Call(question))
<1>1. PICK body : body = Written(question, style)
  OBVIOUS
<1>2. Posted(req, service, body)
  BY <1>1 DEF Post, Posted
<1>3. Written(question, style) \in Seq(Events) /\ Parsed(Written(question, style)) = {Call(question)}
  BY WrittenRead
<1>4. body \in Seq(Events) /\ Parsed(body) = {Call(question)}
  BY <1>1, <1>3
<1>5. PICK action : action = Call(question)
  OBVIOUS
<1>6. handle(req) = dispatch(service, action)
  <2>1. Parsed(body) = {action} /\ dispatch(service, action) # {}
    BY <1>4, <1>5
  <2> QED BY <1>2, <1>4, <2>1, ControlAnswers
<1> QED BY <1>5, <1>6

-----------------------------------------------------------------------------
(* Questions are answered.                                                 *)

(* What an answer to this question has to be.                              *)
Answers(question, response) ==
  LET described == scpd_document(question.service)
  IN IF question.action \notin DOMAIN described THEN response = Fault(401)
     ELSE Allowed(question, described[question.action].in)
            => /\ response.status = 200
               /\ DOMAIN response.body = described[question.action].out

LEMMA ListingIs ==
  ASSUME NEW entries, NEW n
  PROVE  /\ browse_response(entries, n).status = 200
         /\ DOMAIN browse_response(entries, n).body = {"Result", "NumberReturned", "TotalMatches", "UpdateID"}
  BY DEF browse_response, Ok, Response

LEMMA RootListed ==
  (\E entries : children(Root) = {entries}) /\ (\E found : entry(Root) = {found})
  BY DEF children, entry

LEMMA RootBrowsed ==
  ASSUME NEW action, {"ObjectID", "BrowseFlag"} \subseteq DOMAIN action.arguments,
         action.arguments["ObjectID"] = Root,
         action.arguments["BrowseFlag"] \in {<<"BrowseMetadata">>, <<"BrowseDirectChildren">>}
  PROVE  \E entries, n : browse(action) = {browse_response(entries, n)}
<1>1. PICK id, flag : id = action.arguments["ObjectID"] /\ flag = action.arguments["BrowseFlag"]
  OBVIOUS
<1>2. <<"BrowseMetadata">> # <<"BrowseDirectChildren">>
  OBVIOUS
<1>3. CASE flag = <<"BrowseDirectChildren">>
  <2>1. PICK answers : answers = {browse_response(paginate(listing, action), Len(listing)) :
                                    listing \in children(action.arguments.ObjectID)}
    OBVIOUS
  <2>2. browse(action) = OrElse(answers, Fault(701))
    BY <1>1, <1>3, <2>1, ZenonT(30) DEF browse
  <2>3. PICK listing : children(Root) = {listing}
    BY RootListed
  <2>4. PICK entries, n : entries = paginate(listing, action) /\ n = Len(listing)
    OBVIOUS
  <2>5. answers = {browse_response(entries, n)}
    BY <2>1, <2>3, <2>4
  <2>6. browse(action) = {browse_response(entries, n)}
    BY <2>2, <2>5, OrElseIs
  <2> QED BY <2>6
<1>4. CASE flag = <<"BrowseMetadata">>
  <2>1. PICK answers : answers = {browse_response(<<found>>, 1) :
                                    found \in entry(action.arguments.ObjectID)}
    OBVIOUS
  <2>2. browse(action) = OrElse(answers, Fault(701))
    BY <1>1, <1>2, <1>4, <2>1, ZenonT(30) DEF browse
  <2>3. PICK found : entry(Root) = {found}
    BY RootListed
  <2>4. PICK entries, n : entries = <<found>> /\ n = 1
    OBVIOUS
  <2>5. answers = {browse_response(entries, n)}
    BY <2>1, <2>3, <2>4
  <2>6. browse(action) = {browse_response(entries, n)}
    BY <2>2, <2>5, OrElseIs
  <2> QED BY <2>6
<1> QED BY <1>1, <1>3, <1>4

LEMMA BrowseAnswers ==
  ASSUME NEW question, question.service = "ContentDirectory", question.action = "Browse",
         NEW response, response \in browse(Call(question))
  PROVE  Answers(question, response)
<1>1. PICK action, in, out :
        /\ action = Call(question)
        /\ in = {"ObjectID", "BrowseFlag", "Filter", "StartingIndex", "RequestedCount", "SortCriteria"}
        /\ out = {"Result", "NumberReturned", "TotalMatches", "UpdateID"}
  OBVIOUS
<1>2. scpd_document(question.service) = content_directory_xml
  BY DEF scpd_document
<1>3. /\ "Browse" \in DOMAIN content_directory_xml
      /\ content_directory_xml["Browse"].in = in /\ content_directory_xml["Browse"].out = out
  BY <1>1 DEF content_directory_xml, Arguments
<1>4. SUFFICES ASSUME Allowed(question, in)
               PROVE  response.status = 200 /\ DOMAIN response.body = out
  BY <1>2, <1>3 DEF Answers
<1>5. /\ DOMAIN action.arguments = in
      /\ action.arguments["ObjectID"] = Root
      /\ action.arguments["BrowseFlag"] \in {<<"BrowseMetadata">>, <<"BrowseDirectChildren">>}
  BY <1>1, <1>4 DEF Call, Values, Allowed
<1>6. {"ObjectID", "BrowseFlag"} \subseteq DOMAIN action.arguments
  BY <1>1, <1>5
<1>7. PICK entries, n : browse(action) = {browse_response(entries, n)}
  BY <1>5, <1>6, RootBrowsed
<1>8. response = browse_response(entries, n)
  BY <1>1, <1>7
<1> QED BY <1>1, <1>8, ListingIs

LEMMA DirectoryAnswers ==
  ASSUME NEW question, question.service = "ContentDirectory",
         NEW response, response \in content_directory_action(Call(question))
  PROVE  Answers(question, response)
<1>1. PICK action, name : action = Call(question) /\ name = question.action
  OBVIOUS
<1>2. action.name = name
  BY <1>1 DEF Call
<1>3. scpd_document(question.service) = content_directory_xml
  BY DEF scpd_document
<1>4. DOMAIN content_directory_xml
        = {"Browse", "GetSearchCapabilities", "GetSortCapabilities", "GetSystemUpdateID"}
  BY DEF content_directory_xml
<1>5. CASE name = "Browse"
  <2>1. content_directory_action(action) = browse(action)
    BY <1>2, <1>5 DEF content_directory_action
  <2> QED BY <1>1, <1>5, <2>1, BrowseAnswers
<1>6. CASE name = "GetSearchCapabilities"
  <2>1. content_directory_action(action) = {Ok([SearchCaps |-> <<>>])}
    BY <1>2, <1>6 DEF content_directory_action
  <2>2. response.status = 200 /\ DOMAIN response.body = {"SearchCaps"}
    BY <1>1, <2>1 DEF Ok, Response
  <2>3. content_directory_xml[name].out = {"SearchCaps"}
    BY <1>6 DEF content_directory_xml, Arguments
  <2> QED BY <1>1, <1>3, <1>4, <1>6, <2>2, <2>3 DEF Answers
<1>7. CASE name = "GetSortCapabilities"
  <2>1. content_directory_action(action) = {Ok([SortCaps |-> <<>>])}
    BY <1>2, <1>7 DEF content_directory_action
  <2>2. response.status = 200 /\ DOMAIN response.body = {"SortCaps"}
    BY <1>1, <2>1 DEF Ok, Response
  <2>3. content_directory_xml[name].out = {"SortCaps"}
    BY <1>7 DEF content_directory_xml, Arguments
  <2> QED BY <1>1, <1>3, <1>4, <1>7, <2>2, <2>3 DEF Answers
<1>8. CASE name = "GetSystemUpdateID"
  <2>1. content_directory_action(action) = {Ok([Id |-> 1])}
    BY <1>2, <1>8 DEF content_directory_action
  <2>2. response.status = 200 /\ DOMAIN response.body = {"Id"}
    BY <1>1, <2>1 DEF Ok, Response
  <2>3. content_directory_xml[name].out = {"Id"}
    BY <1>8 DEF content_directory_xml, Arguments
  <2> QED BY <1>1, <1>3, <1>4, <1>8, <2>2, <2>3 DEF Answers
<1>9. CASE name \notin DOMAIN content_directory_xml
  <2>1. content_directory_action(action) = {Fault(401)}
    BY <1>2, <1>4, <1>9 DEF content_directory_action
  <2> QED BY <1>1, <1>3, <1>9, <2>1 DEF Answers
<1> QED BY <1>4, <1>5, <1>6, <1>7, <1>8, <1>9

LEMMA ConnectionAnswers ==
  ASSUME NEW question, question.service # "ContentDirectory",
         NEW response, response \in connection_manager_action(Call(question))
  PROVE  Answers(question, response)
<1>1. PICK action, name : action = Call(question) /\ name = question.action
  OBVIOUS
<1>2. action.name = name
  BY <1>1 DEF Call
<1>3. scpd_document(question.service) = connection_manager_xml
  BY DEF scpd_document
<1>4. DOMAIN connection_manager_xml
        = {"GetProtocolInfo", "GetCurrentConnectionIDs", "GetCurrentConnectionInfo"}
  BY DEF connection_manager_xml
<1>5. CASE name = "GetProtocolInfo"
  <2>1. connection_manager_action(action) = {Ok([Source |-> <<"http-get:*:*:*">>, Sink |-> <<>>])}
    BY <1>2, <1>5 DEF connection_manager_action
  <2>2. response.status = 200 /\ DOMAIN response.body = {"Source", "Sink"}
    BY <1>1, <2>1 DEF Ok, Response
  <2>3. connection_manager_xml[name].out = {"Source", "Sink"}
    BY <1>5 DEF connection_manager_xml, Arguments
  <2> QED BY <1>1, <1>3, <1>4, <1>5, <2>2, <2>3 DEF Answers
<1>6. CASE name = "GetCurrentConnectionIDs"
  <2>1. connection_manager_action(action) = {Ok([ConnectionIDs |-> <<"0">>])}
    BY <1>2, <1>6 DEF connection_manager_action
  <2>2. response.status = 200 /\ DOMAIN response.body = {"ConnectionIDs"}
    BY <1>1, <2>1 DEF Ok, Response
  <2>3. connection_manager_xml[name].out = {"ConnectionIDs"}
    BY <1>6 DEF connection_manager_xml, Arguments
  <2> QED BY <1>1, <1>3, <1>4, <1>6, <2>2, <2>3 DEF Answers
<1>7. CASE name = "GetCurrentConnectionInfo"
  <2>1. PICK out : out = {"RcsID", "AVTransportID", "ProtocolInfo", "PeerConnectionManager",
                          "PeerConnectionID", "Direction", "Status"}
    OBVIOUS
  <2>2. /\ connection_manager_xml[name].in = {"ConnectionID"}
        /\ connection_manager_xml[name].out = out
    BY <1>7, <2>1 DEF connection_manager_xml, Arguments
  <2>3. SUFFICES ASSUME Allowed(question, {"ConnectionID"})
                 PROVE  response.status = 200 /\ DOMAIN response.body = out
    BY <1>1, <1>3, <1>4, <1>7, <2>2 DEF Answers
  <2>4. /\ "ConnectionID" \in DOMAIN action.arguments
        /\ action.arguments.ConnectionID = <<"0">>
    BY <1>1, <1>7, <2>3 DEF Allowed, Call, Values
  <2>5. connection_manager_action(action)
          = {Ok([RcsID |-> <<"-1">>, AVTransportID |-> <<"-1">>, ProtocolInfo |-> <<>>,
                 PeerConnectionManager |-> <<>>, PeerConnectionID |-> <<"-1">>,
                 Direction |-> <<"Output">>, Status |-> <<"OK">>])}
    BY <1>2, <1>7, <2>4 DEF connection_manager_action
  <2> QED BY <1>1, <2>1, <2>5 DEF Ok, Response
<1>8. CASE name \notin DOMAIN connection_manager_xml
  <2>1. connection_manager_action(action) = {Fault(401)}
    BY <1>2, <1>4, <1>8 DEF connection_manager_action
  <2> QED BY <1>1, <1>3, <1>8, <2>1 DEF Answers
<1> QED BY <1>4, <1>5, <1>6, <1>7, <1>8

LEMMA OrElseAnswers == ASSUME NEW S, NEW y PROVE OrElse(S, y) # {}
  BY DEF OrElse

LEMMA BrowseResponds == ASSUME NEW action PROVE browse(action) # {}
<1>1. PICK A : A = {browse_response(paginate(listing, action), Len(listing)) :
                      listing \in children(action.arguments.ObjectID)}
  OBVIOUS
<1>2. PICK B : B = {browse_response(<<found>>, 1) : found \in entry(action.arguments.ObjectID)}
  OBVIOUS
<1>3. OrElse(A, Fault(701)) # {} /\ OrElse(B, Fault(701)) # {}
  BY OrElseAnswers
<1>4. browse(action) \in {OrElse(A, Fault(701)), OrElse(B, Fault(701)), {Fault(402)}}
  BY <1>1, <1>2 DEF browse
<1> QED BY <1>3, <1>4

LEMMA DispatchResponds ==
  ASSUME NEW service, NEW action
  PROVE  dispatch(service, action) # {}
<1>1. content_directory_action(action) # {}
  <2>1. PICK name : name = action.name
    OBVIOUS
  <2>2. CASE name = "Browse"
    BY <2>1, <2>2, BrowseResponds DEF content_directory_action
  <2>3. CASE name # "Browse"
    BY <2>1, <2>3 DEF content_directory_action
  <2> QED BY <2>2, <2>3
<1>2. connection_manager_action(action) # {}
  BY ZenonT(30) DEF connection_manager_action
<1> QED BY <1>1, <1>2 DEF dispatch

LEMMA Dispatched ==
  ASSUME NEW service \in Services, NEW question, question.service = service,
         NEW response, response \in dispatch(service, Call(question))
  PROVE  Answers(question, response)
<1>1. CASE service = "ContentDirectory"
  BY <1>1, DirectoryAnswers DEF dispatch
<1>2. CASE service # "ContentDirectory"
  BY <1>2, ConnectionAnswers DEF dispatch
<1> QED BY <1>1, <1>2

(* The last question went to a service there is, and was answered.         *)
Answered ==
  asked # None => asked.question.service \in Services /\ Answers(asked.question, answer)

LEMMA AskIsAnswered ==
  ASSUME NEW question \in Questions, NEW style \in Styles, Ask(question, style)
  PROVE  Answered'
<1>1. PICK device \in handle(Get("GET", <<"description.xml">>)) :
        \E service \in {s \in device.body : s.service = question.service} :
          \E response \in handle([Post(service.control, <<>>) EXCEPT
                                    !.body = Written(question, style)]) :
            /\ asked' = [question |-> question, body |-> Written(question, style)]
            /\ answer' = response
  BY DEF Ask
<1>2. device.body = description
  BY <1>1, DescriptionTold DEF Response
<1>3. PICK service \in description :
        /\ service.service = question.service
        /\ \E response \in handle([Post(service.control, <<>>) EXCEPT
                                     !.body = Written(question, style)]) :
             /\ asked' = [question |-> question, body |-> Written(question, style)]
             /\ answer' = response
  BY <1>1, <1>2
<1>4. PICK s \in Services : s = service.service /\ service.control = control_path(s)
  BY <1>3 DEF description
<1>5. PICK req : req = [Post(control_path(s), <<>>) EXCEPT !.body = Written(question, style)]
  OBVIOUS
<1>6. answer' \in handle(req) /\ asked'.question = question
  BY <1>3, <1>4, <1>5
<1>7. handle(req) = dispatch(s, Call(question))
  BY <1>5, DispatchResponds, QuestionDispatched
<1>8. question.service = s
  BY <1>3, <1>4
<1>9. Answers(question, answer')
  BY <1>6, <1>7, <1>8, Dispatched
<1>10. Answers(asked'.question, answer')
  BY <1>6, <1>9
<1> QED BY <1>6, <1>8, <1>10 DEF Answered, Answers

LEMMA AnsweredAlways == Spec => []Answered
<1>1. Init => Answered
  BY DEF Init, Answered
<1>2. Answered /\ [Next]_vars => Answered'
  <2> SUFFICES ASSUME Answered, [Next]_vars PROVE Answered'
    OBVIOUS
  <2>1. CASE UNCHANGED <<asked, answer>>
    BY <2>1 DEF Answered, Answers
  <2>2. Open \/ Browse \/ EndWalk \/ check_fault_701 \/ check_playback => UNCHANGED <<asked, answer>>
    BY DEF Open, Browse, EndWalk, check_fault_701, check_playback
  <2>3. UNCHANGED vars => UNCHANGED <<asked, answer>>
    BY DEF vars
  <2> QED BY <2>1, <2>2, <2>3, AskIsAnswered DEF Next
<1> QED BY <1>1, <1>2, PTL DEF Spec

(* An action its service describes, given the arguments described, is      *)
(* answered with the results described, and any other with fault 401       *)
(* (scpd.rs against dispatch.rs, over the routes of http/router.rs).       *)
THEOREM QuestionsAnswered == Spec => []AnswersAsDescribed
<1>1. Answered => AnswersAsDescribed
  <2> SUFFICES ASSUME Answered, asked # None PROVE AnswersAsDescribed
    BY DEF AnswersAsDescribed
  <2>1. PICK question, document :
          question = asked.question /\ document = scpd_document(question.service)
    OBVIOUS
  <2>2. question.service \in Services /\ Answers(question, answer)
    BY <2>1 DEF Answered
  <2>3. handle(Get("GET", scpd_path(question.service))) = {Response(200, document)}
    BY <2>1, <2>2, ActionsTold
  <2>4. PICK action : action = question.action
    OBVIOUS
  <2>5. IF action \notin DOMAIN document THEN answer = Fault(401)
        ELSE Allowed(question, document[action].in)
               => /\ answer.status = 200 /\ DOMAIN answer.body = document[action].out
    BY <2>1, <2>2, <2>4 DEF Answers
  <2>6. ASSUME NEW response \in handle(Get("GET", scpd_path(question.service)))
        PROVE  IF action \notin DOMAIN response.body THEN answer = Fault(401)
               ELSE Allowed(question, response.body[action].in)
                      => /\ answer.status = 200 /\ DOMAIN answer.body = response.body[action].out
    <3>1. response.body = document
      BY <2>3 DEF Response
    <3> QED BY <2>5, <3>1
  <2> QED BY <2>1, <2>4, <2>6 DEF AnswersAsDescribed
<1> QED BY <1>1, AnsweredAlways, PTL

-----------------------------------------------------------------------------
(* Numbers, written and read.                                              *)

DigitOf(token) == CHOOSE d \in 0 .. 9 : Digits[d + 1] = token

Figures == ToSet(Digits)

LEMMA DigitIs ==
  ASSUME NEW d \in 0 .. 9
  PROVE  Digits[d + 1] \in Figures /\ DigitOf(Digits[d + 1]) = d
<1>1. \A x, y \in 1 .. 10 : Digits[x] = Digits[y] => x = y
  BY DEF Digits
<1>2. \A x, y \in 0 .. 9 : Digits[x + 1] = Digits[y + 1] => x = y
  <2> SUFFICES ASSUME NEW x \in 0 .. 9, NEW y \in 0 .. 9, Digits[x + 1] = Digits[y + 1] PROVE x = y
    OBVIOUS
  <2>1. PICK a, b : a = x + 1 /\ b = y + 1
    OBVIOUS
  <2>2. a \in 1 .. 10 /\ b \in 1 .. 10 /\ Digits[a] = Digits[b]
    BY <2>1
  <2>3. a = b
    BY <1>1, <2>2
  <2> QED BY <2>1, <2>3
<1>3. DOMAIN Digits = 1 .. 10
  BY DEF Digits
<1>4. Digits[d + 1] \in Figures
  <2>1. d + 1 \in DOMAIN Digits
    BY <1>3
  <2> QED BY <2>1 DEF Figures, ToSet
<1>5. PICK token : token = Digits[d + 1]
  OBVIOUS
<1>6. DigitOf(token) \in 0 .. 9 /\ Digits[DigitOf(token) + 1] = token
  BY <1>5 DEF DigitOf
<1>7. DigitOf(token) = d
  BY <1>2, <1>5, <1>6
<1> QED BY <1>4, <1>5, <1>7

LEMMA DigitTyped == \A token \in Figures : DigitOf(token) \in Nat
<1> SUFFICES ASSUME NEW token \in Figures PROVE DigitOf(token) \in Nat
  OBVIOUS
<1>1. DOMAIN Digits = 1 .. 10
  BY DEF Digits
<1>2. PICK i \in 1 .. 10 : token = Digits[i]
  BY <1>1 DEF Figures, ToSet
<1>3. PICK d : d = i - 1
  OBVIOUS
<1>4. d \in 0 .. 9 /\ d + 1 = i
  BY <1>3
<1>5. DigitOf(token) = d
  BY <1>2, <1>4, DigitIs
<1> QED BY <1>4, <1>5

(* A number's value, digit by digit.                                       *)
ValueRuns(f, digits) ==
  /\ f[0] = 0
  /\ \A n \in 1 .. Len(digits) : f[n] = 10 * f[n - 1] + DigitOf(digits[n])
  /\ \A n \in 0 .. Len(digits) : f[n] \in Nat

LEMMA ValueIs ==
  ASSUME NEW digits \in Seq(Figures)
  PROVE  \E f : ValueRuns(f, digits) /\ ValueOf(digits) = f[Len(digits)]
<1> DEFINE len == Len(digits)
           Turn(v, n) == 10 * v + DigitOf(digits[n])
           h == [p \in Nat \X Nat |-> IF p[2] \in 1 .. len THEN Turn(p[1], p[2]) ELSE p[1]]
<1>1. len \in Nat /\ \A n \in 1 .. len : digits[n] \in Figures
  BY LenProperties, ElementOfSeq
<1>2. h \in [Nat \X Nat -> Nat]
  <2>1. ASSUME NEW p \in Nat \X Nat PROVE (IF p[2] \in 1 .. len THEN Turn(p[1], p[2]) ELSE p[1]) \in Nat
    <3>1. p[1] \in Nat /\ p[2] \in Nat
      OBVIOUS
    <3>2. CASE p[2] \in 1 .. len
      <4>1. DigitOf(digits[p[2]]) \in Nat
        BY <1>1, <3>2, DigitTyped
      <4> QED BY <3>1, <3>2, <4>1
    <3> QED BY <3>1, <3>2
  <2> QED BY <2>1
<1> HIDE DEF h
<1>3. PICK f \in [0 .. len -> Nat] : Runs(f, len, 0, h)
  BY <1>1, <1>2, RunExists
<1>4. ASSUME NEW n \in 1 .. len PROVE f[n] = Turn(f[n - 1], n)
  <2>1. n - 1 \in 0 .. len /\ n \in Nat
    BY <1>1
  <2>2. f[n - 1] \in Nat
    BY <2>1
  <2>3. f[n] = h[<<f[n - 1], n>>]
    BY <1>3 DEF Runs
  <2> QED BY <2>1, <2>2, <2>3 DEF h
<1>5. f = [n \in 0 .. len |-> IF n = 0 THEN 0 ELSE Turn(f[n - 1], n)]
  <2>1. f[0] = 0
    BY <1>3 DEF Runs
  <2>2. \A n \in 0 .. len : n = 0 \/ n \in 1 .. len
    BY <1>1
  <2> HIDE DEF Turn
  <2> QED BY <1>4, <2>1, <2>2
<1> DEFINE g == CHOOSE value : value = [n \in 0 .. Len(digits) |->
                  IF n = 0 THEN 0
                  ELSE 10 * value[n - 1] + CHOOSE d \in 0 .. 9 : Digits[d + 1] = digits[n]]
<1>6. ValueOf(digits) = g[len]
  BY DEF ValueOf
<1>7. g = [n \in 0 .. len |-> IF n = 0 THEN 0 ELSE Turn(g[n - 1], n)]
  BY <1>5 DEF DigitOf
<1> HIDE DEF g
<1>8. g[0] = 0
  BY <1>1, <1>7
<1>9. ASSUME NEW n \in 1 .. len PROVE g[n] = Turn(g[n - 1], n)
  <2>1. n \in 0 .. len /\ n # 0
    BY <1>1
  <2> HIDE DEF Turn
  <2> QED BY <1>7, <2>1
<1> DEFINE S == {n \in Nat : n <= len => g[n] \in Nat}
<1>10. \A n \in Nat : n \in S
  <2>1. 0 \in S
    BY <1>8
  <2>2. ASSUME NEW n \in Nat, n \in S PROVE n + 1 \in S
    <3> SUFFICES ASSUME n + 1 <= len PROVE g[n + 1] \in Nat
      OBVIOUS
    <3>1. PICK m : m = n + 1
      OBVIOUS
    <3>2. m \in 1 .. len /\ m - 1 = n /\ n <= len
      BY <1>1, <3>1
    <3>3. g[m] = Turn(g[n], m) /\ g[n] \in Nat
      BY <1>9, <2>2, <3>2
    <3>4. DigitOf(digits[m]) \in Nat
      BY <1>1, <3>2, DigitTyped
    <3> QED BY <3>1, <3>3, <3>4
  <2> HIDE DEF S
  <2> QED BY <2>1, <2>2, NatInduct
<1>11. \A n \in 0 .. len : g[n] \in Nat
  BY <1>1, <1>10
<1>12. ValueRuns(g, digits)
  BY <1>8, <1>9, <1>11 DEF ValueRuns
<1> QED BY <1>6, <1>12

(* One digit more.                                                         *)
LEMMA ValueMore ==
  ASSUME NEW digits \in Seq(Figures), NEW token \in Figures
  PROVE  /\ ValueOf(digits) \in Nat
         /\ ValueOf(Append(digits, token)) = 10 * ValueOf(digits) + DigitOf(token)
<1>1. PICK more, len : more = Append(digits, token) /\ len = Len(digits)
  OBVIOUS
<1>2. /\ more \in Seq(Figures) /\ Len(more) = len + 1 /\ more[len + 1] = token /\ len \in Nat
      /\ \A n \in 1 .. len : more[n] = digits[n]
  BY <1>1, AppendProperties, LenProperties
<1>3. PICK f : ValueRuns(f, digits) /\ ValueOf(digits) = f[len]
  BY <1>1, ValueIs
<1>4. PICK g : ValueRuns(g, more) /\ ValueOf(more) = g[len + 1]
  BY <1>2, ValueIs
<1>5. /\ f[0] = 0 /\ g[0] = 0
      /\ \A n \in 1 .. len : f[n] = 10 * f[n - 1] + DigitOf(digits[n])
      /\ \A n \in 1 .. len + 1 : g[n] = 10 * g[n - 1] + DigitOf(more[n])
      /\ f[len] \in Nat
  BY <1>1, <1>2, <1>3, <1>4 DEF ValueRuns
<1> DEFINE S == {n \in Nat : n <= len => f[n] = g[n]}
<1>6. \A n \in Nat : n \in S
  <2>1. 0 \in S
    BY <1>5
  <2>2. ASSUME NEW n \in Nat, n \in S PROVE n + 1 \in S
    <3> SUFFICES ASSUME n + 1 <= len PROVE f[n + 1] = g[n + 1]
      OBVIOUS
    <3>1. PICK m : m = n + 1
      OBVIOUS
    <3>2. m \in 1 .. len /\ m \in 1 .. len + 1 /\ m - 1 = n /\ n <= len
      BY <1>2, <3>1
    <3>3. f[m] = 10 * f[n] + DigitOf(digits[m]) /\ g[m] = 10 * g[n] + DigitOf(more[m])
      BY <1>5, <3>2
    <3>4. f[n] = g[n] /\ more[m] = digits[m]
      BY <1>2, <2>2, <3>2
    <3> QED BY <3>1, <3>3, <3>4
  <2> HIDE DEF S
  <2> QED BY <2>1, <2>2, NatInduct
<1>7. f[len] = g[len]
  BY <1>2, <1>6
<1>8. g[len + 1] = 10 * g[len] + DigitOf(token)
  <2>1. PICK m : m = len + 1
    OBVIOUS
  <2>2. m \in 1 .. len + 1 /\ m - 1 = len
    BY <1>2, <2>1
  <2> QED BY <1>2, <1>5, <2>1, <2>2
<1> QED BY <1>1, <1>3, <1>4, <1>5, <1>7, <1>8

LEMMA ValueOne ==
  ASSUME NEW token \in Figures
  PROVE  <<token>> \in Seq(Figures) /\ ValueOf(<<token>>) = DigitOf(token)
<1>1. PICK digits : digits = <<token>>
  OBVIOUS
<1>2. digits \in Seq(Figures) /\ Len(digits) = 1 /\ digits[1] = token
  BY <1>1, SingleIs
<1>3. PICK f : ValueRuns(f, digits) /\ ValueOf(digits) = f[1]
  BY <1>2, ValueIs
<1>4. PICK one : one = 1
  OBVIOUS
<1>5. one \in 1 .. Len(digits) /\ one - 1 = 0
  BY <1>2, <1>4
<1>6. f[one] = 10 * f[one - 1] + DigitOf(digits[one]) /\ f[0] = 0
  BY <1>3, <1>5 DEF ValueRuns
<1>7. DigitOf(token) \in Nat
  BY DigitTyped
<1> QED BY <1>1, <1>2, <1>3, <1>4, <1>5, <1>6, <1>7

LEMMA TenDivides ==
  ASSUME NEW k \in Nat
  PROVE  /\ k \div 10 \in Nat /\ k % 10 \in 0 .. 9 /\ k = (10 * (k \div 10)) + (k % 10)
         /\ k >= 10 => k \div 10 < k
  OBVIOUS

Spelling(f, k) ==
  IF k < 10 THEN <<Digits[k + 1]>> ELSE Append(f[k \div 10], Digits[(k % 10) + 1])

LEMMA SpellingExists ==
  ASSUME NEW n \in Nat
  PROVE  \E f : f = [k \in 0 .. n |-> Spelling(f, k)]
<1> DEFINE Good(f, m) == /\ f = [k \in 0 .. n |-> f[k]]
                         /\ \A k \in 0 .. n : k < m => f[k] = Spelling(f, k)
           S == {m \in Nat : \E f : Good(f, m)}
<1>1. 0 \in S
  <2> DEFINE f == [k \in 0 .. n |-> 0]
  <2>1. Good(f, 0)
    OBVIOUS
  <2> QED BY <2>1
<1>2. ASSUME NEW m \in Nat, m \in S PROVE m + 1 \in S
  <2>1. PICK f : Good(f, m)
    BY <1>2
  <2> DEFINE g == [k \in 0 .. n |-> IF k = m THEN Spelling(f, m) ELSE f[k]]
  <2>2. /\ g = [k \in 0 .. n |-> g[k]]
        /\ \A k \in 0 .. n : k = m => g[k] = Spelling(f, m)
        /\ \A k \in 0 .. n : k # m => g[k] = f[k]
    OBVIOUS
  <2> HIDE DEF g
  <2>3. ASSUME NEW k \in 0 .. n, k < m + 1 PROVE g[k] = Spelling(g, k)
    <3>1. Spelling(f, k) = Spelling(g, k)
      <4>1. CASE k < 10
        BY <4>1 DEF Spelling
      <4>2. CASE k >= 10
        <5>1. PICK q : q = k \div 10
          OBVIOUS
        <5>2. q \in Nat /\ q < k
          BY <4>2, <5>1, TenDivides
        <5>3. q \in 0 .. n /\ q # m
          BY <2>3, <5>2
        <5>4. f[q] = g[q]
          BY <2>2, <5>3
        <5> QED BY <5>1, <5>4 DEF Spelling
      <4> QED BY <4>1, <4>2
    <3>2. CASE k = m
      BY <2>2, <3>1, <3>2
    <3>3. CASE k # m
      <4>1. k < m
        BY <2>3, <3>3
      <4> QED BY <2>1, <2>2, <3>1, <3>3, <4>1
    <3> QED BY <3>2, <3>3
  <2>4. Good(g, m + 1)
    BY <2>2, <2>3
  <2> HIDE DEF Good
  <2> QED BY <2>4
<1>3. n + 1 \in S
  <2> HIDE DEF S
  <2>1. \A m \in Nat : m \in S
    BY <1>1, <1>2, NatInduct
  <2> QED BY <2>1
<1>4. PICK f : Good(f, n + 1)
  BY <1>3
<1>5. f = [k \in 0 .. n |-> Spelling(f, k)]
  BY <1>4
<1> QED BY <1>5

(* A number written out is read again as that number.                      *)
LEMMA DecimalIs ==
  ASSUME NEW n \in Nat
  PROVE  /\ Decimal(n) \in Seq(Figures) /\ Decimal(n) # <<>>
         /\ ValueOf(Decimal(n)) = n
<1> DEFINE f == CHOOSE digits : digits = [k \in 0 .. n |->
                  IF k < 10 THEN <<Digits[k + 1]>>
                  ELSE Append(digits[k \div 10], Digits[(k % 10) + 1])]
<1>1. Decimal(n) = f[n]
  BY SMTT(30) DEF Decimal
<1>2. f = [k \in 0 .. n |-> Spelling(f, k)]
  BY SpellingExists DEF Spelling
<1> HIDE DEF f
<1> DEFINE Meant(k) == f[k] \in Seq(Figures) /\ f[k] # <<>> /\ ValueOf(f[k]) = k
           S == {k \in Nat : k <= n => Meant(k)}
<1>3. ASSUME NEW k \in Nat, \A m \in Nat : m < k => m \in S PROVE k \in S
  <2> SUFFICES ASSUME k <= n PROVE Meant(k)
    OBVIOUS
  <2>1. f[k] = Spelling(f, k)
    BY <1>2
  <2>2. CASE k < 10
    <3>1. k \in 0 .. 9
      BY <2>2
    <3>2. PICK token : token = Digits[k + 1]
      OBVIOUS
    <3>3. token \in Figures /\ DigitOf(token) = k
      BY <3>1, <3>2, DigitIs
    <3>4. f[k] = <<token>>
      BY <2>1, <2>2, <3>2 DEF Spelling
    <3> QED BY <3>3, <3>4, ValueOne
  <2>3. CASE k >= 10
    <3>1. PICK q, d : q = k \div 10 /\ d = k % 10
      OBVIOUS
    <3>2. q \in Nat /\ d \in 0 .. 9 /\ k = 10 * q + d /\ q < k
      BY <2>3, <3>1, TenDivides
    <3>3. PICK token, rest : token = Digits[d + 1] /\ rest = f[q]
      OBVIOUS
    <3>4. token \in Figures /\ DigitOf(token) = d
      BY <3>2, <3>3, DigitIs
    <3>5. rest \in Seq(Figures) /\ ValueOf(rest) = q
      BY <1>3, <3>2, <3>3
    <3>6. f[k] = Append(rest, token)
      <4>1. ~(k < 10)
        BY <2>3
      <4> QED BY <2>1, <4>1, <3>1, <3>3 DEF Spelling
    <3>7. Append(rest, token) \in Seq(Figures) /\ Append(rest, token) # <<>>
      BY <3>4, <3>5, AppendProperties
    <3>8. ValueOf(f[k]) = k
      BY <3>2, <3>4, <3>5, <3>6, ValueMore
    <3> QED BY <3>6, <3>7, <3>8
  <2> QED BY <2>2, <2>3
<1>4. n \in S
  <2> HIDE DEF S
  <2> QED BY <1>3, NatInductBelow
<1> QED BY <1>1, <1>4

-----------------------------------------------------------------------------
(* A Browse request is read as it was meant.                               *)

Unspaced(text) == \A i \in 1 .. Len(text) : text[i] # " "

LEMMA TrimNone ==
  ASSUME NEW X, NEW text \in Seq(X), Unspaced(text)
  PROVE  trim(text) = text
<1>1. PICK blank, n : blank = " " /\ n = Len(text)
  OBVIOUS
<1>2. n \in Nat /\ DOMAIN text = 1 .. n /\ \A i \in 1 .. n : text[i] \in X
  BY <1>1, LenProperties, ElementOfSeq
<1>3. Solid(text, blank) = 1 .. n
  BY <1>1, <1>2 DEF Solid, Unspaced
<1>4. \/ Solid(text, blank) = {} /\ Trimmed(text, blank) = <<>>
      \/ \E a, b \in 1 .. Len(text) :
           /\ a <= b /\ Trimmed(text, blank) = SubSeq(text, a, b)
           /\ a \in Solid(text, blank) /\ b \in Solid(text, blank)
           /\ \A i \in Solid(text, blank) : a <= i /\ i <= b
  BY TrimIs
<1>5. Trimmed(text, blank) = text
  <2>1. CASE Solid(text, blank) = {} /\ Trimmed(text, blank) = <<>>
    <3>1. n = 0
      BY <1>2, <1>3, <2>1
    <3>2. text = <<>>
      BY <1>1, <3>1, EmptySeq
    <3> QED BY <2>1, <3>2
  <2>2. CASE \E a, b \in 1 .. Len(text) :
           /\ a <= b /\ Trimmed(text, blank) = SubSeq(text, a, b)
           /\ a \in Solid(text, blank) /\ b \in Solid(text, blank)
           /\ \A i \in Solid(text, blank) : a <= i /\ i <= b
    <3>1. PICK a, b \in 1 .. n :
            /\ a <= b /\ Trimmed(text, blank) = SubSeq(text, a, b)
            /\ \A i \in 1 .. n : a <= i /\ i <= b
      BY <1>1, <1>3, <2>2
    <3>2. 1 \in 1 .. n /\ n \in 1 .. n
      BY <1>2, <3>1
    <3>3. a = 1 /\ b = n
      <4>1. a <= 1 /\ n <= b
        BY <3>1, <3>2
      <4> QED BY <1>2, <3>1, <4>1
    <3>4. SubSeq(text, 1, n) = text
      <4>1. PICK one, s : one = 1 /\ s = SubSeq(text, one, n)
        OBVIOUS
      <4>2. one \in Int /\ n \in Int /\ one <= n /\ \A i \in one .. n : text[i] \in X
        BY <1>2, <3>2, <4>1
      <4>3. s \in Seq(X) /\ Len(s) = n - one + 1 /\ \A i \in 1 .. n - one + 1 : s[i] = text[one + i - 1]
        <5>1. /\ SubSeq(text, one, n) \in Seq(X)
              /\ Len(SubSeq(text, one, n)) = IF one <= n THEN n - one + 1 ELSE 0
              /\ \A i \in 1 .. n - one + 1 : SubSeq(text, one, n)[i] = text[one + i - 1]
          BY <4>2, SubSeqProperties
        <5> QED BY <4>1, <4>2, <5>1
      <4>4. Len(s) = Len(text) /\ \A i \in 1 .. Len(s) : s[i] = text[i]
        <5>1. n \in Nat /\ one = 1
          BY <1>2, <4>1
        <5>2. n - one + 1 = n
          BY <5>1
        <5>3. ASSUME NEW i \in 1 .. n PROVE s[i] = text[i]
          <6>1. i \in Int /\ one + i - 1 = i
            BY <5>1
          <6>2. s[i] = text[one + i - 1]
            BY <4>3, <5>2
          <6> QED BY <6>1, <6>2
        <5> QED BY <1>1, <4>3, <5>2, <5>3
      <4>5. s = text
        BY <4>3, <4>4, SeqsEqual
      <4> QED BY <4>1, <4>5
    <3> QED BY <3>1, <3>3, <3>4
  <2> QED BY <1>4, <2>1, <2>2
<1> QED BY <1>1, <1>5, TrimIsTrimmed

LEMMA ArgumentRead ==
  ASSUME NEW name \in Labels, NEW text \in Seq(Labels), Unspaced(text)
  PROVE  ReadsAs(Argument(name, text), name, text)
<1>1. PICK pad, e : pad = <<>> /\ e = EscapedAs(text, Entities)
  OBVIOUS
<1>2. pad \in Seq({Event("text", " ")}) /\ Predefined(Entities)
  <2>1. <<>> \in Seq({Event("text", " ")})
    BY EmptySeq
  <2> QED BY <1>1, <2>1, ReferencesPredefined
<1>3. pad \in Seq(Events) /\ Clear(pad)
  BY <1>2, PadIs
<1>4. e \in Seq(Events)
  BY <1>1, <1>2, EscapedSpells
<1>5. (pad \o e) \o pad = e
  <2>1. pad \o e = e /\ e \o pad = e
    BY <1>1, <1>4, ConcatEmptySeq
  <2> QED BY <2>1
<1>6. /\ e \in Seq(Events)
      /\ \A i \in 1 .. Len(e) : e[i].kind \in {"text", "ref"}
      /\ read_text_until_end(e) = {trim(text)}
  <2>1. e = (pad \o EscapedAs(text, Entities)) \o pad
    BY <1>1, <1>5
  <2> QED BY <1>2, <2>1, ValueRead
<1>7. Reads(e, text)
  BY <1>6, TrimNone DEF Reads, Whole
<1>8. ReadsAs(pad \o Element(name, e), name, text)
  BY <1>3, <1>4, <1>7, ElementGiven
<1>9. Element(name, e) \in Seq(Events)
  BY <1>4, ElementIs
<1>10. pad \o Element(name, e) = Element(name, e)
  BY <1>1, <1>9, ConcatEmptySeq
<1> QED BY <1>1, <1>8, <1>10 DEF Argument, Escaped

LEMMA NothingMore == ReadsAll(<<>>, <<>>)
<1>1. PICK content, none : content = <<>> /\ none = 0
  OBVIOUS
<1>2. content \in Seq(Events) /\ Len(content) = none
  BY <1>1, EmptySeq
<1>3. ASSUME NEW events, NEW o, At(events, o, content), o + none + 1 <= Len(events),
             events[o + none + 1].kind = "end"
      PROVE  read_arguments(events, o + 1) = {content}
  <2>1. PICK i : i = o + 1
    OBVIOUS
  <2>2. Len(events) \in Nat /\ i \in 1 .. Len(events) /\ i = o + none + 1
    BY <1>1, <1>3, <2>1 DEF At
  <2>3. read_arguments(events, i) = {<<>>}
    BY <1>3, <2>2, ArgumentsEnd
  <2> QED BY <1>1, <2>1, <2>3
<1>4. ReadsAll(content, content)
  BY <1>2, <1>3 DEF ReadsAll
<1> QED BY <1>1, <1>4

LEMMA OneMore ==
  ASSUME NEW piece, NEW name, NEW value, ReadsAs(piece, name, value),
         NEW rest, NEW later, ReadsAll(rest, later)
  PROVE  ReadsAll(piece \o rest, Argued(name, value, later))
<1>1. PICK content, m, n, all : content = piece \o rest /\ m = Len(piece) /\ n = Len(rest)
                                /\ all = Argued(name, value, later)
  OBVIOUS
<1>2. piece \in Seq(Events) /\ rest \in Seq(Events)
  BY DEF ReadsAs, ReadsAll
<1>3. content \in Seq(Events) /\ Len(content) = m + n /\ m \in Nat /\ n \in Nat
  BY <1>1, <1>2, ConcatIs
<1>4. ASSUME NEW events, NEW o, At(events, o, content), o + (m + n) + 1 <= Len(events),
             events[o + (m + n) + 1].kind = "end"
      PROVE  read_arguments(events, o + 1) = {all}
  <2>1. At(events, o, piece) /\ At(events, o + m, rest) /\ o \in Nat
    <3>1. At(events, o, piece \o rest)
      BY <1>1, <1>4
    <3>2. At(events, o, piece) /\ At(events, o + Len(piece), rest)
      BY <1>2, <3>1, AtConcat
    <3> QED BY <1>1, <1>4, <3>2 DEF At
  <2>2. PICK q : q = o + m
    OBVIOUS
  <2>3. q + n + 1 = o + (m + n) + 1
    BY <1>3, <2>1, <2>2
  <2>4. read_arguments(events, q + 1) = {later}
    <3>1. At(events, q, rest) /\ q + Len(rest) + 1 <= Len(events)
          /\ events[q + Len(rest) + 1].kind = "end"
      BY <1>1, <1>4, <2>1, <2>2, <2>3
    <3> QED BY <3>1 DEF ReadsAll
  <2>5. read_arguments(events, o + 1)
          = With(read_arguments(events, o + Len(piece) + 1), name, {value})
    BY <2>1 DEF ReadsAs
  <2>6. read_arguments(events, o + 1) = With({later}, name, {value})
    BY <1>1, <2>2, <2>4, <2>5
  <2>7. With({later}, name, {value}) = {Argued(name, value, later)}
    BY DEF With
  <2> QED BY <1>1, <2>6, <2>7
<1>5. ReadsAll(content, all)
  BY <1>3, <1>4 DEF ReadsAll
<1> QED BY <1>1, <1>5

LEMMA ArguedIs ==
  ASSUME NEW name, NEW text, NEW later, NEW args, args = Argued(name, text, later)
  PROVE  /\ DOMAIN args = DOMAIN later \cup {name}
         /\ name \notin DOMAIN later => args[name] = text
         /\ \A n \in DOMAIN later : args[n] = later[n]
  BY DEF Argued

LEMMA EnvelopeFound ==
  ASSUME NEW inner \in Seq(Events), NEW events, events = Envelope(inner)
  PROVE  /\ events \in Seq(Events)
         /\ \E b \in 1 .. Len(events) : find_body(events) = b /\ At(events, b, inner)
<1>1. PICK xml, lead, outer, name, body, env :
        /\ xml = Event("other", "xml") /\ lead = <<xml>> /\ outer = "Envelope" /\ name = "Body"
        /\ body = Element(name, inner) /\ env = Element(outer, body)
  OBVIOUS
<1>2. outer \in Labels /\ name \in Labels /\ xml \in Events
  BY <1>1, EventIs DEF Labels, Kinds
<1>3. body \in Seq(Events) /\ env \in Seq(Events)
  BY <1>1, <1>2, ElementIs
<1>4. lead \in Seq(Events) /\ Len(lead) = 1 /\ lead[1] = xml
  BY <1>1, <1>2, SingleIs
<1>5. events = lead \o env /\ events \in Seq(Events)
  <2>1. events = lead \o env
    BY <1>1 DEF Envelope
  <2> QED BY <1>3, <1>4, <2>1, ConcatProperties
<1>6. PICK nought, one, two : nought = 0 /\ one = 1 /\ two = 2
  OBVIOUS
<1>7. At(events, nought, lead) /\ At(events, one, env)
  <2>1. At(events, nought, lead \o env)
    BY <1>5, <1>6, AtStart
  <2>2. At(events, nought, lead) /\ At(events, nought + Len(lead), env)
    BY <1>3, <1>4, <2>1, AtConcat
  <2>3. nought + Len(lead) = one
    BY <1>4, <1>6
  <2> QED BY <2>2, <2>3
<1>8. events[1] = xml
  <2>1. one \in 1 .. Len(lead) /\ nought + one = 1
    BY <1>4, <1>6
  <2> QED BY <1>4, <1>6, <1>7, <2>1 DEF At
<1>9. events[2] = Event("start", outer) /\ At(events, two, body)
  <2>1. PICK m : m = Len(body)
    OBVIOUS
  <2>2. events[one + 1] = Event("start", outer) /\ At(events, one + 1, body)
    BY <1>1, <1>2, <1>3, <1>7, <2>1, ElementAt
  <2>3. one + 1 = 2 /\ one + 1 = two
    BY <1>6
  <2> QED BY <2>2, <2>3
<1>10. PICK three : three = 3
  OBVIOUS
<1>11. events[three] = Event("start", name) /\ At(events, three, inner) /\ three <= Len(events)
  <2>1. PICK m : m = Len(inner)
    OBVIOUS
  <2>2. /\ events[two + 1] = Event("start", name) /\ At(events, two + 1, inner)
        /\ two + m + 2 <= Len(events) /\ m \in Nat
    BY <1>1, <1>2, <1>9, <2>1, ElementAt
  <2>3. two + 1 = three
    BY <1>6, <1>10
  <2>4. Len(events) \in Nat
    BY <1>9 DEF At
  <2>5. three <= Len(events)
    BY <1>6, <1>10, <2>2, <2>4
  <2> QED BY <2>2, <2>3, <2>5
<1>12. Len(events) \in Nat /\ three \in 1 .. Len(events)
  <2>1. Len(events) \in Nat
    BY <1>9 DEF At
  <2> QED BY <1>10, <1>11, <2>1
<1>13. ASSUME NEW k \in 1 .. three - 1
       PROVE  events[k].kind # "bad" /\ events[k] # Event("start", name)
  <2>1. k = 1 \/ k = 2
    BY <1>10
  <2>2. /\ xml.kind # "bad" /\ xml # Event("start", name)
        /\ Event("start", outer).kind # "bad" /\ Event("start", outer) # Event("start", name)
    BY <1>1 DEF Event
  <2> QED BY <1>8, <1>9, <2>1, <2>2
<1>14. find_body(events) = three
  BY <1>1, <1>11, <1>12, <1>13, BodyReached
<1> QED BY <1>5, <1>11, <1>12, <1>14

(* What is asked of browse.                                                *)
Browsing(id, flag, start, number) ==
  Argued("ObjectID", id,
    Argued("BrowseFlag", <<flag>>,
      Argued("Filter", <<"*">>,
        Argued("StartingIndex", Decimal(start),
          Argued("RequestedCount", Decimal(number),
            Argued("SortCriteria", <<>>, <<>>))))))

Asking(args, id, flag, start, number) ==
  /\ {"ObjectID", "BrowseFlag", "StartingIndex", "RequestedCount"} \subseteq DOMAIN args
  /\ args["ObjectID"] = id /\ args["BrowseFlag"] = <<flag>>
  /\ args["StartingIndex"] = Decimal(start) /\ args["RequestedCount"] = Decimal(number)

LEMMA BrowsingAsks ==
  ASSUME NEW id, NEW flag, NEW start, NEW number
  PROVE  Asking(Browsing(id, flag, start, number), id, flag, start, number)
<1>1. PICK f, s, n : f = <<flag>> /\ s = Decimal(start) /\ n = Decimal(number)
  OBVIOUS
<1>2. PICK sort, any : sort = Argued("SortCriteria", <<>>, <<>>) /\ any = <<"*">>
  OBVIOUS
<1>3. DOMAIN sort = {"SortCriteria"}
  <2>1. DOMAIN <<>> = {}
    OBVIOUS
  <2> QED BY <1>2, <2>1 DEF Argued
<1>4. PICK many : many = Argued("RequestedCount", n, sort)
  OBVIOUS
<1>5. DOMAIN many = {"RequestedCount", "SortCriteria"} /\ many["RequestedCount"] = n
  BY <1>3, <1>4 DEF Argued
<1>6. PICK from : from = Argued("StartingIndex", s, many)
  OBVIOUS
<1>7. /\ DOMAIN from = {"StartingIndex", "RequestedCount", "SortCriteria"}
      /\ from["StartingIndex"] = s /\ from["RequestedCount"] = n
  BY <1>5, <1>6 DEF Argued
<1>8. PICK filter : filter = Argued("Filter", any, from)
  OBVIOUS
<1>9. /\ DOMAIN filter = {"Filter", "StartingIndex", "RequestedCount", "SortCriteria"}
      /\ filter["StartingIndex"] = s /\ filter["RequestedCount"] = n
  BY <1>7, <1>8 DEF Argued
<1>10. PICK how : how = Argued("BrowseFlag", f, filter)
  OBVIOUS
<1>11. /\ DOMAIN how = {"BrowseFlag", "Filter", "StartingIndex", "RequestedCount", "SortCriteria"}
       /\ how["BrowseFlag"] = f /\ how["StartingIndex"] = s /\ how["RequestedCount"] = n
  BY <1>9, <1>10 DEF Argued
<1>12. PICK args : args = Argued("ObjectID", id, how)
  OBVIOUS
<1>13. /\ {"ObjectID", "BrowseFlag", "StartingIndex", "RequestedCount"} \subseteq DOMAIN args
       /\ args["ObjectID"] = id /\ args["BrowseFlag"] = f
       /\ args["StartingIndex"] = s /\ args["RequestedCount"] = n
  BY <1>11, <1>12 DEF Argued
<1>14. args = Browsing(id, flag, start, number)
  BY <1>1, <1>2, <1>4, <1>6, <1>8, <1>10, <1>12 DEF Browsing
<1> QED BY <1>1, <1>13, <1>14 DEF Asking

Flags == {"BrowseDirectChildren", "BrowseMetadata"}

(* What an id may be made of: nothing that would be trimmed.               *)
Askable(id) == id \in Seq(Labels) /\ Unspaced(id)

LEMMA FiguresAskable ==
  ASSUME NEW n \in Nat
  PROVE  Askable(Decimal(n))
<1>1. PICK text : text = Decimal(n)
  OBVIOUS
<1>2. text \in Seq(Figures)
  BY <1>1, DecimalIs
<1>3. Figures \subseteq Labels
  BY DEF Figures, Labels
<1>4. text \in Seq(Labels)
  BY <1>2, <1>3, SeqMonotonic
<1>5. " " \notin Figures
  <2>1. DOMAIN Digits = 1 .. 10 /\ \A i \in 1 .. 10 : Digits[i] # " "
    BY DEF Digits
  <2> QED BY <2>1 DEF Figures, ToSet
<1>6. \A i \in 1 .. Len(text) : text[i] \in Figures
  BY <1>2, ElementOfSeq
<1> QED BY <1>1, <1>4, <1>5, <1>6 DEF Askable, Unspaced

LEMMA OneOnly == \A i \in 1 .. 1 : i = 1
  OBVIOUS

LEMMA WordAskable ==
  ASSUME NEW word \in Labels \ {" "}
  PROVE  Askable(<<word>>)
<1>1. PICK text, n : text = <<word>> /\ n = Len(text)
  OBVIOUS
<1>2. text \in Seq(Labels) /\ n = 1 /\ text[1] = word
  <2>1. <<word>> \in Seq(Labels) /\ Len(<<word>>) = 1 /\ <<word>>[1] = word
    BY SingleIs
  <2> QED BY <1>1, <2>1
<1>3. \A i \in 1 .. n : text[i] = word
  BY <1>2, OneOnly
<1>4. Unspaced(text)
  BY <1>1, <1>3, Zenon DEF Unspaced
<1> QED BY <1>1, <1>2, <1>4 DEF Askable

LEMMA NothingAskable == Askable(<<>>)
<1>1. PICK none : none = <<>>
  OBVIOUS
<1>2. none \in Seq(Labels) /\ Len(none) = 0
  BY <1>1, EmptySeq
<1>3. \A i \in 1 .. 0 : FALSE
  OBVIOUS
<1> QED BY <1>1, <1>2, <1>3 DEF Askable, Unspaced

Joined(s, t) == s \o t

LEMMA JoinedIs ==
  ASSUME NEW X, NEW s \in Seq(X), NEW t \in Seq(X), NEW u \in Seq(X)
  PROVE  Joined(s, t) \in Seq(X) /\ Joined(Joined(s, t), u) = Joined(s, Joined(t, u))
<1>1. (s \o t) \o u = s \o (t \o u)
  BY ConcatAssociative
<1>2. s \o t \in Seq(X)
  BY ConcatProperties
<1> QED BY <1>1, <1>2, Zenon DEF Joined

RegroupsTo(A, B, C, D, E, F) ==
  ((((A \o B) \o C) \o D) \o E) \o F = A \o (B \o (C \o (D \o (E \o F))))

LEMMA Regrouped ==
  ASSUME NEW X, NEW A \in Seq(X), NEW B \in Seq(X), NEW C \in Seq(X), NEW D \in Seq(X),
         NEW E \in Seq(X), NEW F \in Seq(X)
  PROVE  RegroupsTo(A, B, C, D, E, F)
<1>1. PICK ab, abc, abcd : ab = Joined(A, B) /\ abc = Joined(ab, C) /\ abcd = Joined(abc, D)
  OBVIOUS
<1>2. PICK five, four, three :
        five = Joined(E, F) /\ four = Joined(D, five) /\ three = Joined(C, four)
  OBVIOUS
<1>3. ab \in Seq(X) /\ abc \in Seq(X)
  BY <1>1, JoinedIs
<1>4. five \in Seq(X) /\ four \in Seq(X)
  BY <1>2, JoinedIs
<1>5. abcd \in Seq(X) /\ three \in Seq(X)
  BY <1>1, <1>2, <1>3, <1>4, JoinedIs
<1>6. Joined(Joined(abcd, E), F) = Joined(abcd, five)
  BY <1>2, <1>5, JoinedIs
<1>7. Joined(abcd, five) = Joined(abc, four)
  BY <1>1, <1>2, <1>3, <1>4, JoinedIs
<1>8. Joined(abc, four) = Joined(ab, three)
  BY <1>1, <1>2, <1>3, <1>4, JoinedIs
<1>9. Joined(ab, three) = Joined(A, Joined(B, three))
  BY <1>1, <1>5, JoinedIs
<1>10. Joined(Joined(Joined(Joined(Joined(A, B), C), D), E), F)
         = Joined(A, Joined(B, Joined(C, Joined(D, Joined(E, F)))))
  BY <1>1, <1>2, <1>6, <1>7, <1>8, <1>9
<1> QED BY <1>10, Zenon DEF Joined, RegroupsTo

LEMMA BrowseBodyRead ==
  ASSUME NEW id, Askable(id), NEW flag \in Flags, NEW start \in Nat, NEW number \in Nat,
         NEW act, act = browse_body(id, flag, start, number)
  PROVE  Calls(act, "Browse", Browsing(id, flag, start, number))
<1>1. PICK A, B, C, D, E, F :
        /\ A = Argument("ObjectID", id) /\ B = Argument("BrowseFlag", <<flag>>)
        /\ C = Argument("Filter", <<"*">>) /\ D = Argument("StartingIndex", Decimal(start))
        /\ E = Argument("RequestedCount", Decimal(number)) /\ F = Argument("SortCriteria", <<>>)
  OBVIOUS
<1>2. ASSUME NEW name \in Labels, NEW text, Askable(text)
      PROVE  ReadsAs(Argument(name, text), name, text)
  BY <1>2, ArgumentRead DEF Askable
<1>3. /\ "ObjectID" \in Labels /\ "BrowseFlag" \in Labels /\ "Filter" \in Labels
      /\ "StartingIndex" \in Labels /\ "RequestedCount" \in Labels /\ "SortCriteria" \in Labels
      /\ "Browse" \in Labels
  BY DEF Labels
<1>4. ReadsAs(A, "ObjectID", id)
  BY <1>1, <1>2, <1>3
<1>5. ReadsAs(B, "BrowseFlag", <<flag>>)
  <2>1. flag \in Labels \ {" "}
    BY DEF Flags, Labels
  <2> QED BY <1>1, <1>2, <1>3, <2>1, WordAskable
<1>6. ReadsAs(C, "Filter", <<"*">>)
  <2>1. PICK any : any = "*"
    OBVIOUS
  <2>2. any \in Labels \ {" "}
    BY <2>1 DEF Labels
  <2>3. Askable(<<any>>)
    BY <2>2, WordAskable
  <2> QED BY <1>1, <1>2, <1>3, <2>1, <2>3
<1>7. ReadsAs(D, "StartingIndex", Decimal(start))
  BY <1>1, <1>2, <1>3, FiguresAskable
<1>8. ReadsAs(E, "RequestedCount", Decimal(number))
  BY <1>1, <1>2, <1>3, FiguresAskable
<1>9. ReadsAs(F, "SortCriteria", <<>>)
  <2>1. Askable(<<>>)
    BY NothingAskable
  <2> QED BY <1>1, <1>2, <1>3, <2>1
<1>10. PICK five, four, three, two, all :
         /\ five = E \o F /\ four = D \o five /\ three = C \o four /\ two = B \o three
         /\ all = A \o two
  OBVIOUS
<1>11. /\ A \in Seq(Events) /\ B \in Seq(Events) /\ C \in Seq(Events) /\ D \in Seq(Events)
       /\ E \in Seq(Events) /\ F \in Seq(Events)
  BY <1>4, <1>5, <1>6, <1>7, <1>8, <1>9 DEF ReadsAs
<1>12. five \in Seq(Events) /\ four \in Seq(Events) /\ three \in Seq(Events) /\ two \in Seq(Events)
  BY <1>10, <1>11, ConcatProperties
<1>13. all = ((((A \o B) \o C) \o D) \o E) \o F
  <2>1. RegroupsTo(A, B, C, D, E, F)
    BY <1>11, Regrouped
  <2> QED BY <1>10, <2>1, Zenon DEF RegroupsTo
<1>14. ReadsAll(all, Browsing(id, flag, start, number))
  <2>1. ReadsAll(F, Argued("SortCriteria", <<>>, <<>>))
    <3>1. PICK none : none = <<>>
      OBVIOUS
    <3>2. ReadsAll(none, none) /\ F \o none = F
      BY <1>11, <3>1, NothingMore, ConcatEmptySeq
    <3>3. ReadsAll(F \o none, Argued("SortCriteria", <<>>, none))
      BY <1>9, <3>2, OneMore
    <3> QED BY <3>1, <3>2, <3>3
  <2>2. ReadsAll(five, Argued("RequestedCount", Decimal(number), Argued("SortCriteria", <<>>, <<>>)))
    BY <1>8, <1>10, <2>1, OneMore
  <2>3. ReadsAll(four, Argued("StartingIndex", Decimal(start),
                         Argued("RequestedCount", Decimal(number), Argued("SortCriteria", <<>>, <<>>))))
    BY <1>7, <1>10, <2>2, OneMore
  <2>4. ReadsAll(three, Argued("Filter", <<"*">>, Argued("StartingIndex", Decimal(start),
                          Argued("RequestedCount", Decimal(number), Argued("SortCriteria", <<>>, <<>>)))))
    BY <1>6, <1>10, <2>3, OneMore
  <2>5. ReadsAll(two, Argued("BrowseFlag", <<flag>>, Argued("Filter", <<"*">>,
                        Argued("StartingIndex", Decimal(start),
                          Argued("RequestedCount", Decimal(number), Argued("SortCriteria", <<>>, <<>>))))))
    BY <1>5, <1>10, <2>4, OneMore
  <2> QED BY <1>4, <1>10, <2>5, OneMore DEF Browsing
<1>15. act = Element("Browse", all)
  BY <1>1, <1>13 DEF browse_body
<1>16. all \in Seq(Events)
  BY <1>14 DEF ReadsAll
<1> QED BY <1>3, <1>14, <1>15, <1>16, FullCalls

(* A request to browse reaches browse, with what was asked.                *)
LEMMA BrowseReached ==
  ASSUME NEW id, Askable(id), NEW flag \in Flags, NEW start \in Nat, NEW number \in Nat
  PROVE  \E action : /\ handle(browse_request(id, flag, start, number)) = browse(action)
                     /\ Asking(action.arguments, id, flag, start, number)
<1>1. PICK service, act, events, req, pad, action, label :
        /\ service = "ContentDirectory" /\ act = browse_body(id, flag, start, number)
        /\ events = Envelope(act) /\ req = browse_request(id, flag, start, number)
        /\ pad = <<>> /\ label = "Browse"
        /\ action = [name |-> label, arguments |-> Browsing(id, flag, start, number)]
  OBVIOUS
<1>2. Calls(act, label, Browsing(id, flag, start, number))
  BY <1>1, BrowseBodyRead
<1>3. act \in Seq(Events)
  BY <1>2 DEF Calls
<1>4. /\ events \in Seq(Events)
      /\ \E b \in 1 .. Len(events) : find_body(events) = b /\ At(events, b, act)
  BY <1>1, <1>3, EnvelopeFound
<1>5. pad \in Seq(Events) /\ Clear(pad) /\ pad \o act = act
  BY <1>1, <1>3, EmptySeq, ConcatEmptySeq DEF Clear
<1>6. PICK b \in 1 .. Len(events) : find_body(events) = b /\ At(events, b, pad \o act)
  BY <1>4, <1>5
<1>7. Parsed(events) = {[name |-> label, arguments |-> Browsing(id, flag, start, number)]}
  <2>1. pad \in Seq(Events) /\ Clear(pad)
    BY <1>5
  <2> QED BY <1>2, <1>6, <2>1, ActionRead
<1>8. service \in Services
  BY <1>1 DEF Services
<1>9. Posted(req, service, events)
  BY <1>1 DEF browse_request, Post, Posted, control_path
<1>10. dispatch(service, action) = browse(action)
  <2>1. action.name = "Browse"
    BY <1>1
  <2> QED BY <1>1, <2>1 DEF dispatch, content_directory_action
<1>11. handle(req) = dispatch(service, action)
  <2>1. Parsed(events) = {action} /\ dispatch(service, action) # {}
    BY <1>1, <1>7, DispatchResponds
  <2> QED BY <1>4, <1>8, <1>9, <2>1, ControlAnswers
<1>12. action.arguments = Browsing(id, flag, start, number)
  BY <1>1
<1> QED BY <1>1, <1>10, <1>11, <1>12, BrowsingAsks

-----------------------------------------------------------------------------
(* A page is the part of a listing it says it is.                          *)

LEMMA CutIs ==
  ASSUME NEW X, NEW s \in Seq(X), NEW o \in Nat, NEW n \in Nat, Len(s) = o + n,
         NEW p, p = SubSeq(s, o + 1, Len(s))
  PROVE  p \in Seq(X) /\ Len(p) = n /\ \A i \in 1 .. n : p[i] = s[o + i]
<1>1. PICK from, to : from = o + 1 /\ to = Len(s)
  OBVIOUS
<1>2. from \in Int /\ to \in Int /\ to = o + n
  BY <1>1
<1>3. \A i \in 1 .. to : s[i] \in X
  BY <1>1, ElementOfSeq
<1>4. \A i \in from .. to : s[i] \in X
  <2>1. \A i \in from .. to : i \in 1 .. to
    BY <1>1, <1>2
  <2> QED BY <1>3, <2>1
<1>5. p = SubSeq(s, from, to)
  BY <1>1
<1>6. /\ p \in Seq(X) /\ Len(p) = IF from <= to THEN to - from + 1 ELSE 0
      /\ \A i \in 1 .. to - from + 1 : p[i] = s[from + i - 1]
  BY <1>2, <1>4, <1>5, SubSeqProperties
<1>7. Len(p) = n
  BY <1>1, <1>2, <1>6
<1>8. to - from + 1 = n
  BY <1>1, <1>2
<1>9. ASSUME NEW i \in 1 .. n PROVE p[i] = s[o + i]
  <2>1. i \in Int /\ from + i - 1 = o + i
    BY <1>1, <1>2
  <2>2. p[i] = s[from + i - 1]
    BY <1>6, <1>8
  <2> QED BY <2>1, <2>2
<1> QED BY <1>6, <1>7, <1>9

LEMMA NoPlus == "+" \notin Figures
  BY DEF Figures, Digits, ToSet

(* A count that fits is read as what was written.                          *)
LEMMA NumbersAsked ==
  ASSUME NEW action, NEW id, NEW flag, NEW start \in 0 .. MaxUsize,
         NEW number \in 0 .. MaxUsize,
         Asking(action.arguments, id, flag, start, number)
  PROVE  Number(action, "StartingIndex") = start /\ Number(action, "RequestedCount") = number
<1>1. ASSUME NEW name \in {"StartingIndex", "RequestedCount"}, NEW n \in 0 .. MaxUsize,
             name \in DOMAIN action.arguments, action.arguments[name] = Decimal(n)
      PROVE  Number(action, name) = n
  <2>1. PICK text : text = Decimal(n)
    OBVIOUS
  <2>2. text \in Seq(Figures) /\ text # <<>> /\ ValueOf(text) = n
    BY <2>1, DecimalIs, UsizeAssumption
  <2>3. ToSet(text) \subseteq Figures
    BY <2>2, ToSetIn
  <2>4. (IF name \in DOMAIN action.arguments THEN action.arguments[name] ELSE <<>>) = text
    BY <1>1, <2>1
  <2>5. text[1] # "+"
    <3>1. text[1] \in Figures
      BY <2>2
    <3> QED BY <3>1, NoPlus
  <2>6. (IF text # <<>> /\ text[1] = "+" THEN Tail(text) ELSE text) = text
    BY <2>5
  <2>7. ToSet(text) \subseteq ToSet(Digits) /\ n <= MaxUsize
    BY <2>3 DEF Figures
  <2> QED BY <2>2, <2>4, <2>6, <2>7 DEF Number
<1>2. /\ "StartingIndex" \in DOMAIN action.arguments /\ "RequestedCount" \in DOMAIN action.arguments
      /\ action.arguments["StartingIndex"] = Decimal(start)
      /\ action.arguments["RequestedCount"] = Decimal(number)
  BY DEF Asking
<1> QED BY <1>1, <1>2

(* So many entries of the listing from behind the first start on.          *)
PageOf(p, l, start) ==
  /\ Listing(p) /\ start + Len(p) <= Len(l)
  /\ start < Len(l) => Len(p) > 0
  /\ \A i \in 1 .. Len(p) : p[i] = l[start + i]

LEMMA PageIs ==
  ASSUME NEW l, Listing(l), NEW action, NEW start \in Nat, NEW number \in Nat, start <= Len(l),
         Number(action, "StartingIndex") = start, Number(action, "RequestedCount") = number
  PROVE  /\ PageOf(paginate(l, action), l, start)
         /\ number = 0 => start + Len(paginate(l, action)) = Len(l)
<1>1. PICK X, n, rest : X = ToSet(l) /\ n = Len(l) - start /\ rest = SubSeq(l, start + 1, Len(l))
  OBVIOUS
<1>2. l \in Seq(X) /\ Len(l) \in Nat
  BY <1>1 DEF Listing
<1>3. n \in Nat /\ Len(l) = start + n
  BY <1>1, <1>2
<1>4. rest \in Seq(X) /\ Len(rest) = n /\ \A i \in 1 .. n : rest[i] = l[start + i]
  BY <1>1, <1>2, <1>3, CutIs
<1>5. Listing(rest)
  BY <1>4, ListingOf
<1>6. CASE number = 0
  <2>1. paginate(l, action) = rest
    BY <1>1, <1>6 DEF paginate
  <2>2. PageOf(rest, l, start) /\ start + Len(rest) = Len(l)
    BY <1>3, <1>4, <1>5 DEF PageOf
  <2> QED BY <2>1, <2>2
<1>7. CASE number # 0
  <2>1. PICK least : least = IF number <= Len(rest) THEN number ELSE Len(rest)
    OBVIOUS
  <2>2. PICK p : p = First(number, rest)
    OBVIOUS
  <2>3. /\ Listing(p) /\ Len(p) = least /\ least \in Nat /\ least <= Len(rest)
        /\ \A i \in 1 .. least : p[i] = rest[i]
    <3>1. /\ Listing(First(number, rest)) /\ Len(First(number, rest)) = least
          /\ least \in Nat /\ least <= Len(rest)
          /\ \A i \in 1 .. least : First(number, rest)[i] = rest[i]
      BY <1>5, <2>1, FirstIs
    <3> QED BY <2>2, <3>1
  <2>4. least <= n /\ (n > 0 => least > 0)
    BY <1>3, <1>4, <1>7, <2>1, <2>3
  <2>5. ASSUME NEW i \in 1 .. least PROVE p[i] = l[start + i]
    <3>1. i \in 1 .. n
      BY <1>3, <2>3, <2>4
    <3> QED BY <1>4, <2>3, <3>1
  <2>6. PageOf(p, l, start)
    <3>1. start + least <= Len(l) /\ (start < Len(l) => least > 0)
      BY <1>3, <2>3, <2>4
    <3> QED BY <2>3, <2>5, <3>1 DEF PageOf
  <2>7. paginate(l, action) = p
    BY <1>1, <1>7, <2>2 DEF paginate
  <2> QED BY <1>7, <2>6, <2>7
<1> QED BY <1>6, <1>7

-----------------------------------------------------------------------------
(* The views side by side.                                                 *)

LEMMA MountsAre ==
  /\ Len(Views) \in Nat /\ DOMAIN Views = 1 .. Len(Views)
  /\ \A n \in DOMAIN Views :
       ModeIs(Views[n]) /\ Views[n].view \in ViewNames /\ Views[n].title # None
<1>1. PICK X : X = [view : ViewNames, count : Nat, title : {v.title : v \in ToSet(Views)}]
  OBVIOUS
<1>2. Views \in Seq(X)
  BY <1>1, ViewsAssumption
<1>3. Len(Views) \in Nat /\ DOMAIN Views = 1 .. Len(Views)
  BY <1>2, LenProperties
<1>4. ASSUME NEW n \in DOMAIN Views
      PROVE  ModeIs(Views[n]) /\ Views[n].view \in ViewNames /\ Views[n].title # None
  <2>1. Views[n] \in X
    BY <1>2, <1>3, ElementOfSeq
  <2>2. Views[n].view \in ViewNames /\ Views[n].count \in Nat
    BY <1>1, <2>1
  <2> QED BY <2>2, ViewsAssumption DEF ModeIs, ViewNames
<1> QED BY <1>3, <1>4

PrefixedBy(id, v, local, m) ==
  /\ m \in Nat /\ Len(id) = 2 + m /\ id[1] = v /\ id[2] = "$"
  /\ \A i \in 1 .. m : id[2 + i] = local[i]

LEMMA PrefixedIs ==
  ASSUME NEW v, NEW X, NEW local \in Seq(X), NEW id, id = prefixed(v, local),
         NEW m, m = Len(local)
  PROVE  PrefixedBy(id, v, local, m) /\ id \in Seq(X \cup {v, "$"})
<1>1. PICK Y, bar, lead : Y = X \cup {v, "$"} /\ bar = "$" /\ lead = <<v, bar>>
  OBVIOUS
<1>2. lead \in Seq(Y) /\ Len(lead) = 2 /\ lead[1] = v /\ lead[2] = bar
  BY <1>1
<1>3. local \in Seq(Y)
  BY <1>1, SeqMonotonic
<1>4. id = lead \o local
  BY <1>1 DEF prefixed
<1>5. /\ lead \o local \in Seq(Y) /\ Len(lead \o local) = Len(lead) + Len(local)
      /\ Len(local) \in Nat
      /\ \A i \in 1 .. Len(lead) : (lead \o local)[i] = lead[i]
      /\ \A i \in 1 .. Len(local) : (lead \o local)[Len(lead) + i] = local[i]
  <2>1. lead \in Seq(Y) /\ local \in Seq(Y)
    BY <1>2, <1>3
  <2> QED BY <2>1, ConcatIs
<1>6. /\ id \in Seq(Y) /\ Len(id) = 2 + m /\ m \in Nat
      /\ \A i \in 1 .. 2 : id[i] = lead[i]
      /\ \A i \in 1 .. m : id[2 + i] = local[i]
  BY <1>2, <1>4, <1>5
<1>7. id[1] = v /\ id[2] = bar
  <2>1. 1 \in 1 .. 2 /\ 2 \in 1 .. 2
    OBVIOUS
  <2> QED BY <1>2, <1>6, <2>1
<1> QED BY <1>1, <1>6, <1>7 DEF PrefixedBy

(* An id with a mount's prefix is split where the prefix was put.          *)
LEMMA MountedAt ==
  ASSUME NEW n \in DOMAIN Views, NEW X, NEW local \in Seq(X), NEW id,
         id = prefixed(Views[n].view, local)
  PROVE  mount_and_local_id(id) = {[view |-> Views[n], id |-> local]}
<1>1. PICK m, v : m = Len(local) /\ v = Views[n].view
  OBVIOUS
<1>2. /\ m \in Nat /\ Len(id) = 2 + m /\ id \in Seq(X \cup {v, "$"})
      /\ id[1] = v /\ id[2] = "$" /\ \A i \in 1 .. m : id[2 + i] = local[i]
  <2>1. id = prefixed(v, local) /\ m = Len(local)
    BY <1>1
  <2>2. PrefixedBy(id, v, local, m) /\ id \in Seq(X \cup {v, "$"})
    BY <2>1, PrefixedIs
  <2> QED BY <2>2 DEF PrefixedBy
<1>3. Views[n].view \in ViewNames /\ Len(Views) \in Nat /\ DOMAIN Views = 1 .. Len(Views)
  BY MountsAre
<1>4. v # "$"
  BY <1>1, <1>3 DEF ViewNames
<1> DEFINE I == {k \in 1 .. Len(id) : id[k] = "$"}
           J(c) == {k \in 1 .. Len(Views) : <<Views[k].view>> = SubSeq(id, 1, c - 1)}
           Cut == IF I # {} THEN Min(I) ELSE 0
           Place(c) == IF J(c) # {} THEN Min(J(c)) ELSE 0
<1>5. mount_and_local_id(id)
         = IF Cut = 0 \/ Place(Cut) = 0 THEN {}
           ELSE {[view |-> Views[Place(Cut)], id |-> SubSeq(id, Cut + 1, Len(id))]}
  BY DEF mount_and_local_id, FirstFrom, SelectInSubSeq
<1>6. Cut = 2
  <2>1. PICK two : two = 2
    OBVIOUS
  <2>2. I \in SUBSET Nat /\ two \in I
    BY <1>2, <2>1
  <2>3. \A k \in I : two <= k
    <3>1. 1 \notin I
      BY <1>2, <1>4
    <3> QED BY <2>1, <2>2, <3>1
  <2>4. I # {} /\ Min(I) = two
    BY <2>2, <2>3, MinIs
  <2> HIDE DEF I
  <2> QED BY <2>1, <2>4
<1> HIDE DEF Cut, I
<1>7. SubSeq(id, 1, 1) = <<v>>
  <2>1. PICK one, s : one = 1 /\ s = SubSeq(id, one, one)
    OBVIOUS
  <2>2. one \in Int /\ \A i \in one .. one : id[i] \in X \cup {v, "$"}
    <3>1. \A i \in one .. one : i = one
      BY <2>1
    <3> QED BY <1>2, <2>1, <3>1
  <2>3. /\ s \in Seq(X \cup {v, "$"}) /\ Len(s) = IF one <= one THEN one - one + 1 ELSE 0
        /\ \A i \in 1 .. one - one + 1 : s[i] = id[one + i - 1]
    BY <2>1, <2>2, SubSeqProperties
  <2>4. Len(s) = 1 /\ s[1] = v
    <3>1. one - one + 1 = 1 /\ 1 \in 1 .. 1 /\ one + 1 - 1 = 1 /\ one <= one
      BY <2>1
    <3> QED BY <1>2, <2>3, <3>1
  <2>5. s = <<v>>
    BY <2>3, <2>4
  <2> QED BY <2>1, <2>5
<1>8. PICK S : S = J(2)
  OBVIOUS
<1>9. \A k \in 1 .. Len(Views) : k \in S <=> <<Views[k].view>> = <<v>>
  <2>1. 2 - 1 = 1
    OBVIOUS
  <2> QED BY <1>7, <1>8, <2>1
<1>10. PICK k \in S : Min(S) = k
  <2>1. n \in S
    BY <1>1, <1>3, <1>9
  <2>2. S \in SUBSET Nat
    BY <1>3, <1>8
  <2>3. PICK k \in S : \A j \in S : k <= j
    BY <2>1, <2>2, LeastExists
  <2>4. Min(S) = k
    BY <2>2, <2>3, MinIs
  <2> QED BY <2>4
<1>11. k \in 1 .. Len(Views) /\ <<Views[k].view>> = <<v>>
  BY <1>8, <1>9
<1>12. Place(2) = k /\ k # 0
  BY <1>3, <1>8, <1>10, <1>11
<1> HIDE DEF Place
<1>13. Views[k] = Views[n]
  <2>1. Views[k].view = v
    BY <1>11
  <2> QED BY <1>1, <1>3, <1>11, <2>1, ViewsAssumption
<1>14. SubSeq(id, 2 + 1, Len(id)) = local
  <2>1. PICK two, p : two = 2 /\ p = SubSeq(id, two + 1, Len(id))
    OBVIOUS
  <2>2. p \in Seq(X \cup {v, "$"}) /\ Len(p) = m /\ \A i \in 1 .. m : p[i] = id[two + i]
    <3>1. PICK Y : Y = X \cup {v, "$"}
      OBVIOUS
    <3>2. id \in Seq(Y) /\ two \in Nat /\ m \in Nat /\ Len(id) = two + m
      BY <1>2, <2>1, <3>1
    <3>3. p \in Seq(Y) /\ Len(p) = m /\ \A i \in 1 .. m : p[i] = id[two + i]
      BY <2>1, <3>2, CutIs
    <3> QED BY <3>1, <3>3
  <2>3. p = local
    BY <1>1, <1>2, <2>1, <2>2, SeqsEqual
  <2> QED BY <2>1, <2>3
<1>15. PICK cut : cut = Cut
  OBVIOUS
<1>16. cut = 2
  BY <1>6, <1>15
<1>17. Place(cut) = k
  BY <1>12, <1>16, Zenon
<1>18. SubSeq(id, cut + 1, Len(id)) = local
  BY <1>14, <1>16
<1>19. mount_and_local_id(id)
         = IF cut = 0 \/ Place(cut) = 0 THEN {}
           ELSE {[view |-> Views[Place(cut)], id |-> SubSeq(id, cut + 1, Len(id))]}
  BY <1>5, <1>15, Zenon
<1>20. cut # 0
  BY <1>16
<1> QED BY <1>12, <1>13, <1>17, <1>18, <1>19, <1>20, Zenon

-----------------------------------------------------------------------------
(* The views side by side: what the composite lists.                       *)

(* A container of so many children, below the overall root.                *)
Held(id, n) ==
  \/ id = Root /\ n = Len(Views)
  \/ \E m \in DOMAIN Views, local \in LocalIds :
       id = prefixed(Views[m].view, local) /\ Opens(Views[m], local, n)

(* A track below the overall root.                                         *)
Holding(id, item) ==
  item \in Items /\ \E m \in DOMAIN Views : id = prefixed(Views[m].view, item)

(* An entry listed at a parent.                                            *)
Shown(e, id) ==
  /\ e.parent = id /\ e.title # None
  /\ \/ e.path = None /\ Held(e.id, e.count)
     \/ \E item \in Items :
          /\ Holding(e.id, item) /\ e.path = lib.items[item].path /\ e.path # None
          /\ e.has_art = lib.items[item].has_art

LEMMA LocalIdsAre ==
  /\ None \notin LocalIds /\ Root # None
  /\ \A id \in LocalIds : id \in Seq(IdTokens)
<1>1. LocalTokens \subseteq IdTokens
  BY DEF LocalTokens, IdTokens
<1>2. \A id \in LocalIds : id \in Seq(IdTokens)
  BY <1>1, SeqMonotonic DEF LocalIds
<1>3. Root \in Seq(IdTokens)
  <2>1. PICK zero : zero = "0"
    OBVIOUS
  <2>2. zero \in IdTokens
    BY <2>1 DEF IdTokens
  <2> QED BY <2>1, <2>2 DEF Root
<1> QED BY <1>2, <1>3, IdsAssumption

LEMMA RootLocal == ASSUME IndexBuilt(lib) PROVE Root \in LocalIds
  BY FoldersAre, IdsLocal

LEMMA PrefixedApart ==
  ASSUME NEW n \in DOMAIN Views, NEW local \in LocalIds, NEW id,
         id = prefixed(Views[n].view, local)
  PROVE  id # Root /\ id # None /\ id \in Seq(IdTokens)
<1>1. PICK m, v : m = Len(local) /\ v = Views[n].view
  OBVIOUS
<1>2. PrefixedBy(id, v, local, m) /\ id \in Seq(IdTokens \cup {v, "$"})
  BY <1>1, LocalIdsAre, PrefixedIs
<1>3. v \in IdTokens /\ "$" \in IdTokens
  BY <1>1, MountsAre DEF IdTokens
<1>4. IdTokens \cup {v, "$"} = IdTokens
  BY <1>3
<1>5. id \in Seq(IdTokens)
  BY <1>2, <1>4
<1>6. Len(id) # 1
  BY <1>2 DEF PrefixedBy
<1>7. Len(Root) = 1
  BY DEF Root
<1> QED BY <1>5, <1>6, <1>7, IdsAssumption

LEMMA RewrapIs ==
  ASSUME NEW v, NEW e, NEW parent, EntryAt(e, parent), NEW r, r = rewrap(v, e)
  PROVE  /\ r.id = prefixed(v, e.id) /\ r.title = e.title /\ r.count = e.count
         /\ r.path = e.path /\ r.has_art = e.has_art
         /\ r.parent = IF parent = None THEN Root ELSE prefixed(v, parent)
<1>1. DOMAIN e = Fields /\ e.parent = parent
  BY DEF EntryAt
<1>2. PICK id, up : /\ id = prefixed(v, e.id)
                    /\ up = IF parent = None THEN Root ELSE prefixed(v, parent)
  OBVIOUS
<1>3. r = [e EXCEPT !.id = id, !.parent = up]
  BY <1>1, <1>2 DEF rewrap, Fields
<1> QED BY <1>1, <1>2, <1>3 DEF Fields

Rewrapped(v, l) == [i \in DOMAIN l |-> rewrap(v, l[i])]

LEMMA MountChildren ==
  ASSUME NEW n \in DOMAIN Views, NEW local \in LocalIds, NEW id,
         id = prefixed(Views[n].view, local)
  PROVE  children(id) = {Rewrapped(Views[n].view, l) : l \in Children(Views[n], local)}
<1>1. id # Root
  BY PrefixedApart
<1>2. mount_and_local_id(id) = {[view |-> Views[n], id |-> local]}
  BY LocalIdsAre, MountedAt
<1> QED BY <1>1, <1>2 DEF children, Rewrapped

LEMMA MountShown ==
  ASSUME IndexBuilt(lib), NEW n \in DOMAIN Views, NEW local \in LocalIds, NEW id,
         id = prefixed(Views[n].view, local), NEW e, EntryAt(e, local),
         e.path = None => Opens(Views[n], e.id, e.count), NEW r, r = rewrap(Views[n].view, e)
  PROVE  Shown(r, id)
<1>1. PICK v : v = Views[n].view
  OBVIOUS
<1>2. local # None
  BY LocalIdsAre
<1>3. /\ r.id = prefixed(v, e.id) /\ r.title = e.title /\ r.count = e.count
      /\ r.path = e.path /\ r.has_art = e.has_art /\ r.parent = id
  BY <1>1, <1>2, RewrapIs
<1>4. e.title # None /\ e.id \in LocalIds /\ (ListsItem(e) \/ e.path = None)
  BY DEF EntryAt
<1>5. CASE e.path = None
  <2>1. Held(r.id, r.count)
    BY <1>1, <1>3, <1>4, <1>5 DEF Held
  <2> QED BY <1>3, <1>4, <1>5, <2>1 DEF Shown
<1>6. CASE ListsItem(e)
  <2>1. e.id \in Items /\ Holding(r.id, e.id)
    BY <1>1, <1>3, <1>6 DEF ListsItem, Holding
  <2> QED BY <1>3, <1>4, <1>6, <2>1 DEF Shown, ListsItem
<1> QED BY <1>4, <1>5, <1>6

(* What a container of so many children may be listed as.                  *)
ShownAt(l, n, id) == Listing(l) /\ Len(l) = n /\ \A i \in 1 .. n : Shown(l[i], id)

LEMMA MountHolds ==
  ASSUME IndexBuilt(lib), NEW m \in DOMAIN Views, NEW local \in LocalIds, NEW id,
         id = prefixed(Views[m].view, local), NEW n, Opens(Views[m], local, n)
  PROVE  /\ n \in Nat /\ children(id) # {}
         /\ \A l \in children(id) : ShownAt(l, n, id)
<1>1. PICK v : v = Views[m].view
  OBVIOUS
<1>2. children(id) = {Rewrapped(v, l) : l \in Children(Views[m], local)}
  BY <1>1, MountChildren
<1>3. /\ n \in Nat /\ Children(Views[m], local) # {}
      /\ \A l \in Children(Views[m], local) : Listing(l) /\ Len(l) = n
  BY DEF Opens, Holds
<1>4. ASSUME NEW l \in Children(Views[m], local), NEW r, r = Rewrapped(v, l)
      PROVE  ShownAt(r, n, id)
  <2>1. ListedAt(Views[m], l, local)
    BY MountsAre, ViewsListWhatOpens
  <2>2. DOMAIN l = 1 .. n
    BY <1>3 DEF Listing
  <2>3. DOMAIN r = 1 .. n /\ r = [i \in 1 .. n |-> r[i]] /\ \A i \in 1 .. n : r[i] = rewrap(v, l[i])
    BY <1>4, <2>2 DEF Rewrapped
  <2>4. Listing(r) /\ Len(r) = n
    BY <1>3, <2>3, MadeListing
  <2>5. ASSUME NEW i \in 1 .. n PROVE Shown(r[i], id)
    <3>1. EntryAt(l[i], local) /\ (l[i].path = None => Opens(Views[m], l[i].id, l[i].count))
      BY <1>3, <2>1 DEF ListedAt
    <3>2. r[i] = rewrap(v, l[i])
      BY <2>3
    <3> QED BY <1>1, <3>1, <3>2, MountShown
  <2> QED BY <2>4, <2>5 DEF ShownAt
<1> QED BY <1>2, <1>3, <1>4

LEMMA RootHolds ==
  ASSUME IndexBuilt(lib)
  PROVE  children(Root) = {top_level} /\ ShownAt(top_level, Len(Views), Root)
<1>1. PICK size, l : size = Len(Views) /\ l = top_level
  OBVIOUS
<1>2. size \in Nat /\ DOMAIN Views = 1 .. size
  BY <1>1, MountsAre
<1>3. DOMAIN l = 1 .. size /\ l = [i \in 1 .. size |-> l[i]]
  BY <1>1, <1>2 DEF top_level
<1>4. Listing(l) /\ Len(l) = size
  BY <1>2, <1>3, MadeListing
<1>5. ASSUME NEW i \in 1 .. size PROVE Shown(l[i], Root)
  <2>1. ModeIs(Views[i]) /\ Views[i].title # None
    BY <1>2, MountsAre
  <2>2. PICK n : Opens(Views[i], Root, n)
    BY <2>1, RootOpens
  <2>3. PICK listing : listing = CHOOSE k \in Children(Views[i], Root) : TRUE
    OBVIOUS
  <2>4. listing \in Children(Views[i], Root)
    BY <2>2, <2>3 DEF Opens, Holds
  <2>5. Len(listing) = n
    BY <2>2, <2>4 DEF Opens, Holds
  <2>6. PICK id, title : id = prefixed(Views[i].view, Root) /\ title = Views[i].title
    OBVIOUS
  <2>7. l[i] = Listed(id, Root, title, n)
    BY <1>1, <1>2, <2>3, <2>5, <2>6 DEF top_level
  <2>8. Held(id, n)
    BY <1>2, <2>2, <2>6, RootLocal DEF Held
  <2> QED BY <2>1, <2>6, <2>7, <2>8 DEF Shown, Listed
<1>6. ShownAt(l, size, Root)
  BY <1>4, <1>5 DEF ShownAt
<1> QED BY <1>1, <1>6 DEF children

(* A container of so many children has them listed, whenever it is asked.  *)
LEMMA HeldLists ==
  ASSUME IndexBuilt(lib), NEW id, NEW n, Held(id, n)
  PROVE  n \in Nat /\ children(id) # {} /\ \A l \in children(id) : ShownAt(l, n, id)
<1>1. CASE id = Root /\ n = Len(Views)
  BY <1>1, RootHolds, MountsAre
<1>2. ASSUME NEW m \in DOMAIN Views, NEW local \in LocalIds,
             id = prefixed(Views[m].view, local), Opens(Views[m], local, n)
      PROVE  n \in Nat /\ children(id) # {} /\ \A l \in children(id) : ShownAt(l, n, id)
  BY <1>2, MountHolds
<1> QED BY <1>1, <1>2 DEF Held

LEMMA HeldOnce ==
  ASSUME IndexBuilt(lib), NEW id, NEW n, NEW m, Held(id, n), Held(id, m)
  PROVE  n = m
<1>1. PICK l : l \in children(id)
  BY HeldLists
<1>2. ShownAt(l, n, id) /\ ShownAt(l, m, id)
  BY <1>1, HeldLists
<1> QED BY <1>2 DEF ShownAt

LEMMA HeldIs ==
  ASSUME NEW id, NEW n, Held(id, n)
  PROVE  id \in Seq(IdTokens) /\ id # None
<1>1. CASE id = Root
  <2>1. PICK zero : zero = "0"
    OBVIOUS
  <2>2. zero \in IdTokens
    BY <2>1 DEF IdTokens
  <2>3. Root \in Seq(IdTokens)
    BY <2>1, <2>2 DEF Root
  <2> QED BY <1>1, <2>3, LocalIdsAre
<1>2. CASE id # Root
  BY <1>2, PrefixedApart DEF Held
<1> QED BY <1>1, <1>2

-----------------------------------------------------------------------------
(* Browsing a container.                                                   *)

LEMMA TokensAre ==
  /\ IdTokens \subseteq Labels /\ " " \in DOMAIN Escapes
  /\ ViewNames \cap {" "} = {} /\ "$" # " " /\ "0" # " "
  BY EscapesAssumption DEF Labels, ViewNames

LEMMA UnspacedApart ==
  ASSUME NEW id, NEW n \in Nat, Len(id) = n, NEW blank, blank = " ", \A i \in 1 .. n : id[i] # blank
  PROVE  Unspaced(id)
  BY Zenon DEF Unspaced

LEMMA PrefixedAskable ==
  ASSUME NEW n \in DOMAIN Views, NEW local \in LocalIds, NEW id,
         id = prefixed(Views[n].view, local)
  PROVE  Askable(id)
<1>1. PICK m, v, blank, bar : /\ m = Len(local) /\ v = Views[n].view /\ blank = " " /\ bar = "$"
  OBVIOUS
<1>2. PrefixedBy(id, v, local, m)
  BY <1>1, LocalIdsAre, PrefixedIs
<1>3. v # blank /\ bar # blank
  <2>1. v \in ViewNames
    BY <1>1, MountsAre
  <2> QED BY <1>1, <2>1, TokensAre
<1>4. \A i \in 1 .. m : local[i] # blank
  <2>1. local \in Seq(IdTokens)
    BY LocalIdsAre
  <2>2. ToSet(local) \cap DOMAIN Escapes = {}
    BY DEF LocalIds
  <2>3. \A i \in 1 .. m : local[i] \in ToSet(local)
    BY <1>1, <2>1, LenProperties DEF ToSet
  <2> QED BY <1>1, <2>2, <2>3, TokensAre
<1>5. /\ m \in Nat /\ Len(id) = 2 + m /\ id[1] = v /\ id[2] = bar
      /\ \A i \in 1 .. m : id[2 + i] = local[i]
  BY <1>1, <1>2 DEF PrefixedBy
<1>6. \A i \in 1 .. 2 + m : id[i] # blank
  <2> SUFFICES ASSUME NEW i \in 1 .. 2 + m PROVE id[i] # blank
    OBVIOUS
  <2>1. CASE i \in {1, 2}
    BY <1>3, <1>5, <2>1
  <2>2. CASE i \notin {1, 2}
    <3>1. PICK k : k = i - 2
      OBVIOUS
    <3>2. k \in 1 .. m /\ i = 2 + k
      BY <1>5, <2>2, <3>1
    <3> QED BY <1>4, <1>5, <3>2
  <2> QED BY <2>1, <2>2
<1>7. Unspaced(id)
  <2>1. PICK size : size = 2 + m
    OBVIOUS
  <2>2. size \in Nat /\ Len(id) = size /\ \A i \in 1 .. size : id[i] # blank
    BY <1>5, <1>6, <2>1
  <2> QED BY <1>1, <2>2, UnspacedApart
<1>8. id \in Seq(Labels)
  <2>1. id \in Seq(IdTokens)
    BY PrefixedApart
  <2> QED BY <2>1, TokensAre, SeqMonotonic
<1> QED BY <1>7, <1>8 DEF Askable

LEMMA HeldAskable ==
  ASSUME NEW id, NEW n, Held(id, n)
  PROVE  Askable(id)
<1>1. CASE id = Root
  <2>1. PICK zero : zero = "0"
    OBVIOUS
  <2>2. zero \in Labels \ {" "}
    BY <2>1, TokensAre DEF Labels, IdTokens
  <2>3. id = <<zero>>
    BY <1>1, <2>1 DEF Root
  <2> QED BY <2>2, <2>3, WordAskable
<1>2. CASE id # Root
  BY <1>2, PrefixedAskable DEF Held
<1> QED BY <1>1, <1>2

(* What may be on a page of a container.                                   *)
Coming(id) ==
  UNION {{render_one(l[i]) : i \in {k \in 1 .. Len(l) : Shown(l[k], id)}} : l \in children(id)}

(* What a control point is told of a track.                                *)
Offers(r, item) ==
  /\ Holding(r.id, item)
  /\ r.protocolInfo = protocol_info(lib.items[item].path) /\ r.res = item_url(r.id)
  /\ r.albumArtURI = IF lib.items[item].has_art THEN {art_url(r.id)} ELSE {}

Told(r, id) ==
  /\ r.parentID = id /\ r.title # None
  /\ \/ r.tag = "container" /\ Held(r.id, r.childCount)
     \/ r.tag = "item" /\ \E item \in Items : Offers(r, item)

LEMMA ShownTold ==
  ASSUME NEW e, NEW id, id # None, Shown(e, id), NEW r, r = render_one(e)
  PROVE  Told(r, id)
<1>1. e.parent = id /\ e.title # None
  BY DEF Shown
<1>2. CASE e.path = None /\ Held(e.id, e.count)
  <2>1. r = [tag |-> "container", id |-> e.id, title |-> e.title, childCount |-> e.count,
             parentID |-> e.parent]
    BY <1>1, <1>2 DEF render_one
  <2> QED BY <1>1, <1>2, <2>1 DEF Told
<1>3. ASSUME NEW item \in Items, Holding(e.id, item), e.path = lib.items[item].path, e.path # None,
             e.has_art = lib.items[item].has_art
      PROVE  Told(r, id)
  <2>1. r = [tag |-> "item", id |-> e.id, title |-> e.title, parentID |-> e.parent,
             protocolInfo |-> protocol_info(e.path), res |-> item_url(e.id),
             creator |-> e.artist, album |-> e.album, albumArtURI |-> albumArtURI(e)]
    BY <1>3 DEF render_one
  <2>2. /\ r.tag = "item" /\ r.id = e.id /\ r.title = e.title /\ r.parentID = e.parent
        /\ r.protocolInfo = protocol_info(e.path) /\ r.res = item_url(e.id)
        /\ r.albumArtURI = albumArtURI(e)
    BY <2>1
  <2>3. albumArtURI(e) = IF lib.items[item].has_art THEN {art_url(e.id)} ELSE {}
    BY <1>3 DEF albumArtURI
  <2>4. Offers(r, item)
    BY <1>3, <2>2, <2>3 DEF Offers
  <2> QED BY <1>1, <2>2, <2>4 DEF Told
<1> QED BY <1>2, <1>3 DEF Shown

LEMMA ComingTold ==
  ASSUME NEW r, NEW id, NEW n, Held(id, n), r \in Coming(id)
  PROVE  Told(r, id)
  BY HeldIs, ShownTold DEF Coming

(* A page that came of a container, and how many entries there are in all. *)
Paged(response, id, start, n) ==
  LET entries == response.body.Result
  IN /\ response.status = 200 /\ entries \in Seq(Coming(id))
     /\ response.body.NumberReturned = Len(entries) /\ response.body.TotalMatches = n
     /\ start + Len(entries) <= n
     /\ start < n => Len(entries) > 0

LEMMA PageComes ==
  ASSUME NEW id, NEW l \in children(id), NEW n \in Nat, ShownAt(l, n, id),
         NEW start \in Nat, NEW p, PageOf(p, l, start), NEW response,
         response = browse_response(p, n)
  PROVE  Paged(response, id, start, n)
<1>1. PICK size, entries : size = Len(p) /\ entries = render(p)
  OBVIOUS
<1>2. /\ size \in Nat /\ DOMAIN p = 1 .. size /\ start + size <= n /\ (start < n => size > 0)
      /\ \A i \in 1 .. size : p[i] = l[start + i]
  BY <1>1 DEF PageOf, ShownAt, Listing
<1>3. DOMAIN entries = 1 .. size /\ \A i \in 1 .. size : entries[i] = render_one(p[i])
  BY <1>1, <1>2 DEF render
<1>4. ASSUME NEW i \in 1 .. size PROVE entries[i] \in Coming(id)
  <2>1. PICK k : k = start + i
    OBVIOUS
  <2>2. k \in 1 .. n
    BY <1>2, <2>1
  <2>3. Shown(l[k], id) /\ k \in 1 .. Len(l)
    BY <2>2 DEF ShownAt
  <2>4. entries[i] = render_one(l[k])
    BY <1>2, <1>3, <2>1
  <2> QED BY <2>3, <2>4 DEF Coming
<1>5. entries \in Seq(Coming(id)) /\ Len(entries) = size
  <2>1. entries = [i \in 1 .. size |-> entries[i]]
    BY <1>1, <1>2, <1>3 DEF render
  <2>2. entries \in [1 .. size -> Coming(id)]
    BY <1>4, <2>1
  <2> QED BY <1>2, <2>2, TupleIs
<1>6. /\ response.status = 200 /\ response.body.Result = entries
      /\ response.body.NumberReturned = size /\ response.body.TotalMatches = n
  BY <1>1 DEF browse_response, Ok, Response
<1> QED BY <1>2, <1>5, <1>6 DEF Paged

(* The answers to a page of a container.                                   *)
Pages(id, action) == {browse_response(paginate(l, action), Len(l)) : l \in children(id)}

LEMMA ChildrenBrowsed ==
  ASSUME NEW action, NEW id, NEW flag, flag = "BrowseDirectChildren", NEW start, NEW number,
         Asking(action.arguments, id, flag, start, number)
  PROVE  browse(action) = OrElse(Pages(id, action), Fault(701))
<1>1. PICK flags : flags = <<"BrowseDirectChildren">>
  OBVIOUS
<1>2. /\ {"ObjectID", "BrowseFlag"} \subseteq DOMAIN action.arguments
      /\ action.arguments.ObjectID = id /\ action.arguments.BrowseFlag = flags
  BY <1>1 DEF Asking
<1>3. PICK A : A = {browse_response(paginate(l, action), Len(l)) :
                      l \in children(action.arguments.ObjectID)}
  OBVIOUS
<1>4. browse(action) = OrElse(A, Fault(701))
  BY <1>1, <1>2, <1>3 DEF browse
<1>5. A = Pages(id, action)
  BY <1>2, <1>3 DEF Pages
<1> QED BY <1>4, <1>5

(* A page of a container is asked for, and is part of a listing of it, the *)
(* rest of it if no number is given (dispatch.rs, browse and paginate).    *)
PageFrom(response, l, start, n, number) ==
  \E p : /\ PageOf(p, l, start) /\ response = browse_response(p, n)
         /\ number = 0 => start + Len(p) = n

LEMMA BrowsePages ==
  ASSUME IndexBuilt(lib), NEW id, NEW n, Held(id, n), NEW start \in 0 .. MaxUsize, start <= n,
         NEW number \in 0 .. MaxUsize,
         NEW response \in handle(browse_request(id, "BrowseDirectChildren", start, number))
  PROVE  \E l \in children(id) : ShownAt(l, n, id) /\ PageFrom(response, l, start, n, number)
<1>1. n \in Nat /\ children(id) # {} /\ \A l \in children(id) : ShownAt(l, n, id)
  BY HeldLists
<1>2. PICK flag : flag = "BrowseDirectChildren"
  OBVIOUS
<1>3. flag \in Flags /\ Askable(id)
  BY <1>2, HeldAskable DEF Flags
<1>4. PICK action : /\ handle(browse_request(id, flag, start, number)) = browse(action)
                    /\ Asking(action.arguments, id, flag, start, number)
  BY <1>3, BrowseReached
<1>5. PICK S : S = Pages(id, action)
  OBVIOUS
<1>6. browse(action) = OrElse(S, Fault(701))
  <2>1. Asking(action.arguments, id, flag, start, number)
    BY <1>4
  <2> QED BY <1>2, <1>5, <2>1, ChildrenBrowsed
<1>7. S # {}
  BY <1>1, <1>5 DEF Pages
<1>8. response \in S
  BY <1>2, <1>4, <1>6, <1>7 DEF OrElse
<1>9. PICK l \in children(id) : response = browse_response(paginate(l, action), Len(l))
  BY <1>5, <1>8 DEF Pages
<1>10. ShownAt(l, n, id) /\ Len(l) = n
  BY <1>1, <1>9 DEF ShownAt
<1>11. Number(action, "StartingIndex") = start /\ Number(action, "RequestedCount") = number
  BY <1>4, NumbersAsked
<1>12. PICK p : p = paginate(l, action)
  OBVIOUS
<1>13. PageOf(p, l, start) /\ (number = 0 => start + Len(p) = n)
  <2>1. Listing(l) /\ start <= Len(l)
    BY <1>10 DEF ShownAt
  <2> QED BY <1>10, <1>11, <1>12, <2>1, PageIs
<1>14. response = browse_response(p, n)
  BY <1>9, <1>10, <1>12
<1> QED BY <1>9, <1>10, <1>13, <1>14 DEF PageFrom

LEMMA BrowseLists ==
  ASSUME IndexBuilt(lib), NEW id, NEW n, Held(id, n), NEW start \in 0 .. MaxUsize, start <= n,
         NEW number \in 0 .. MaxUsize,
         NEW response \in handle(browse_request(id, "BrowseDirectChildren", start, number))
  PROVE  Paged(response, id, start, n)
<1>1. PICK l \in children(id) : ShownAt(l, n, id) /\ PageFrom(response, l, start, n, number)
  BY BrowsePages
<1>2. PICK p : PageOf(p, l, start) /\ response = browse_response(p, n)
  BY <1>1 DEF PageFrom
<1>3. n \in Nat
  BY HeldLists
<1> QED BY <1>1, <1>2, <1>3, PageComes

(* An id no view knows is answered with a fault of its own.                *)
LEMMA BrowseFails ==
  ASSUME NEW response \in handle(browse_request(<<"this-object-id-should-not-exist-anywhere">>,
                                                "BrowseDirectChildren", 0, 0))
  PROVE  response = Fault(701)
<1>1. PICK flag, word, id, zero : /\ flag = "BrowseDirectChildren" /\ zero = 0 /\ id = <<word>>
                                  /\ word = "this-object-id-should-not-exist-anywhere"
  OBVIOUS
<1>2. flag \in Flags /\ Askable(id)
  <2>1. word \in Labels \ {" "}
    BY <1>1 DEF Labels
  <2> QED BY <1>1, <2>1, WordAskable DEF Flags
<1>3. PICK action : /\ handle(browse_request(id, flag, zero, zero)) = browse(action)
                    /\ Asking(action.arguments, id, flag, zero, zero)
  <2>1. zero \in Nat
    BY <1>1
  <2> QED BY <1>2, <2>1, BrowseReached
<1>4. PICK S : S = Pages(id, action)
  OBVIOUS
<1>5. browse(action) = OrElse(S, Fault(701))
  <2>1. Asking(action.arguments, id, flag, zero, zero) /\ flag = "BrowseDirectChildren"
    BY <1>1, <1>3
  <2> QED BY <1>4, <2>1, ChildrenBrowsed
<1>6. children(id) = {}
  <2>1. id # Root /\ Len(id) = 1 /\ id[1] # "$"
    BY <1>1 DEF Root
  <2> DEFINE I == {k \in 1 .. Len(id) : id[k] = "$"}
             Cut == IF I # {} THEN Min(I) ELSE 0
  <2>2. I = {}
    BY <2>1
  <2>3. Cut = 0
    BY <2>2
  <2> HIDE DEF I
  <2>4. mount_and_local_id(id) = {}
    BY <2>3 DEF mount_and_local_id, FirstFrom, SelectInSubSeq, I
  <2> QED BY <2>1, <2>4 DEF children
<1>7. S = {}
  BY <1>4, <1>6 DEF Pages
<1>8. browse(action) = {Fault(701)}
  BY <1>5, <1>7 DEF OrElse
<1> QED BY <1>1, <1>3, <1>8

-----------------------------------------------------------------------------
(* Playing a track.                                                        *)

(* The index is what a scan made of the disk.                              *)
Stands == disk \in Disks /\ lib = Scanned(disk)

LEMMA StandsBuilt ==
  ASSUME Stands
  PROVE  IndexBuilt(lib) /\ FilesPlaced(disk)
  BY DisksAssumption DEF Stands

LEMMA ItemScanned ==
  ASSUME Stands, NEW item \in Items
  PROVE  /\ item \in DOMAIN disk.placed /\ lib.items[item].path = disk.placed[item].path
         /\ lib.items[item].has_art = metadata(disk, disk.placed[item].path).has_art
<1>1. PICK made : made = [id \in DOMAIN disk.placed |->
                           LET place == disk.placed[id]
                               read  == metadata(disk, place.path)
                           IN [parent |-> place.parent, path |-> place.path,
                               modified |-> disk.files[place.path].modified, title |-> read.title,
                               number |-> read.number, artist |-> read.artist, album |-> read.album,
                               has_art |-> read.has_art]]
  OBVIOUS
<1>2. lib.items = made
  BY <1>1 DEF Stands, Scanned
<1>3. item \in DOMAIN disk.placed
  BY <1>1, <1>2, SMTT(30) DEF Items
<1>4. /\ made[item].path = disk.placed[item].path
      /\ made[item].has_art = metadata(disk, disk.placed[item].path).has_art
  BY <1>1, <1>3, SMTT(30)
<1> QED BY <1>2, <1>3, <1>4

(* What FilesPlaced says of one file.                                      *)
Playing(path, target) ==
  LET tag == disk.files[path].tag
  IN /\ target = disk.files[path].target /\ target # None
     /\ disk.files[target].dir \in disk.within
     /\ \/ tag = None
        \/ /\ tag.pictures # None /\ tag.pictures \in Seq(ToSet(tag.pictures))
           /\ \A i \in DOMAIN tag.pictures : tag.pictures[i].path # None

LEMMA FileIs ==
  ASSUME Stands, NEW item \in Items, NEW path, path = lib.items[item].path
  PROVE  Playing(path, disk.files[path].target)
<1>1. item \in DOMAIN disk.placed /\ path = disk.placed[item].path
  BY ItemScanned
<1>2. FilesPlaced(disk)
  BY StandsBuilt
<1> QED BY <1>1, <1>2 DEF FilesPlaced, Playing

LEMMA HoldingIs ==
  ASSUME IndexBuilt(lib), NEW id, NEW item, Holding(id, item)
  PROVE  /\ id # Root /\ id # <<>> /\ id # None /\ id \in Seq(IdTokens) /\ item \in LocalIds
         /\ \E m \in DOMAIN Views : id = prefixed(Views[m].view, item)
<1>1. item \in LocalIds
  BY IdsLocal DEF Holding
<1>2. PICK m \in DOMAIN Views : id = prefixed(Views[m].view, item)
  BY DEF Holding
<1>3. id # Root /\ id # None /\ id \in Seq(IdTokens)
  BY <1>1, <1>2, PrefixedApart
<1>4. id # <<>>
  <2>1. PICK k, v : k = Len(item) /\ v = Views[m].view
    OBVIOUS
  <2>2. PrefixedBy(id, v, item, k)
    BY <1>1, <1>2, <2>1, LocalIdsAre, PrefixedIs
  <2>3. Len(id) # 0
    BY <2>2 DEF PrefixedBy
  <2> QED BY <2>3
<1> QED BY <1>1, <1>2, <1>3, <1>4

LEMMA ItemEntry ==
  ASSUME IndexBuilt(lib), NEW id, NEW item, Holding(id, item)
  PROVE  entry(id) # {} /\ \A e \in entry(id) : e.path = lib.items[item].path /\ e.path # None
<1>1. PICK m \in DOMAIN Views : id = prefixed(Views[m].view, item)
  BY HoldingIs
<1>2. id # Root /\ item \in LocalIds /\ item \in Items
  BY HoldingIs DEF Holding
<1>3. mount_and_local_id(id) = {[view |-> Views[m], id |-> item]}
  BY <1>1, <1>2, LocalIdsAre, MountedAt
<1>4. PICK v : v = Views[m].view
  OBVIOUS
<1>5. entry(id) = {rewrap(v, found) : found \in Entries(Views[m], item)}
  BY <1>2, <1>3, <1>4 DEF entry
<1>6. /\ Entries(Views[m], item) # {}
      /\ \A found \in Entries(Views[m], item) :
           DOMAIN found = Fields /\ found.id = item /\ ListsItem(found)
  BY <1>2, MountsAre, ItemsFound
<1>7. ASSUME NEW found \in Entries(Views[m], item), NEW e, e = rewrap(v, found)
      PROVE  e.path = lib.items[item].path /\ e.path # None
  <2>1. PICK up, down : /\ down = prefixed(v, found.id)
                        /\ up = IF found.parent = None THEN Root ELSE prefixed(v, found.parent)
    OBVIOUS
  <2>2. DOMAIN found = Fields /\ found.id = item /\ ListsItem(found)
    BY <1>6
  <2>3. e = [found EXCEPT !.id = down, !.parent = up]
    BY <1>7, <2>1, <2>2 DEF rewrap, Fields
  <2>4. e.path = found.path
    BY <2>2, <2>3, SMTT(30) DEF Fields
  <2> QED BY <2>2, <2>4 DEF ListsItem
<1> QED BY <1>5, <1>6, <1>7

LEMMA ItemResolved ==
  ASSUME Stands, NEW id, NEW item, Holding(id, item), NEW path, path = lib.items[item].path,
         NEW target, target = disk.files[path].target
  PROVE  resolve_item_path(id) = {target}
<1>1. entry(id) # {} /\ \A e \in entry(id) : e.path = path /\ e.path # None
  BY StandsBuilt, ItemEntry
<1>2. {e \in entry(id) : e.path # None} = entry(id)
  BY <1>1
<1>3. {disk.files[e.path].target : e \in entry(id)} = {target}
  BY <1>1
<1>4. disk.files[target].dir \in disk.within
  BY FileIs DEF Playing, Holding
<1>5. resolve_item_path(id) = {p \in {target} : disk.files[p].dir \in disk.within}
  BY <1>2, <1>3 DEF resolve_item_path
<1> QED BY <1>4, <1>5

LEMMA ItemRouted ==
  ASSUME NEW id, id # <<>>
  PROVE  /\ handle(Get("GET", <<"item", id>>)) = handle_item(id, "GET")
         /\ handle(Get("HEAD", <<"item", id>>)) = handle_item(id, "HEAD")
<1>1. PICK path : path = <<"item", id>>
  OBVIOUS
<1>2. Len(path) = 2 /\ path[1] = "item" /\ path[2] = id /\ path # <<"description.xml">>
  BY <1>1
<1>3. parse_path("item", path) = {id} /\ parse_path("art", path) = {}
  BY <1>2 DEF parse_path
<1>4. {t \in Services : path = scpd_path(t)} = {}
  <2>1. \A t \in Services : t # "item"
    BY DEF Services
  <2> QED BY <1>1, <2>1 DEF scpd_path
<1>5. {Route("item", i) : i \in parse_path("item", path)} = {Route("item", id)}
  BY <1>3
<1>6. route("GET", path) = Route("item", id)
  <2>1. {Route("art", i) : i \in parse_path("art", path)} = {}
    BY <1>3
  <2>2. {Route("scpd", s) : s \in {t \in Services : path = scpd_path(t)}} = {}
    BY <1>4
  <2>3. {Route("description", None) : p \in {path} \cap {<<"description.xml">>}} = {}
    BY <1>2
  <2>4. route("GET", path) = CHOOSE r \in OrElse({Route("item", id)}, Route("not_found", None)) : TRUE
    BY <1>5, <2>1, <2>2, <2>3 DEF route
  <2> QED BY <2>4, OneChosen, OrElseIs
<1>7. route("HEAD", path) = Route("item", id)
  <2>1. route("HEAD", path) = CHOOSE r \in OrElse({Route("item", id)}, Route("not_found", None)) : TRUE
    BY <1>5 DEF route
  <2> QED BY <2>1, OneChosen, OrElseIs
<1>8. \A method \in {"GET", "HEAD"} : Get(method, path).method = method /\ Get(method, path).path = path
  BY DEF Get
<1>9. Route("item", id).kind = "item" /\ Route("item", id).of = id
  BY DEF Route
<1> QED BY <1>1, <1>6, <1>7, <1>8, <1>9 DEF handle, respond

LEMMA ArtRouted ==
  ASSUME NEW id, id # <<>>
  PROVE  handle(Get("GET", art_url(id))) = handle_art(id)
<1>1. PICK path : path = <<"art", id>>
  OBVIOUS
<1>2. Len(path) = 2 /\ path[1] = "art" /\ path[2] = id /\ path # <<"description.xml">>
  BY <1>1
<1>3. parse_path("art", path) = {id} /\ parse_path("item", path) = {}
  BY <1>2 DEF parse_path
<1>4. {t \in Services : path = scpd_path(t)} = {}
  <2>1. \A t \in Services : t # "art"
    BY DEF Services
  <2> QED BY <1>1, <2>1 DEF scpd_path
<1>5. route("GET", path) = Route("art", id)
  <2>1. {Route("art", i) : i \in parse_path("art", path)} = {Route("art", id)}
    BY <1>3
  <2>2. {Route("item", i) : i \in parse_path("item", path)} = {}
    BY <1>3
  <2>3. {Route("scpd", s) : s \in {t \in Services : path = scpd_path(t)}} = {}
    BY <1>4
  <2>4. {Route("description", None) : p \in {path} \cap {<<"description.xml">>}} = {}
    BY <1>2
  <2>5. route("GET", path) = CHOOSE r \in OrElse({Route("art", id)}, Route("not_found", None)) : TRUE
    BY <2>1, <2>2, <2>3, <2>4 DEF route
  <2> QED BY <2>5, OneChosen, OrElseIs
<1>6. Get("GET", path).method = "GET" /\ Get("GET", path).path = path
  BY DEF Get
<1>7. Route("art", id).kind = "art" /\ Route("art", id).of = id
  BY DEF Route
<1>8. art_url(id) = path
  BY <1>1, SMTT(30) DEF art_url
<1> QED BY <1>5, <1>6, <1>7, <1>8 DEF handle, respond

(* A track's id plays the file it leads to, and HEAD tells the same        *)
(* without the bytes (http/mod.rs, handle_item).                           *)
LEMMA ItemPlays ==
  ASSUME Stands, NEW id, NEW item, Holding(id, item), NEW path, path = lib.items[item].path,
         NEW target, target = disk.files[path].target
  PROVE  /\ handle(Get("GET", <<"item", id>>))
              = {Response(200, [headers |-> protocol_info(target), file |-> target])}
         /\ handle(Get("HEAD", <<"item", id>>))
              = {Response(200, [headers |-> protocol_info(target), file |-> None])}
<1>1. resolve_item_path(id) = {target}
  BY ItemResolved
<1>2. id # <<>>
  BY StandsBuilt, HoldingIs
<1>3. PICK full, head :
        /\ full = Response(200, [headers |-> protocol_info(target), file |-> target])
        /\ head = Response(200, [headers |-> protocol_info(target), file |-> None])
  OBVIOUS
<1>4. ASSUME NEW method, NEW answers, NEW r,
             answers = {Response(200, [headers |-> protocol_info(p),
                                       file |-> IF method = "HEAD" THEN None ELSE p]) : p \in {target}},
             answers = {r}
      PROVE  handle_item(id, method) = {r}
  <2>1. handle_item(id, method) = OrElse(answers, empty_response(404))
    BY <1>1, <1>4 DEF handle_item
  <2> QED BY <1>4, <2>1, OrElseIs, ZenonT(30)
<1>5. handle_item(id, "GET") = {full}
  <2>1. PICK method : method = "GET"
    OBVIOUS
  <2>2. PICK answers :
          answers = {Response(200, [headers |-> protocol_info(p),
                                    file |-> IF method = "HEAD" THEN None ELSE p]) : p \in {target}}
    OBVIOUS
  <2>3. (IF method = "HEAD" THEN None ELSE target) = target
    BY <2>1
  <2>4. full = Response(200, [headers |-> protocol_info(target),
                            file |-> IF method = "HEAD" THEN None ELSE target])
    BY <1>3, <2>3
  <2>5. answers = {full}
    BY <2>2, <2>4
  <2> QED BY <1>4, <2>1, <2>2, <2>5
<1>6. handle_item(id, "HEAD") = {head}
  <2>1. PICK method : method = "HEAD"
    OBVIOUS
  <2>2. PICK answers :
          answers = {Response(200, [headers |-> protocol_info(p),
                                    file |-> IF method = "HEAD" THEN None ELSE p]) : p \in {target}}
    OBVIOUS
  <2>3. (IF method = "HEAD" THEN None ELSE target) = None
    BY <2>1, SMTT(30)
  <2>4. head = Response(200, [headers |-> protocol_info(target),
                            file |-> IF method = "HEAD" THEN None ELSE target])
    BY <1>3, <2>3
  <2>5. answers = {head}
    BY <2>2, <2>4
  <2> QED BY <1>4, <2>1, <2>2, <2>5
<1>7. /\ handle(Get("GET", <<"item", id>>)) = handle_item(id, "GET")
      /\ handle(Get("HEAD", <<"item", id>>)) = handle_item(id, "HEAD")
  BY <1>2, ItemRouted
<1> QED BY <1>3, <1>5, <1>6, <1>7

(* A cover is there for what was scanned as having one, as long as the     *)
(* file is no link (metadata/tags.rs, find_art and has_art).               *)
LEMMA CoverThere ==
  ASSUME Stands, NEW item \in Items, NEW path, path = lib.items[item].path
  PROVE  lib.items[item].has_art \in BOOLEAN /\ (lib.items[item].has_art <=> find_art(disk, path) # None)
<1>1. PICK tag, cover, target :
        /\ tag = disk.files[path].tag /\ cover = find_cover_file(disk, path)
        /\ target = disk.files[path].target
  OBVIOUS
<1>2. \/ tag = None
      \/ /\ tag.pictures # None /\ tag.pictures \in Seq(ToSet(tag.pictures))
         /\ \A i \in DOMAIN tag.pictures : tag.pictures[i].path # None
  BY <1>1, FileIs, ZenonT(30) DEF Playing
<1>3. lib.items[item].has_art
        = ((IF tag = None \/ tag["pictures"] = None THEN <<>> ELSE tag["pictures"]) # <<>>
             \/ cover # None)
  <2>1. lib.items[item].has_art = metadata(disk, path).has_art
    BY ItemScanned
  <2> QED BY <1>1, <2>1 DEF metadata
<1>4. find_art(disk, path) = IF embedded_picture(disk, path) # None
                             THEN embedded_picture(disk, path) ELSE cover
  BY <1>1 DEF find_art, Or
<1>5. CASE tag = None
  <2>1. embedded_picture(disk, path) = None
    BY <1>1, <1>5 DEF embedded_picture
  <2> QED BY <1>3, <1>4, <1>5, <2>1
<1>6. CASE tag # None
  <2>1. PICK pictures : pictures = tag.pictures
    OBVIOUS
  <2>2. /\ pictures # None /\ pictures \in Seq(ToSet(pictures))
        /\ \A i \in DOMAIN pictures : pictures[i].path # None
    BY <1>2, <1>6, <2>1
  <2>3. lib.items[item].has_art = (pictures # <<>> \/ cover # None)
    BY <1>3, <1>6, <2>1, <2>2
  <2>4. CASE pictures = <<>>
    <3>1. embedded_picture(disk, path) = None
      BY <1>1, <2>1, <2>4 DEF embedded_picture
    <3> QED BY <1>4, <2>3, <2>4, <3>1
  <2>5. CASE pictures # <<>>
    <3>1. PICK front : front = SelectInSeq(pictures, LAMBDA p : p.front)
      OBVIOUS
    <3>2. embedded_picture(disk, path) = pictures[IF front = 0 THEN 1 ELSE front].path
      BY <1>1, <1>6, <2>1, <2>5, <3>1 DEF embedded_picture
    <3>3. DOMAIN pictures = 1 .. Len(pictures) /\ Len(pictures) \in Nat /\ Len(pictures) # 0
      BY <2>2, <2>5, LenProperties, EmptySeq
    <3>4. (IF front = 0 THEN 1 ELSE front) \in DOMAIN pictures
      <4>1. PICK I : I = {i \in 1 .. Len(pictures) : pictures[i].front}
        OBVIOUS
      <4>2. front = IF I # {} THEN Min(I) ELSE 0
        BY <3>1, <4>1 DEF SelectInSeq
      <4>3. CASE I = {}
        BY <3>3, <4>2, <4>3
      <4>4. CASE I # {}
        <5>1. I \in SUBSET Nat
          BY <3>3, <4>1
        <5>2. PICK k \in I : \A i \in I : k <= i
          BY <4>4, <5>1, LeastExists
        <5>3. front = k
          BY <4>2, <4>4, <5>1, <5>2, MinIs
        <5> QED BY <3>3, <4>1, <5>2, <5>3
      <4> QED BY <4>3, <4>4
    <3>5. embedded_picture(disk, path) # None
      BY <2>2, <3>2, <3>4
    <3> QED BY <1>4, <2>3, <2>5, <3>5
  <2> QED BY <2>4, <2>5
<1> QED BY <1>5, <1>6

LEMMA ArtServed ==
  ASSUME Stands, NEW id, NEW item, Holding(id, item), NEW path, path = lib.items[item].path,
         disk.files[path].target = path,
         NEW response \in handle(Get("GET", art_url(id)))
  PROVE  (response.status = 200) <=> lib.items[item].has_art
<1>1. resolve_item_path(id) = {path}
  BY ItemResolved
<1>2. id # <<>>
  BY StandsBuilt, HoldingIs
<1>3. PICK picture : picture = find_art(disk, path)
  OBVIOUS
<1>4. PICK answers : answers = {Response(200, [picture |-> p]) : p \in {picture} \ {None}}
  OBVIOUS
<1>5. response \in OrElse(answers, empty_response(404))
  <2>1. {find_art(disk, p) : p \in resolve_item_path(id)} = {picture}
    BY <1>1, <1>3
  <2>2. handle_art(id) = OrElse(answers, empty_response(404))
    BY <1>4, <2>1 DEF handle_art
  <2> QED BY <1>2, <2>2, ArtRouted
<1>6. lib.items[item].has_art \in BOOLEAN /\ (lib.items[item].has_art <=> picture # None)
  BY <1>3, CoverThere DEF Holding
<1>7. CASE picture = None
  <2>1. answers = {}
    BY <1>4, <1>7
  <2>2. response = empty_response(404)
    BY <1>5, <2>1 DEF OrElse
  <2>3. response.status = 404
    BY <2>2 DEF empty_response, Response
  <2> QED BY <1>6, <1>7, <2>3
<1>8. CASE picture # None
  <2>1. PICK sent : sent = Response(200, [picture |-> picture])
    OBVIOUS
  <2>2. answers = {sent}
    BY <1>4, <1>8, <2>1
  <2>3. response = sent
    BY <1>5, <2>2, OrElseIs, ZenonT(30)
  <2>4. response.status = 200
    BY <2>1, <2>3 DEF Response
  <2> QED BY <1>6, <1>8, <2>4
<1> QED BY <1>7, <1>8

-----------------------------------------------------------------------------
(* Index and disk stay as they are, and so does what is listed of them.    *)

LEMMA SnapshotStays == ASSUME UNCHANGED lib PROVE Snapshot' = Snapshot
<1>1. all_items' = all_items
  BY DEF all_items, Containers, Items
<1> QED BY <1>1 DEF Snapshot, snapshot_of, resolve_album_facts, album_ids, consistent_tag_value,
                    Items, folder_artist_key, build_artist_containers, IsContainer, Containers,
                    apply_dual_role_exclusion

LEMMA ViewsStay ==
  ASSUME UNCHANGED lib, NEW mode, NEW id
  PROVE  Children(mode, id)' = Children(mode, id)
<1>1. ASSUME NEW snapshot
      PROVE  children_within(mode, id, snapshot)' = children_within(mode, id, snapshot)
  BY DEF children_within, albums_under_artist, tracks_of_album, album_containers, album_container,
         Tracks, Items, Containers, Sorted, real_entries, RealEntry, IsItem, ByKindAndNumber,
         IsContainer, TopLevel, all_songs, albums, artists, recently_added_songs,
         recently_added_albums, artist_container
<1> QED BY <1>1, SnapshotStays DEF Children

LEMMA HeldStays ==
  ASSUME UNCHANGED lib, NEW id, NEW n
  PROVE  Held(id, n)' <=> Held(id, n)
<1>1. ASSUME NEW mode, NEW local PROVE Opens(mode, local, n)' = Opens(mode, local, n)
  BY ViewsStay DEF Opens
<1> QED BY <1>1 DEF Held

LEMMA TopLevelStays == ASSUME UNCHANGED lib PROVE top_level' = top_level
<1> DEFINE size(m) == Len(CHOOSE l \in Children(Views[m], Root) : TRUE)
<1>1. ASSUME NEW m PROVE size(m)' = size(m)
  <2>1. PICK A : A = Children(Views[m], Root)
    OBVIOUS
  <2>2. A = Children(Views[m], Root)'
    BY <2>1, ViewsStay
  <2>3. size(m) = Len(CHOOSE l \in A : TRUE)
    BY <2>1
  <2>4. size(m)' = Len(CHOOSE l \in A : TRUE)
    BY <2>2
  <2> QED BY <2>3, <2>4
<1>2. top_level = [m \in DOMAIN Views |->
                     Listed(prefixed(Views[m].view, Root), Root, Views[m].title, size(m))]
  BY DEF top_level
<1>3. top_level' = [m \in DOMAIN Views |->
                      Listed(prefixed(Views[m].view, Root), Root, Views[m].title, size(m)')]
  BY DEF top_level
<1> HIDE DEF size
<1> QED BY <1>1, <1>2, <1>3

LEMMA ListingsStay ==
  ASSUME UNCHANGED lib, NEW id
  PROVE  children(id)' = children(id)
<1> DEFINE Within(local) == {Rewrapped(local.view.view, l) : l \in Children(local.view, local.id)}
<1>1. ASSUME NEW local PROVE Within(local)' = Within(local)
  BY ViewsStay DEF Rewrapped
<1>2. children(id) = IF id = Root THEN {top_level}
                     ELSE UNION {Within(local) : local \in mount_and_local_id(id)}
  BY DEF children, Rewrapped
<1>3. children(id)' = IF id = Root THEN {top_level'}
                      ELSE UNION {Within(local)' : local \in mount_and_local_id(id)}
  BY DEF children, Rewrapped
<1> HIDE DEF Within
<1> QED BY <1>1, <1>2, <1>3, TopLevelStays

LEMMA HoldingStays ==
  ASSUME UNCHANGED lib, NEW id, NEW item
  PROVE  Holding(id, item)' <=> Holding(id, item)
  BY DEF Holding, Items

LEMMA ComingStays ==
  ASSUME UNCHANGED <<lib, disk>>, NEW id
  PROVE  Coming(id)' = Coming(id)
<1>1. ASSUME NEW e PROVE Shown(e, id)' = Shown(e, id)
  BY HeldStays, HoldingStays DEF Shown, Items
<1>2. ASSUME NEW e PROVE render_one(e)' = render_one(e)
  BY DEF render_one, protocol_info, mime_for, dlna_content_features
<1>3. children(id)' = children(id)
  BY ListingsStay
<1> DEFINE Of(l) == {render_one(l[i]) : i \in {k \in 1 .. Len(l) : Shown(l[k], id)}}
<1>4. ASSUME NEW l PROVE Of(l)' = Of(l)
  BY <1>1, <1>2
<1>5. Coming(id) = UNION {Of(l) : l \in children(id)}
  BY DEF Coming
<1>6. Coming(id)' = UNION {Of(l)' : l \in children(id)'}
  BY DEF Coming
<1> HIDE DEF Of
<1> QED BY <1>3, <1>4, <1>5, <1>6

-----------------------------------------------------------------------------
(* The walk.                                                               *)

Openables == {id \in Seq(IdTokens) : \E n : Held(id, n)}

Playables == {id \in Seq(IdTokens) : \E item \in Items : Holding(id, item)}

LEMMA WalkStays ==
  ASSUME UNCHANGED <<lib, disk>>
  PROVE  Openables' = Openables /\ Playables' = Playables
  BY HeldStays, HoldingStays DEF Openables, Playables, Items

(* The container being paged through has been looked into, and no more of  *)
(* it is listed than there is.                                             *)
Paging ==
  /\ current \in visited /\ page \in Seq(Coming(current))
  /\ \/ total = None /\ page = <<>>
     \/ Held(current, total) /\ Len(page) <= total

(* What a walk knows: where it can go, how many children it will find      *)
(* there, what it can play, and that no check has failed.                  *)
Tour ==
  /\ Stands /\ count \in PageSizes
  /\ phase \in {"walk", "fault", "play", "done"} /\ (phase # "walk" => Complete)
  /\ queue \in Seq(Openables) /\ visited \subseteq Openables
  /\ \A id \in DOMAIN expected : Held(id, expected[id])
  /\ (current = None /\ page = <<>> /\ total = None) \/ Paging
  /\ seen \in Seq(Playables)
  /\ passed \in BOOLEAN /\ WalkPasses

LEMMA TourBegins == Init => Tour
<1> SUFFICES ASSUME Init PROVE Tour
  OBVIOUS
<1>1. Stands /\ count \in PageSizes /\ phase = "walk"
  BY DEF Init, Stands
<1>2. queue \in Seq(Openables)
  <2>1. Held(Root, Len(Views))
    BY DEF Held
  <2>2. Root \in Seq(IdTokens)
    BY <2>1, HeldIs
  <2>3. Root \in Openables
    BY <2>1, <2>2 DEF Openables
  <2> QED BY <2>3 DEF Init
<1>3. visited = {} /\ current = None /\ page = <<>> /\ total = None /\ passed = TRUE
  BY DEF Init
<1>4. \A id \in DOMAIN expected : Held(id, expected[id])
  BY DEF Init
<1>5. seen \in Seq(Playables)
  BY DEF Init
<1> QED BY <1>1, <1>2, <1>3, <1>4, <1>5 DEF Tour, WalkPasses

(* What stays when a step leaves these alone.                              *)
LEMMA TourStands ==
  ASSUME Tour, UNCHANGED <<lib, disk, count, expected, seen>>
  PROVE  /\ Stands' /\ (count \in PageSizes)' /\ (seen \in Seq(Playables))'
         /\ (\A id \in DOMAIN expected : Held(id, expected[id]))'
<1>1. Stands' /\ (count \in PageSizes)'
  BY DEF Tour, Stands, Scanned
<1>2. (seen \in Seq(Playables))'
  BY WalkStays DEF Tour
<1>3. (\A id \in DOMAIN expected : Held(id, expected[id]))'
  <2>1. \A id \in DOMAIN expected : Held(id, expected[id])
    BY DEF Tour
  <2>2. ASSUME NEW id \in DOMAIN expected PROVE Held(id, expected[id])'
    <3>1. PICK n : n = expected[id]
      OBVIOUS
    <3>2. Held(id, n)' <=> Held(id, n)
      BY HeldStays
    <3>3. n = expected'[id]
      BY <3>1
    <3> QED BY <2>1, <3>1, <3>2, <3>3
  <2> QED BY <2>2
<1> QED BY <1>1, <1>2, <1>3

LEMMA PagingStays ==
  ASSUME UNCHANGED <<lib, disk, current, page, total>>, visited \subseteq visited', Paging
  PROVE  Paging'
<1>1. PICK id, n : id = current /\ n = total
  OBVIOUS
<1>2. Coming(id)' = Coming(id) /\ (Held(id, n)' <=> Held(id, n))
  BY ComingStays, HeldStays
<1>3. current' = id /\ total' = n /\ page' = page
  BY <1>1
<1>4. Coming(current)' = Coming(id)' /\ (Held(current, total)' <=> Held(id, n)')
  BY <1>1
<1> QED BY <1>1, <1>2, <1>3, <1>4 DEF Paging

LEMMA LastFront ==
  ASSUME NEW X, NEW s \in Seq(X), s # <<>>
  PROVE  Last(s) \in X /\ Front(s) \in Seq(X)
<1>1. PICK n : n = Len(s)
  OBVIOUS
<1>2. n \in Nat /\ n # 0 /\ \A i \in 1 .. n : s[i] \in X
  BY <1>1, LenProperties, EmptySeq, ElementOfSeq
<1>3. Last(s) \in X
  BY <1>1, <1>2 DEF Last
<1>4. PICK from, to : from = 1 /\ to = n - 1
  OBVIOUS
<1>5. from \in Int /\ to \in Int /\ \A i \in from .. to : s[i] \in X
  BY <1>2, <1>4
<1>6. SubSeq(s, from, to) \in Seq(X)
  BY <1>5, SubSeqProperties
<1> QED BY <1>1, <1>3, <1>4, <1>6 DEF Front

LEMMA OpenTours ==
  ASSUME Tour, Open
  PROVE  Tour'
<1>1. UNCHANGED <<lib, disk, phase, count, expected, seen, passed>> /\ queue # <<>>
  BY DEF Open
<1>2. Stands' /\ (count \in PageSizes)' /\ (seen \in Seq(Playables))'
      /\ (\A id \in DOMAIN expected : Held(id, expected[id]))'
  BY <1>1, TourStands
<1>3. Openables' = Openables
  BY <1>1, WalkStays
<1>4. Last(queue) \in Openables /\ queue' \in Seq(Openables)
  <2>1. queue \in Seq(Openables)
    BY DEF Tour
  <2> QED BY <1>1, <2>1, LastFront DEF Open
<1>5. (queue \in Seq(Openables))'
  BY <1>3, <1>4
<1>6. (passed \in BOOLEAN /\ WalkPasses)'
  BY <1>1 DEF Tour, WalkPasses
<1>7. (phase \in {"walk", "fault", "play", "done"} /\ (phase # "walk" => Complete))'
  BY <1>1 DEF Open
<1>8. CASE Last(queue) \in visited
  <2>1. UNCHANGED <<visited, current, page, total>>
    BY <1>8 DEF Open
  <2>2. (visited \subseteq Openables)'
    BY <1>3, <2>1 DEF Tour
  <2>3. ((current = None /\ page = <<>> /\ total = None) \/ Paging)'
    BY <1>1, <2>1, PagingStays DEF Tour
  <2> QED BY <1>2, <1>5, <1>6, <1>7, <2>2, <2>3 DEF Tour
<1>9. CASE Last(queue) \notin visited
  <2>1. /\ visited' = visited \cup {Last(queue)}
        /\ current' = Last(queue) /\ page' = <<>> /\ total' = None
    BY <1>9 DEF Open
  <2>2. (visited \subseteq Openables)'
    BY <1>3, <1>4, <2>1 DEF Tour
  <2>3. Paging'
    BY <2>1 DEF Paging
  <2> QED BY <1>2, <1>5, <1>6, <1>7, <2>2, <2>3 DEF Tour
<1> QED BY <1>8, <1>9

LEMMA MappedIds ==
  ASSUME NEW X, NEW s \in Seq(X), NEW Y, \A x \in X : x.id \in Y
  PROVE  [i \in DOMAIN s |-> s[i].id] \in Seq(Y)
<1>1. PICK n : n = Len(s)
  OBVIOUS
<1>2. n \in Nat /\ DOMAIN s = 1 .. n /\ \A i \in 1 .. n : s[i] \in X
  BY <1>1, LenProperties, ElementOfSeq
<1>3. [i \in 1 .. n |-> s[i].id] \in [1 .. n -> Y]
  BY <1>2
<1> QED BY <1>2, <1>3, TupleIs

LEMMA Received ==
  ASSUME Tour, phase = "walk", ~Complete, NEW n, Held(current, n), NEW response,
         Paged(response, current, Len(page), n), Receive(response),
         UNCHANGED <<lib, disk, phase, count, visited, current>>
  PROVE  Tour' /\ (Complete' \/ Len(page') > Len(page))
<1>1. PICK id, X, entries, all, start :
        /\ id = current /\ X = Coming(id) /\ entries = response.body.Result
        /\ all = page \o entries /\ start = Len(page)
  OBVIOUS
<1>2. IndexBuilt(lib) /\ Held(id, n) /\ n \in Nat /\ current # None
  <2>1. IndexBuilt(lib)
    BY StandsBuilt DEF Tour
  <2>2. Held(id, n)
    BY <1>1
  <2> QED BY <1>1, <2>1, <2>2, HeldLists, HeldIs
<1>3. Paging
  BY <1>2 DEF Tour
<1>4. /\ page \in Seq(X) /\ entries \in Seq(X)
      /\ response.body.NumberReturned = Len(entries) /\ response.body.TotalMatches = n
      /\ start + Len(entries) <= n /\ (start < n => Len(entries) > 0)
  BY <1>1, <1>3 DEF Paging, Paged
<1>5. all \in Seq(X) /\ Len(all) = start + Len(entries) /\ Len(all) <= n
      /\ start \in Nat /\ Len(entries) \in Nat
  BY <1>1, <1>4, ConcatIs
<1>6. \A r \in X : Told(r, id)
  BY <1>1, <1>2, ComingTold
<1>7. PICK boxes, tracks : /\ boxes = {e \in ToSet(entries) : e.tag = "container"}
                           /\ tracks = {e \in ToSet(entries) : e.tag = "item"}
  OBVIOUS
<1> DEFINE opened == Only(response.body.Result,
                          {e \in ToSet(response.body.Result) : e.tag = "container"})
           counted == {opened[i].id : i \in DOMAIN opened}
           counts == [j \in counted \cup DOMAIN expected |->
                        IF j \notin counted THEN expected[j]
                        ELSE (CHOOSE e \in ToSet(opened) : e.id = j).childCount]
<1>8. PICK items : opened = Only(entries, boxes) /\ items = Only(entries, tracks)
  BY <1>1, <1>7
<1>9. opened \in Seq(X \cap boxes) /\ items \in Seq(X \cap tracks)
  BY <1>4, <1>8, OnlyCollects
<1>10. \A r \in X \cap boxes : Held(r.id, r.childCount) /\ r.id \in Openables
  <2> SUFFICES ASSUME NEW r \in X \cap boxes
               PROVE  Held(r.id, r.childCount) /\ r.id \in Openables
    OBVIOUS
  <2>1. Told(r, id) /\ r.tag = "container"
    BY <1>6, <1>7
  <2>2. Held(r.id, r.childCount)
    BY <2>1 DEF Told
  <2> QED BY <2>2, HeldIs DEF Openables
<1>11. \A r \in X \cap tracks : r.id \in Playables
  <2> SUFFICES ASSUME NEW r \in X \cap tracks PROVE r.id \in Playables
    OBVIOUS
  <2>1. Told(r, id) /\ r.tag = "item"
    BY <1>6, <1>7
  <2>2. PICK item \in Items : Offers(r, item)
    BY <2>1 DEF Told
  <2>3. Holding(r.id, item)
    BY <2>2, SMTT(30) DEF Offers
  <2> QED BY <1>2, <2>3, HoldingIs DEF Playables
<1>12. /\ page' = all /\ total' = n
       /\ passed' = (passed /\ Checks(entries, response.body.NumberReturned, all, n))
       /\ queue' = queue \o [i \in DOMAIN opened |-> opened[i].id]
       /\ seen' = seen \o [i \in DOMAIN items |-> items[i].id]
       /\ expected' = counts
  BY <1>1, <1>4, <1>7, <1>8 DEF Receive
<1> HIDE DEF counts
<1>13. (queue \in Seq(Openables))' /\ (seen \in Seq(Playables))'
  <2>1. [i \in DOMAIN opened |-> opened[i].id] \in Seq(Openables)
    BY <1>9, <1>10, MappedIds
  <2>2. [i \in DOMAIN items |-> items[i].id] \in Seq(Playables)
    BY <1>9, <1>11, MappedIds, SMTT(30)
  <2>3. queue' \in Seq(Openables) /\ seen' \in Seq(Playables)
    BY <1>12, <2>1, <2>2, ConcatIs DEF Tour
  <2> QED BY <2>3, WalkStays
<1>14. (\A j \in DOMAIN expected : Held(j, expected[j]))'
  <2> HIDE DEF opened
  <2>1. counted = {opened[i].id : i \in DOMAIN opened}
    OBVIOUS
  <2> HIDE DEF counted
  <2>2. expected' = [j \in counted \cup DOMAIN expected |->
                       IF j \notin counted THEN expected[j]
                       ELSE (CHOOSE e \in ToSet(opened) : e.id = j).childCount]
    BY <1>12 DEF counts
  <2>3. ASSUME NEW j \in DOMAIN expected' PROVE Held(j, expected[j])'
    <3>1. PICK m : m = expected'[j]
      OBVIOUS
    <3>2. Held(j, m)
      <4>1. CASE j \notin counted
        <5>1. j \in DOMAIN expected /\ m = expected[j]
          BY <2>2, <3>1, <4>1
        <5> QED BY <5>1 DEF Tour
      <4>2. CASE j \in counted
        <5>1. PICK c : c = CHOOSE e \in ToSet(opened) : e.id = j
          OBVIOUS
        <5>2. \E e \in ToSet(opened) : e.id = j
          BY <2>1, <4>2 DEF ToSet
        <5>3. c \in ToSet(opened) /\ c.id = j
          BY <5>1, <5>2
        <5>4. c \in X \cap boxes
          BY <1>9, <5>3, ToSetIn
        <5>5. m = c.childCount
          BY <2>2, <3>1, <4>2, <5>1
        <5> QED BY <1>10, <5>3, <5>4, <5>5
      <4> QED BY <4>1, <4>2
    <3>3. Held(j, m)' <=> Held(j, m)
      BY HeldStays
    <3> QED BY <3>1, <3>2, <3>3
  <2> QED BY <2>3
<1>15. Checks(entries, response.body.NumberReturned, all, n)
  <2>1. \A i \in DOMAIN entries : entries[i].parentID = current
    <3>1. \A i \in DOMAIN entries : entries[i] \in X
      BY <1>4, LenProperties, ElementOfSeq
    <3> QED BY <1>1, <1>6, <3>1 DEF Told
  <2>2. ASSUME Len(all) >= n, current \in DOMAIN expected PROVE expected[current] = Len(all)
    <3>1. PICK m : m = expected[id]
      OBVIOUS
    <3>2. Held(id, m)
      BY <1>1, <2>2, <3>1 DEF Tour
    <3>3. m = n
      BY <1>2, <3>2, HeldOnce
    <3>4. Len(all) = n
      BY <1>2, <1>5, <2>2, SMTT(30)
    <3> QED BY <1>1, <3>1, <3>3, <3>4
  <2> QED BY <1>4, <2>1, <2>2 DEF Checks
<1>16. (passed \in BOOLEAN /\ WalkPasses)'
  <2>1. passed = TRUE
    BY DEF Tour, WalkPasses
  <2> QED BY <1>12, <1>15, <2>1 DEF WalkPasses
<1>17. Paging'
  <2>1. Coming(id)' = Coming(id) /\ (Held(id, n)' <=> Held(id, n))
    BY ComingStays, HeldStays, SMTT(30)
  <2>2. current' = id /\ total' = n /\ page' = all /\ visited' = visited
    BY <1>1, <1>12
  <2>3. Coming(current)' = X /\ Held(current, total)'
    BY <1>1, <1>2, <2>1, <2>2
  <2> QED BY <1>3, <1>5, <2>2, <2>3 DEF Paging
<1>18. Stands' /\ (count \in PageSizes)'
  BY DEF Tour, Stands, Scanned
<1>19. (visited \subseteq Openables)'
  BY WalkStays DEF Tour
<1>20. Tour'
  BY <1>13, <1>14, <1>16, <1>17, <1>18, <1>19 DEF Tour
<1>21. Complete' \/ Len(page') > Len(page)
  <2>1. CASE start < n
    BY <1>1, <1>4, <1>5, <1>12, <2>1
  <2>2. CASE ~(start < n)
    <3>1. Len(all) >= n
      BY <1>2, <1>5, <2>2, SMTT(30)
    <3>2. total' # None /\ Len(page') >= total'
      BY <1>2, <1>12, <3>1, BodiesAssumption
    <3> QED BY <3>2 DEF Complete
  <2> QED BY <2>1, <2>2, SMTT(30)
<1> QED BY <1>20, <1>21

(* How many children the container being paged through has, and that no    *)
(* more have been listed.                                                  *)
LEMMA WalkedSoFar ==
  ASSUME Tour, current # None, Paging, NEW id, id = current, NEW start, start = Len(page)
  PROVE  \E n : Held(id, n) /\ start \in Nat /\ start <= n
<1>1. IndexBuilt(lib)
  BY StandsBuilt DEF Tour
<1>2. PICK n : Held(id, n)
  BY DEF Tour, Paging, Openables
<1>3. n \in Nat
  BY <1>1, <1>2, HeldLists
<1>4. start \in Nat /\ start <= n
  <2>1. page \in Seq(Coming(id)) /\ start \in Nat
    BY LenProperties DEF Paging
  <2>2. CASE total = None /\ page = <<>>
    BY <1>3, <2>1, <2>2
  <2>3. CASE Held(current, total) /\ Len(page) <= total
    <3>1. PICK m : m = total
      OBVIOUS
    <3>2. Held(id, m) /\ start <= m
      BY <2>3, <3>1
    <3> QED BY <1>1, <1>2, <2>1, <3>2, HeldOnce
  <2> QED BY <2>1, <2>2, <2>3 DEF Paging
<1> QED BY <1>2, <1>4

LEMMA BrowseTours ==
  ASSUME Tour, Browse
  PROVE  Tour' /\ (Complete' \/ Len(page') > Len(page))
<1>1. phase = "walk" /\ ~Complete /\ Len(page) <= MaxUsize
      /\ UNCHANGED <<lib, disk, phase, count, visited>>
  BY DEF Browse
<1>2. current # None /\ Paging
  BY <1>1 DEF Tour, Complete
<1>3. PICK id, start, number : id = current /\ start = Len(page) /\ number = count
  OBVIOUS
<1>4. IndexBuilt(lib) /\ number \in 0 .. MaxUsize
  BY <1>3, StandsBuilt, PagesAssumption DEF Tour
<1>5. PICK n : Held(id, n) /\ start \in Nat /\ start <= n
  BY <1>2, <1>3, WalkedSoFar
<1>5a. start \in 0 .. MaxUsize
  BY <1>1, <1>3, <1>5, UsizeAssumption
<1>6. n \in Nat
  BY <1>4, <1>5, HeldLists
<1>8. PICK response \in handle(browse_request(current, "BrowseDirectChildren", Len(page), count)) :
        IF response.status = 200 THEN Receive(response) /\ UNCHANGED current
        ELSE /\ passed' = FALSE /\ current' = None
             /\ UNCHANGED <<page, total, queue, expected, seen>>
  BY DEF Browse
<1>9. response \in handle(browse_request(id, "BrowseDirectChildren", start, number))
  BY <1>3, <1>8
<1>10. Paged(response, id, start, n)
  BY <1>4, <1>5, <1>5a, <1>9, BrowseLists
<1>11. Receive(response) /\ UNCHANGED current
  BY <1>8, <1>10 DEF Paged
<1>12. Held(current, n) /\ Paged(response, current, Len(page), n)
  BY <1>3, <1>5, <1>10
<1> QED BY <1>1, <1>11, <1>12, Received

(* Nothing a walk has learnt changes after it.                             *)
Settled == UNCHANGED <<lib, disk, count, queue, visited, expected, current, page, total, seen>>

LEMMA SettledTours ==
  ASSUME Tour, Settled, Complete, phase' \in {"walk", "fault", "play", "done"},
         passed' \in BOOLEAN, WalkPasses'
  PROVE  Tour'
<1>1. Stands' /\ (count \in PageSizes)' /\ (seen \in Seq(Playables))'
      /\ (\A id \in DOMAIN expected : Held(id, expected[id]))'
  BY TourStands DEF Settled
<1>2. (queue \in Seq(Openables))' /\ (visited \subseteq Openables)'
  BY WalkStays DEF Tour, Settled
<1>3. ((current = None /\ page = <<>> /\ total = None) \/ Paging)'
  BY PagingStays DEF Tour, Settled
<1>4. Complete'
  BY DEF Complete, Settled
<1> QED BY <1>1, <1>2, <1>3, <1>4 DEF Tour

LEMMA EndWalkTours ==
  ASSUME Tour, EndWalk
  PROVE  Tour'
<1>1. Settled /\ Complete /\ phase' = "fault" /\ UNCHANGED passed /\ phase = "walk"
  BY DEF EndWalk, Settled
<1>2. passed' \in BOOLEAN /\ WalkPasses'
  BY <1>1 DEF Tour, WalkPasses
<1> QED BY <1>1, <1>2, SettledTours

LEMMA FaultTours ==
  ASSUME Tour, check_fault_701
  PROVE  Tour'
<1>1. Settled /\ Complete /\ phase' = "play" /\ phase = "fault"
  BY DEF check_fault_701, Settled, Tour
<1>2. PICK response \in handle(browse_request(<<"this-object-id-should-not-exist-anywhere">>,
                                              "BrowseDirectChildren", 0, 0)) :
        passed' = (passed /\ response = Fault(701))
  BY DEF check_fault_701
<1>3. response = Fault(701)
  BY <1>2, BrowseFails
<1>4. passed = TRUE
  BY <1>1 DEF Tour, WalkPasses
<1>5. passed' \in BOOLEAN /\ WalkPasses'
  BY <1>2, <1>3, <1>4 DEF WalkPasses
<1> QED BY <1>1, <1>5, SettledTours

LEMMA PlaybackTours ==
  ASSUME Tour, check_playback
  PROVE  Tour'
<1>1. Settled /\ Complete /\ phase' = "done" /\ phase = "play"
  BY DEF check_playback, Settled, Tour
<1>2. CASE seen = <<>> /\ passed' = FALSE
  <2>1. WalkPasses' /\ passed' \in BOOLEAN
    BY <1>1, <1>2 DEF WalkPasses, Settled
  <2> QED BY <1>1, <2>1, SettledTours
<1>3. CASE ~(seen = <<>> /\ passed' = FALSE)
  <2>1. seen # <<>>
    BY <1>3 DEF check_playback
  <2>2. PICK id : id = seen[1]
    OBVIOUS
  <2>3. PICK full \in handle(Get("GET", <<"item", seen[1]>>)),
             head \in handle(Get("HEAD", <<"item", seen[1]>>)) :
          passed' = (/\ passed /\ full.status = 200 /\ head.status = 200
                     /\ full.body.file # None /\ head.body.file = None
                     /\ full.body.headers = head.body.headers)
    BY <1>3 DEF check_playback
  <2>4. id \in Playables
    <3>1. seen \in Seq(Playables)
      BY DEF Tour
    <3>2. Len(seen) \in Nat /\ Len(seen) # 0
      BY <2>1, <3>1, LenProperties, EmptySeq
    <3> QED BY <2>2, <3>1, <3>2, ElementOfSeq
  <2>5. PICK item \in Items : Holding(id, item)
    BY <2>4 DEF Playables
  <2>6. PICK path, target : path = lib.items[item].path /\ target = disk.files[path].target
    OBVIOUS
  <2>7. Stands
    BY DEF Tour
  <2>8. target # None
    BY <2>6, <2>7, FileIs DEF Playing
  <2>9. /\ handle(Get("GET", <<"item", id>>))
             = {Response(200, [headers |-> protocol_info(target), file |-> target])}
        /\ handle(Get("HEAD", <<"item", id>>))
             = {Response(200, [headers |-> protocol_info(target), file |-> None])}
    BY <2>5, <2>6, <2>7, ItemPlays
  <2>10. /\ full = Response(200, [headers |-> protocol_info(target), file |-> target])
         /\ head = Response(200, [headers |-> protocol_info(target), file |-> None])
    BY <2>2, <2>3, <2>9
  <2>11. /\ full.status = 200 /\ head.status = 200
         /\ full.body.file # None /\ head.body.file = None
         /\ full.body.headers = head.body.headers
    BY <2>8, <2>10 DEF Response
  <2>12. passed = TRUE
    BY <1>1 DEF Tour, WalkPasses
  <2>13. passed' = TRUE
    BY <2>3, <2>11, <2>12
  <2> QED BY <1>1, <2>13, SettledTours DEF WalkPasses
<1> QED BY <1>2, <1>3

LEMMA TourContinues == Tour /\ [Next]_vars => Tour'
<1> SUFFICES ASSUME Tour, [Next]_vars PROVE Tour'
  OBVIOUS
<1>1. CASE Open
  BY <1>1, OpenTours
<1>2. CASE Browse
  BY <1>2, BrowseTours
<1>3. CASE EndWalk
  BY <1>3, EndWalkTours
<1>4. CASE check_fault_701
  BY <1>4, FaultTours
<1>5. CASE check_playback
  BY <1>5, PlaybackTours
<1>6. ASSUME Settled /\ UNCHANGED <<phase, passed>> PROVE Tour'
  <2>1. CASE Complete
    <3>1. WalkPasses' /\ passed' \in BOOLEAN /\ phase' \in {"walk", "fault", "play", "done"}
      BY <1>6 DEF Tour, WalkPasses, Settled
    <3> QED BY <1>6, <2>1, <3>1, SettledTours
  <2>2. CASE ~Complete
    <3>1. Stands' /\ (count \in PageSizes)' /\ (seen \in Seq(Playables))'
          /\ (\A id \in DOMAIN expected : Held(id, expected[id]))'
      BY <1>6, TourStands DEF Settled
    <3>2. (queue \in Seq(Openables))' /\ (visited \subseteq Openables)'
      BY <1>6, WalkStays DEF Tour, Settled
    <3>3. ((current = None /\ page = <<>> /\ total = None) \/ Paging)'
      BY <1>6, PagingStays DEF Tour, Settled
    <3>4. (phase \in {"walk", "fault", "play", "done"} /\ (phase # "walk" => Complete))'
      BY <1>6, <2>2 DEF Tour
    <3>5. (passed \in BOOLEAN /\ WalkPasses)'
      BY <1>6 DEF Tour, WalkPasses, Settled
    <3> QED BY <3>1, <3>2, <3>3, <3>4, <3>5 DEF Tour
  <2> QED BY <2>1, <2>2
<1>7. ASSUME NEW question \in Questions, NEW style \in Styles, Ask(question, style) PROVE Tour'
  BY <1>6, <1>7 DEF Ask, Settled
<1>8. CASE UNCHANGED vars
  BY <1>6, <1>8 DEF vars, Settled
<1> QED BY <1>1, <1>2, <1>3, <1>4, <1>5, <1>7, <1>8 DEF Next

LEMMA TourAlways == Spec => []Tour
  BY TourBegins, TourContinues, PTL DEF Spec

-----------------------------------------------------------------------------
(* What comes of it.                                                       *)

(* No check of the walk fails: a response holds as many entries as it      *)
(* says, each names the container it was listed in, each container has as  *)
(* many children as it was listed with, an id nothing has is answered with *)
(* a fault of its own, and the first track found plays                     *)
(* (examples/verify_music_library.rs against composite.rs, dispatch.rs and *)
(* http/mod.rs).                                                           *)
THEOREM WalksPass == Spec => []WalkPasses
<1>1. Tour => WalkPasses
  BY DEF Tour
<1> QED BY <1>1, TourAlways, PTL

(* Each page gets a client on, until it has as many entries as there are   *)
(* in all (dispatch.rs, paginate).                                         *)
THEOREM EachPageAdvances == Spec => PagesAdvance
<1>1. Tour /\ [Next]_vars => [current # None /\ ~Complete => Complete' \/ Len(page') > Len(page)]_vars
  <2> SUFFICES ASSUME Tour, Next, current # None, ~Complete
               PROVE  Complete' \/ Len(page') > Len(page)
    OBVIOUS
  <2>1. phase = "walk"
    BY DEF Tour
  <2>2. Browse
    BY <2>1 DEF Next, Open, EndWalk, check_fault_701, check_playback, Ask
  <2> QED BY <2>2, BrowseTours
<1> QED BY <1>1, TourAlways, PTL DEF Spec, PagesAdvance

-----------------------------------------------------------------------------
(* What an id of a listing tells.                                          *)

LEMMA LocalIs ==
  ASSUME NEW v, NEW X, NEW local \in Seq(X), NEW id, id = prefixed(v, local)
  PROVE  Local(id) = local /\ Mount(id) = v /\ id[2] = "$"
<1>1. PICK m, two, Y : m = Len(local) /\ two = 2 /\ Y = X \cup {v, "$"}
  OBVIOUS
<1>2. PrefixedBy(id, v, local, m) /\ id \in Seq(Y)
  BY <1>1, PrefixedIs
<1>3. /\ m \in Nat /\ two \in Nat /\ Len(id) = two + m /\ id[1] = v /\ id[2] = "$"
      /\ \A i \in 1 .. m : id[two + i] = local[i]
  BY <1>1, <1>2 DEF PrefixedBy
<1>4. PICK p : p = SubSeq(id, two + 1, Len(id))
  OBVIOUS
<1>5. p \in Seq(Y) /\ Len(p) = m /\ \A i \in 1 .. m : p[i] = id[two + i]
  BY <1>2, <1>3, <1>4, CutIs
<1>6. p = local
  BY <1>1, <1>3, <1>5, SeqsEqual
<1>7. Local(id) = p
  <2>1. two + 1 = 3
    BY <1>1
  <2> QED BY <1>4, <2>1 DEF Local
<1> QED BY <1>3, <1>6, <1>7 DEF Mount

LEMMA PrefixedType ==
  ASSUME NEW n \in DOMAIN Views, NEW local \in LocalIds, NEW id,
         id = prefixed(Views[n].view, local)
  PROVE  IdType(id)
<1>1. local \in Seq(IdTokens)
  BY LocalIdsAre
<1>2. Local(id) = local /\ Mount(id) = Views[n].view /\ id[2] = "$"
  BY <1>1, LocalIs
<1>3. ToSet(local) \cap DOMAIN Escapes = {}
  BY DEF LocalIds
<1> QED BY <1>2, <1>3 DEF IdType, Mount

LEMMA WalkIds ==
  ASSUME IndexBuilt(lib)
  PROVE  \A id \in Openables \cup Playables : IdType(id)
<1>1. ASSUME NEW id \in Openables PROVE IdType(id)
  <2>1. PICK n : Held(id, n)
    BY DEF Openables
  <2>2. CASE id = Root
    BY <2>2 DEF IdType
  <2>3. CASE id # Root
    BY <2>1, <2>3, PrefixedType DEF Held
  <2> QED BY <2>2, <2>3
<1>2. ASSUME NEW id \in Playables PROVE IdType(id)
  <2>1. PICK item \in Items : Holding(id, item)
    BY DEF Playables
  <2>2. item \in LocalIds /\ \E m \in DOMAIN Views : id = prefixed(Views[m].view, item)
    BY <2>1, HoldingIs
  <2> QED BY <2>2, PrefixedType
<1> QED BY <1>1, <1>2

(* An answer is a success or a fault.                                      *)
Statuses == {200, 500}

Responded == answer = None \/ answer.status \in Statuses

LEMMA DispatchStatus ==
  ASSUME NEW service, NEW action, NEW response \in dispatch(service, action)
  PROVE  response.status \in Statuses
<1>1. \A code : Fault(code).status \in Statuses
  BY DEF Fault, Response, Statuses
<1>2. \A out : Ok(out).status \in Statuses
  BY DEF Ok, Response, Statuses
<1>3. ASSUME NEW r \in browse(action) PROVE r.status \in Statuses
  <2>1. PICK A : A = {browse_response(paginate(listing, action), Len(listing)) :
                        listing \in children(action.arguments.ObjectID)}
    OBVIOUS
  <2>2. PICK B : B = {browse_response(<<found>>, 1) : found \in entry(action.arguments.ObjectID)}
    OBVIOUS
  <2>3. browse(action) \in {OrElse(A, Fault(701)), OrElse(B, Fault(701)), {Fault(402)}}
    BY <2>1, <2>2 DEF browse
  <2>4. \A entries, n : browse_response(entries, n).status \in Statuses
    BY <1>2 DEF browse_response
  <2>5. \A x \in A \cup B : x.status \in Statuses
    BY <2>1, <2>2, <2>4
  <2>6. r \in A \cup B \/ r = Fault(701) \/ r = Fault(402)
    BY <2>3 DEF OrElse
  <2> QED BY <1>1, <2>5, <2>6
<1>4. ASSUME NEW r \in content_directory_action(action) PROVE r.status \in Statuses
  <2>1. PICK name : name = action.name
    OBVIOUS
  <2>2. CASE name = "Browse"
    BY <1>3, <1>4, <2>1, <2>2 DEF content_directory_action
  <2>3. CASE name # "Browse"
    <3>1. \E out : r = Ok(out) \/ r = Fault(401)
      BY <1>4, <2>1, <2>3 DEF content_directory_action
    <3> QED BY <1>1, <1>2, <3>1
  <2> QED BY <2>2, <2>3
<1>5. ASSUME NEW r \in connection_manager_action(action) PROVE r.status \in Statuses
  <2>1. \E out : r = Ok(out) \/ r = Fault(401) \/ r = Fault(402)
    BY <1>5 DEF connection_manager_action
  <2> QED BY <1>1, <1>2, <2>1
<1> QED BY <1>4, <1>5 DEF dispatch

LEMMA AskIsResponded ==
  ASSUME NEW question \in Questions, NEW style \in Styles, Ask(question, style)
  PROVE  Responded'
<1>1. PICK device \in handle(Get("GET", <<"description.xml">>)) :
        \E service \in {s \in device.body : s.service = question.service} :
          \E response \in handle([Post(service.control, <<>>) EXCEPT
                                    !.body = Written(question, style)]) :
            answer' = response
  BY DEF Ask
<1>2. device.body = description
  BY <1>1, DescriptionTold DEF Response
<1>3. PICK service \in description :
        \E response \in handle([Post(service.control, <<>>) EXCEPT
                                  !.body = Written(question, style)]) : answer' = response
  BY <1>1, <1>2
<1>4. PICK s \in Services : service.control = control_path(s)
  BY <1>3 DEF description
<1>5. PICK req : req = [Post(control_path(s), <<>>) EXCEPT !.body = Written(question, style)]
  OBVIOUS
<1>6. answer' \in handle(req)
  BY <1>3, <1>4, <1>5
<1>7. handle(req) = dispatch(s, Call(question))
  BY <1>5, DispatchResponds, QuestionDispatched
<1> QED BY <1>6, <1>7, DispatchStatus DEF Responded

LEMMA RespondedAlways == Spec => []Responded
<1>1. Init => Responded
  BY DEF Init, Responded
<1>2. Responded /\ [Next]_vars => Responded'
  <2> SUFFICES ASSUME Responded, [Next]_vars PROVE Responded'
    OBVIOUS
  <2>1. CASE UNCHANGED answer
    BY <2>1 DEF Responded
  <2>2. Open \/ Browse \/ EndWalk \/ check_fault_701 \/ check_playback => UNCHANGED answer
    BY DEF Open, Browse, EndWalk, check_fault_701, check_playback
  <2>3. UNCHANGED vars => UNCHANGED answer
    BY DEF vars
  <2> QED BY <2>1, <2>2, <2>3, AskIsResponded DEF Next
<1> QED BY <1>1, <1>2, PTL DEF Spec

(* What is on a page was told of the container being paged through.        *)
LEMMA PageTold ==
  ASSUME Tour, NEW i \in DOMAIN page
  PROVE  /\ current \in Openables /\ page[i] \in Coming(current)
         /\ Told(page[i], current)
<1>1. Paging
  <2>1. CASE current = None /\ page = <<>>
    BY <2>1
  <2> QED BY <2>1 DEF Tour
<1>2. PICK id, X : id = current /\ X = Coming(id)
  OBVIOUS
<1>3. page \in Seq(X) /\ id \in Openables
  BY <1>1, <1>2 DEF Tour, Paging
<1>4. page[i] \in X
  BY <1>3, LenProperties, ElementOfSeq
<1>5. PICK n : Held(id, n)
  BY <1>3 DEF Openables
<1>6. Told(page[i], id)
  BY <1>2, <1>4, <1>5, ComingTold
<1> QED BY <1>2, <1>3, <1>4, <1>6

(* The index is the scan's, a walk is at a container it has looked into,   *)
(* every id it was told is the root or a mount's, with nothing in it that  *)
(* could come back garbled, counts are numbers, and everything listed is   *)
(* a container or an item with a title and a parent (composite.rs;         *)
(* music_library.rs, percent_encode; didl/mod.rs).                         *)
THEOREM WalkTyped == Spec => []TypeOK
<1>1. Tour /\ Responded => TypeOK
  <2> SUFFICES ASSUME Tour, Responded PROVE TypeOK
    OBVIOUS
  <2>1. IndexBuilt(lib)
    BY StandsBuilt DEF Tour
  <2>2. /\ disk \in Disks /\ lib = Scanned(disk)
        /\ phase \in {"walk", "fault", "play", "done"} /\ count \in PageSizes
        /\ passed \in BOOLEAN
    BY DEF Tour, Stands
  <2>3. total \in Nat \cup {None} /\ (current = None \/ current \in visited)
    BY <2>1, HeldLists DEF Tour, Paging
  <2>4. \A id \in visited \cup ToSet(queue) \cup ToSet(seen) : IdType(id)
    <3>1. queue \in Seq(Openables) /\ visited \subseteq Openables /\ seen \in Seq(Playables)
      BY DEF Tour
    <3>2. ToSet(queue) \subseteq Openables /\ ToSet(seen) \subseteq Playables
      BY <3>1, ToSetIn
    <3> QED BY <2>1, <3>1, <3>2, WalkIds
  <2>5. \A id \in DOMAIN expected : expected[id] \in Nat
    BY <2>1, HeldLists DEF Tour
  <2>6. ASSUME NEW i \in DOMAIN page
        PROVE  /\ page[i].tag \in {"container", "item"}
               /\ IdType(page[i].parentID) /\ page[i].title # None
    <3>1. current \in Openables /\ Told(page[i], current)
      BY PageTold
    <3>2. IdType(current)
      BY <2>1, <3>1, WalkIds
    <3> QED BY <3>1, <3>2 DEF Told
  <2>7. answer = None \/ answer.status \in {200, 500}
    BY DEF Responded, Statuses
  <2> QED BY <2>2, <2>3, <2>4, <2>5, <2>6, <2>7 DEF TypeOK
<1> QED BY <1>1, TourAlways, RespondedAlways, PTL

(* What comes of a mount's container is what the view lists there.         *)
LEMMA ComingRow ==
  ASSUME IndexBuilt(lib), NEW m \in DOMAIN Views, NEW local \in LocalIds, NEW id,
         id = prefixed(Views[m].view, local), NEW n, Opens(Views[m], local, n), NEW r \in Coming(id)
  PROVE  \E l \in Children(Views[m], local) : \E k \in 1 .. Len(l) :
           EntryAt(l[k], local) /\ r = render_one(rewrap(Views[m].view, l[k]))
<1>1. PICK v : v = Views[m].view
  OBVIOUS
<1>2. PICK shown \in children(id) : \E k \in 1 .. Len(shown) : r = render_one(shown[k])
  BY DEF Coming
<1>3. PICK k \in 1 .. Len(shown) : r = render_one(shown[k])
  BY <1>2
<1>4. children(id) = {Rewrapped(v, l) : l \in Children(Views[m], local)}
  BY <1>1, MountChildren
<1>5. PICK l \in Children(Views[m], local) : shown = Rewrapped(v, l)
  BY <1>2, <1>4
<1>6. Listing(l)
  BY DEF Opens, Holds
<1>7. Len(shown) = Len(l) /\ shown[k] = rewrap(v, l[k])
  <2>1. PICK size : size = Len(l)
    OBVIOUS
  <2>2. DOMAIN l = 1 .. size /\ size \in Nat
    BY <1>6, <2>1 DEF Listing
  <2>3. shown = [i \in 1 .. size |-> rewrap(v, l[i])]
    BY <1>5, <2>2 DEF Rewrapped
  <2>4. DOMAIN shown = 1 .. size
    BY <2>3
  <2>5. shown = [i \in 1 .. size |-> shown[i]]
    BY <2>3
  <2>6. Len(shown) = size
    BY <2>2, <2>5, MadeListing
  <2> QED BY <2>1, <2>3, <2>6
<1>8. EntryAt(l[k], local)
  <2>1. ListedAt(Views[m], l, local)
    BY MountsAre, ViewsListWhatOpens
  <2> QED BY <1>7, <2>1 DEF ListedAt
<1> QED BY <1>1, <1>3, <1>7, <1>8

LEMMA ComingFrom ==
  ASSUME IndexBuilt(lib), NEW m \in DOMAIN Views, NEW local \in LocalIds, NEW id,
         id = prefixed(Views[m].view, local), NEW n, Opens(Views[m], local, n), NEW r \in Coming(id)
  PROVE  \E l \in Children(Views[m], local) : \E k \in 1 .. Len(l) :
           r.id = prefixed(Views[m].view, l[k].id) /\ Local(r.id) = l[k].id /\ r.title = l[k].title
<1>1. PICK v : v = Views[m].view
  OBVIOUS
<1>2. PICK l \in Children(Views[m], local) : \E k \in 1 .. Len(l) :
        EntryAt(l[k], local) /\ r = render_one(rewrap(v, l[k]))
  BY <1>1, ComingRow
<1>3. PICK k \in 1 .. Len(l) : EntryAt(l[k], local) /\ r = render_one(rewrap(v, l[k]))
  BY <1>2
<1>4. PICK e, row, lid, name :
        e = l[k] /\ row = rewrap(v, l[k]) /\ lid = l[k].id /\ name = l[k].title
  OBVIOUS
<1>5. row.id = prefixed(v, lid) /\ row.title = name
  BY <1>3, <1>4, RewrapIs
<1>6. r.id = prefixed(v, lid) /\ r.title = name
  <2>1. r = render_one(row)
    BY <1>3, <1>4
  <2> QED BY <1>5, <2>1 DEF render_one
<1>7. Local(r.id) = lid
  <2>1. lid \in LocalIds
    BY <1>3, <1>4 DEF EntryAt
  <2> QED BY <1>6, <2>1, LocalIdsAre, LocalIs
<1> QED BY <1>1, <1>3, <1>4, <1>6, <1>7

(* An artist whose name tracks carry is listed once, however it is spelt   *)
(* and on whatever page: no folder stands beside it under the same name    *)
(* (music_library.rs, folder_artist_key and build_artist_containers).      *)
THEOREM ArtistsComeOnce == Spec => []ArtistsMerged
<1>1. Tour => ArtistsMerged
  <2> SUFFICES ASSUME Tour, current = prefixed("artists", Root),
                      NEW i \in DOMAIN page, NEW j \in DOMAIN page,
                      ~IsContainer(Local(page[i].id)),
                      KeyOf[page[i].title] = KeyOf[page[j].title]
               PROVE  page[i].id = page[j].id
    BY DEF ArtistsMerged
  <2>1. PICK id, v : id = current /\ v = "artists"
    OBVIOUS
  <2>2. IndexBuilt(lib) /\ Root \in LocalIds /\ id = prefixed(v, Root)
    BY <2>1, StandsBuilt, RootLocal DEF Tour
  <2>3. Local(id) = Root /\ Mount(id) = v
    BY <2>2, LocalIdsAre, LocalIs
  <2>4. PICK n : Held(id, n)
    BY <2>1, PageTold DEF Openables
  <2>5. id # Root
    <3>1. PICK size : size = Len(Root)
      OBVIOUS
    <3>2. PrefixedBy(id, v, Root, size)
      BY <2>2, <3>1, LocalIdsAre, PrefixedIs
    <3>3. Len(id) # 1 /\ Len(Root) = 1
      BY <3>2 DEF PrefixedBy, Root
    <3> QED BY <3>3
  <2>6. PICK m \in DOMAIN Views, local \in LocalIds :
          id = prefixed(Views[m].view, local) /\ Opens(Views[m], local, n)
    BY <2>4, <2>5 DEF Held
  <2>7. local = Root /\ Views[m].view = v
    BY <2>3, <2>6, LocalIdsAre, LocalIs
  <2>8. page[i] \in Coming(id) /\ page[j] \in Coming(id)
    BY <2>1, PageTold
  <2>9. PICK l \in Children(Views[m], Root) : \E k \in 1 .. Len(l) :
           page[i].id = prefixed(v, l[k].id) /\ Local(page[i].id) = l[k].id
           /\ page[i].title = l[k].title
    BY <2>2, <2>6, <2>7, <2>8, ComingFrom
  <2>10. PICK k \in 1 .. Len(l) :
           page[i].id = prefixed(v, l[k].id) /\ Local(page[i].id) = l[k].id
           /\ page[i].title = l[k].title
    BY <2>9
  <2>11. PICK o \in Children(Views[m], Root) : \E h \in 1 .. Len(o) :
           page[j].id = prefixed(v, o[h].id) /\ page[j].title = o[h].title
    BY <2>2, <2>6, <2>7, <2>8, ComingFrom
  <2>12. PICK h \in 1 .. Len(o) : page[j].id = prefixed(v, o[h].id) /\ page[j].title = o[h].title
    BY <2>11
  <2>13. l[k].id \notin Containers /\ KeyOf[l[k].title] = KeyOf[o[h].title]
    BY <2>10, <2>12 DEF IsContainer
  <2>14. ModeIs(Views[m]) /\ Views[m].view = "artists"
    BY <2>1, <2>7, MountsAre
  <2>15. l[k].id = o[h].id
    BY <2>2, <2>13, <2>14, ArtistsListedOnce
  <2> QED BY <2>10, <2>12, <2>15
<1> QED BY <1>1, TourAlways, PTL

(* What an item's res points to is that very file, sent as the kind of     *)
(* audio the listing said, and its albumArtURI is there exactly if a cover *)
(* is (http/mod.rs, handle_item and handle_art, against didl/mod.rs and    *)
(* the scan's has_art).                                                    *)
THEOREM ItemsPlay == Spec => []Playable
<1>1. Tour => Playable
  <2> SUFFICES ASSUME Tour, NEW e \in ToSet(page), e.tag = "item"
               PROVE  LET path == lib.items[Local(e.id)].path
                          link == disk.files[path].target # path
                      IN /\ \A response \in handle(Get("GET", e.res)) :
                              /\ response.status = 200
                              /\ response.body.file = disk.files[path].target
                              /\ link \/ response.body.headers = e.protocolInfo
                         /\ link \/ \A response \in handle(Get("GET", art_url(e.id))) :
                                      (response.status = 200) <=> (e.albumArtURI # {})
    BY DEF Playable
  <2>1. Stands /\ IndexBuilt(lib)
    BY StandsBuilt DEF Tour
  <2>2. PICK i \in DOMAIN page : e = page[i]
    BY DEF ToSet
  <2>3. Told(e, current)
    BY <2>2, PageTold
  <2>4. PICK item \in Items : Offers(e, item)
    BY <2>3 DEF Told
  <2>5. PICK id, art, info : id = e.id /\ art = e.albumArtURI /\ info = e.protocolInfo
    OBVIOUS
  <2>6. PICK path, target : path = lib.items[item].path /\ target = disk.files[path].target
    OBVIOUS
  <2>7. /\ Holding(id, item) /\ info = protocol_info(path) /\ e.res = <<"item", id>>
        /\ art = IF lib.items[item].has_art THEN {art_url(id)} ELSE {}
    BY <2>4, <2>5, <2>6 DEF Offers, item_url
  <2>8. Local(id) = item
    BY <2>1, <2>7, HoldingIs, LocalIdsAre, LocalIs
  <2>9. /\ handle(Get("GET", <<"item", id>>))
             = {Response(200, [headers |-> protocol_info(target), file |-> target])}
        /\ handle(Get("HEAD", <<"item", id>>))
             = {Response(200, [headers |-> protocol_info(target), file |-> None])}
    <3>1. Stands /\ Holding(id, item)
      BY <2>1, <2>7
    <3> QED BY <2>6, <3>1, ItemPlays
  <2>10. ASSUME NEW response \in handle(Get("GET", e.res))
         PROVE  /\ response.status = 200 /\ response.body.file = target
                /\ target # path \/ response.body.headers = info
    <3>1. response = Response(200, [headers |-> protocol_info(target), file |-> target])
      BY <2>7, <2>9
    <3>2. /\ response.status = 200 /\ response.body.file = target
          /\ response.body.headers = protocol_info(target)
      BY <3>1 DEF Response
    <3> QED BY <2>7, <3>2
  <2>11. ASSUME target = path, NEW response \in handle(Get("GET", art_url(id)))
         PROVE  (response.status = 200) <=> (art # {})
    <3>1. Stands /\ Holding(id, item) /\ disk.files[path].target = path
      BY <2>1, <2>6, <2>7, <2>11
    <3>2. (response.status = 200) <=> lib.items[item].has_art
      BY <2>6, <2>11, <3>1, ArtServed
    <3> QED BY <2>7, <3>2
  <2> QED BY <2>5, <2>6, <2>8, <2>10, <2>11
<1> QED BY <1>1, TourAlways, PTL
-----------------------------------------------------------------------------
(* Asking about one entry.                                                 *)

(* The answers to a question about one entry.                              *)
Replies(id) == {browse_response(<<found>>, 1) : found \in entry(id)}

LEMMA MetadataBrowsed ==
  ASSUME NEW action, NEW id, NEW flag, flag = "BrowseMetadata", NEW start, NEW number,
         Asking(action.arguments, id, flag, start, number)
  PROVE  browse(action) = OrElse(Replies(id), Fault(701))
<1>1. PICK flags : flags = <<"BrowseMetadata">>
  OBVIOUS
<1>2. /\ {"ObjectID", "BrowseFlag"} \subseteq DOMAIN action.arguments
      /\ action.arguments.ObjectID = id /\ action.arguments.BrowseFlag = flags
  BY <1>1 DEF Asking
<1>3. flags # <<"BrowseDirectChildren">>
  BY <1>1
<1>4. PICK A : A = {browse_response(<<found>>, 1) : found \in entry(action.arguments.ObjectID)}
  OBVIOUS
<1>5. browse(action) = OrElse(A, Fault(701))
  BY <1>1, <1>2, <1>3, <1>4 DEF browse
<1>6. A = Replies(id)
  BY <1>2, <1>4 DEF Replies
<1> QED BY <1>5, <1>6

(* What a question about one entry is answered with.                       *)
Tells(response, found) ==
  /\ response.status = 200 /\ Len(response.body.Result) = 1
  /\ response.body.Result[1] = render_one(found)

LEMMA OneRendered ==
  ASSUME NEW found, NEW response, response = browse_response(<<found>>, 1)
  PROVE  Tells(response, found)
<1>1. PICK l, r : l = <<found>> /\ r = render(l)
  OBVIOUS
<1>2. l[1] = found /\ DOMAIN l = 1 .. 1
  BY <1>1
<1>3. r = [i \in 1 .. 1 |-> r[i]] /\ r[1] = render_one(found)
  BY <1>1, <1>2 DEF render
<1>4. Len(r) = 1
  <2>1. PICK one : one = 1
    OBVIOUS
  <2>2. one \in Nat /\ r = [i \in 1 .. one |-> r[i]]
    BY <1>3, <2>1
  <2> QED BY <2>1, <2>2, MadeListing
<1>5. response.status = 200 /\ response.body.Result = r
  BY <1>1 DEF browse_response, Ok, Response
<1> QED BY <1>3, <1>4, <1>5 DEF Tells

(* An entry that is there is told when it is asked about (dispatch.rs,     *)
(* browse).                                                                *)
LEMMA EntryTold ==
  ASSUME NEW id, Askable(id), entry(id) # {},
         NEW response \in handle(browse_request(id, "BrowseMetadata", 0, 0))
  PROVE  \E found \in entry(id) : Tells(response, found)
<1>1. PICK flag, zero : flag = "BrowseMetadata" /\ zero = 0
  OBVIOUS
<1>2. flag \in Flags /\ zero \in Nat
  BY <1>1 DEF Flags
<1>3. PICK action : /\ handle(browse_request(id, flag, zero, zero)) = browse(action)
                    /\ Asking(action.arguments, id, flag, zero, zero)
  BY <1>2, BrowseReached
<1>4. PICK S : S = Replies(id)
  OBVIOUS
<1>5. browse(action) = OrElse(S, Fault(701))
  <2>1. Asking(action.arguments, id, flag, zero, zero) /\ flag = "BrowseMetadata"
    BY <1>1, <1>3
  <2> QED BY <1>4, <2>1, MetadataBrowsed
<1>6. S # {}
  BY <1>4 DEF Replies
<1>7. response \in S
  BY <1>1, <1>3, <1>5, <1>6 DEF OrElse
<1>8. PICK found \in entry(id) : response = browse_response(<<found>>, 1)
  BY <1>4, <1>7 DEF Replies
<1> QED BY <1>8, OneRendered

LEMMA MountEntry ==
  ASSUME NEW m \in DOMAIN Views, NEW local \in LocalIds, NEW id,
         id = prefixed(Views[m].view, local)
  PROVE  entry(id) = {rewrap(Views[m].view, found) : found \in Entries(Views[m], local)}
<1>1. id # Root
  BY PrefixedApart
<1>2. mount_and_local_id(id) = {[view |-> Views[m], id |-> local]}
  BY LocalIdsAre, MountedAt
<1> QED BY <1>1, <1>2 DEF entry

(* A view's container as it is when asked about.                           *)
LEMMA ContainerAsked ==
  ASSUME IndexBuilt(lib), NEW m \in DOMAIN Views, NEW local \in LocalIds, NEW id,
         id = prefixed(Views[m].view, local), NEW n, Opens(Views[m], local, n)
  PROVE  /\ entry(id) # {}
         /\ \A e \in entry(id) : /\ e.id = id /\ e.path = None /\ e.count = n
                                 /\ local = Root => e.parent = Root
<1>1. PICK v : v = Views[m].view
  OBVIOUS
<1>2. entry(id) = {rewrap(v, found) : found \in Entries(Views[m], local)}
  BY <1>1, MountEntry
<1>3. /\ Entries(Views[m], local) # {}
      /\ \A found \in Entries(Views[m], local) :
           /\ DOMAIN found = Fields /\ found.id = local
           /\ found.path = None /\ found.count = n
           /\ local = Root => found.parent = None
  BY MountsAre, ContainersFound
<1>4. ASSUME NEW found \in Entries(Views[m], local), NEW e, e = rewrap(v, found)
      PROVE  e.id = id /\ e.path = None /\ e.count = n /\ (local = Root => e.parent = Root)
  <2>1. PICK up, down : /\ down = prefixed(v, found.id)
                        /\ up = IF found.parent = None THEN Root ELSE prefixed(v, found.parent)
    OBVIOUS
  <2>2. DOMAIN found = Fields /\ found.id = local /\ found.path = None /\ found.count = n
    BY <1>3
  <2>3. e = [found EXCEPT !.id = down, !.parent = up]
    BY <1>4, <2>1, <2>2 DEF rewrap, Fields
  <2>4. e.id = down /\ e.path = found.path /\ e.count = found.count /\ e.parent = up
    BY <2>2, <2>3 DEF Fields
  <2>5. local = Root => up = Root
    BY <1>3, <2>1
  <2> QED BY <1>1, <2>1, <2>2, <2>4, <2>5
<1> QED BY <1>2, <1>3, <1>4

(* A container says how many children it has (composite.rs, entry).        *)
LEMMA CountTold ==
  ASSUME IndexBuilt(lib), NEW id, NEW n, Held(id, n),
         NEW response \in handle(browse_request(id, "BrowseMetadata", 0, 0))
  PROVE  response.status = 200 /\ response.body.Result[1].childCount = n
<1>1. entry(id) # {} /\ \A e \in entry(id) : e.path = None /\ e.count = n
  <2>1. CASE id = Root /\ n = Len(Views)
    <3>1. PICK size, nought : size = Len(Views) /\ nought = <<>>
      OBVIOUS
    <3>2. entry(id) = {Listed(Root, None, nought, size)}
      BY <2>1, <3>1 DEF entry
    <3>3. PICK e : e = Listed(Root, None, nought, size)
      OBVIOUS
    <3>4. e.path = None /\ e.count = size
      BY <3>3 DEF Listed
    <3> QED BY <2>1, <3>1, <3>2, <3>3, <3>4
  <2>2. ASSUME NEW m \in DOMAIN Views, NEW local \in LocalIds,
               id = prefixed(Views[m].view, local), Opens(Views[m], local, n)
        PROVE  entry(id) # {} /\ \A e \in entry(id) : e.path = None /\ e.count = n
    BY <2>2, ContainerAsked
  <2> QED BY <2>1, <2>2 DEF Held
<1>2. PICK found \in entry(id) : Tells(response, found)
  BY <1>1, HeldAskable, EntryTold
<1>3. render_one(found).childCount = n
  BY <1>1 DEF render_one
<1> QED BY <1>2, <1>3 DEF Tells

(* A container as it is told.                                              *)
Row(id, title, n, parent) ==
  [tag |-> "container", id |-> id, title |-> title, childCount |-> n, parentID |-> parent]

LEMMA RowTold ==
  ASSUME NEW e, e.path = None, e.parent # None
  PROVE  render_one(e) = Row(e.id, e.title, e.count, e.parent)
  BY DEF render_one, Row

LEMMA RowTitled ==
  ASSUME NEW id, NEW old, NEW title, NEW n, NEW parent
  PROVE  [Row(id, old, n, parent) EXCEPT !.title = title] = Row(id, title, n, parent)
  BY DEF Row

LEMMA RootComing ==
  ASSUME IndexBuilt(lib), NEW r \in Coming(Root)
  PROVE  \E m \in DOMAIN Views : \E n : /\ Opens(Views[m], Root, n)
           /\ r = Row(prefixed(Views[m].view, Root), Views[m].title, n, Root)
<1>1. PICK size, l : size = Len(Views) /\ l = top_level
  OBVIOUS
<1>2. size \in Nat /\ DOMAIN Views = 1 .. size
  BY <1>1, MountsAre
<1>3. children(Root) = {l} /\ Len(l) = size
  BY <1>1, RootHolds DEF ShownAt
<1>4. PICK k \in 1 .. size : r = render_one(l[k])
  BY <1>3 DEF Coming
<1>5. ModeIs(Views[k])
  BY <1>2, MountsAre
<1>6. PICK n : Opens(Views[k], Root, n)
  BY <1>5, RootOpens
<1>7. PICK listing : listing = CHOOSE o \in Children(Views[k], Root) : TRUE
  OBVIOUS
<1>8. listing \in Children(Views[k], Root)
  BY <1>6, <1>7 DEF Opens, Holds
<1>9. Len(listing) = n
  BY <1>6, <1>8 DEF Opens, Holds
<1>10. PICK id, title : id = prefixed(Views[k].view, Root) /\ title = Views[k].title
  OBVIOUS
<1>11. l[k] = Listed(id, Root, title, n)
  BY <1>1, <1>2, <1>7, <1>9, <1>10 DEF top_level
<1>12. PICK e : e = Listed(id, Root, title, n)
  OBVIOUS
<1>13. e.path = None /\ e.parent = Root /\ e.id = id /\ e.title = title /\ e.count = n
  BY <1>12 DEF Listed
<1>14. render_one(e) = Row(id, title, n, Root)
  BY <1>13, LocalIdsAre, RowTold
<1> QED BY <1>2, <1>4, <1>6, <1>10, <1>11, <1>12, <1>14

(* A view's root is what the overall root lists, but for its title.        *)
LEMMA RootAgrees ==
  ASSUME IndexBuilt(lib), NEW r \in Coming(Root),
         NEW response \in handle(browse_request(r.id, "BrowseMetadata", 0, 0))
  PROVE  /\ response.status = 200 /\ Len(response.body.Result) = 1
         /\ [response.body.Result[1] EXCEPT !.title = r.title] = r
<1>1. PICK m \in DOMAIN Views : \E n : /\ Opens(Views[m], Root, n)
        /\ r = Row(prefixed(Views[m].view, Root), Views[m].title, n, Root)
  BY RootComing
<1>2. PICK n : Opens(Views[m], Root, n)
               /\ r = Row(prefixed(Views[m].view, Root), Views[m].title, n, Root)
  BY <1>1
<1>3. PICK id, title : id = prefixed(Views[m].view, Root) /\ title = Views[m].title
  OBVIOUS
<1>4. r.id = id /\ r.title = title /\ r = Row(id, title, n, Root)
  BY <1>2, <1>3 DEF Row
<1>5. Root \in LocalIds /\ Root # None
  BY RootLocal, LocalIdsAre
<1>6. /\ entry(id) # {}
      /\ \A e \in entry(id) : e.id = id /\ e.path = None /\ e.count = n /\ e.parent = Root
  <2>1. /\ entry(id) # {}
        /\ \A e \in entry(id) : /\ e.id = id /\ e.path = None /\ e.count = n
                                /\ Root = Root => e.parent = Root
    BY <1>2, <1>3, <1>5, ContainerAsked
  <2> QED BY <2>1
<1>7. Askable(id)
  BY <1>3, <1>5, PrefixedAskable
<1>8. PICK found \in entry(id) : Tells(response, found)
  BY <1>4, <1>6, <1>7, EntryTold
<1>9. PICK old : old = found.title
  OBVIOUS
<1>10. render_one(found) = Row(id, old, n, Root)
  BY <1>5, <1>6, <1>8, <1>9, RowTold
<1>11. response.body.Result[1] = Row(id, old, n, Root)
  BY <1>8, <1>10 DEF Tells
<1> QED BY <1>4, <1>8, <1>11, RowTitled DEF Tells

(* What every listing of a view's container has is what it is told to be.  *)
LEMMA MountAgrees ==
  ASSUME IndexBuilt(lib), NEW m \in DOMAIN Views, NEW local \in LocalIds, NEW id,
         id = prefixed(Views[m].view, local), NEW n, Opens(Views[m], local, n), NEW r \in Coming(id),
         \A l \in children(id) : r.id \in Ids(l),
         NEW response \in handle(browse_request(r.id, "BrowseMetadata", 0, 0))
  PROVE  /\ response.status = 200 /\ Len(response.body.Result) = 1
         /\ response.body.Result[1] = r
<1>1. PICK v : v = Views[m].view
  OBVIOUS
<1>2. PICK l \in Children(Views[m], local) : \E k \in 1 .. Len(l) :
        EntryAt(l[k], local) /\ r = render_one(rewrap(v, l[k]))
  BY <1>1, ComingRow
<1>3. PICK k \in 1 .. Len(l) : EntryAt(l[k], local) /\ r = render_one(rewrap(v, l[k]))
  BY <1>2
<1>4. PICK lid : lid = l[k].id
  OBVIOUS
<1>5. lid \in LocalIds
  BY <1>3, <1>4 DEF EntryAt
<1>6. r.id = prefixed(v, lid)
  <2>1. PICK e, row : e = l[k] /\ row = rewrap(v, e)
    OBVIOUS
  <2>2. row.id = prefixed(v, lid)
    BY <1>3, <1>4, <2>1, RewrapIs
  <2>3. r = render_one(row)
    BY <1>3, <2>1
  <2> QED BY <2>2, <2>3 DEF render_one
<1>7. Local(r.id) = lid
  BY <1>5, <1>6, LocalIdsAre, LocalIs
<1>8. ASSUME NEW o \in Children(Views[m], local)
      PROVE  \E h \in 1 .. Len(o) : o[h].id = lid
  <2>1. Listing(o)
    BY DEF Opens, Holds
  <2>2. PICK shown : shown = Rewrapped(v, o)
    OBVIOUS
  <2>3. shown \in children(id)
    BY <1>1, <2>2, MountChildren
  <2>4. r.id \in Ids(shown)
    BY <2>3
  <2>5. DOMAIN o = 1 .. Len(o)
    BY <2>1 DEF Listing
  <2>6. DOMAIN shown = 1 .. Len(o) /\ \A h \in 1 .. Len(o) : shown[h] = rewrap(v, o[h])
    BY <2>2, <2>5 DEF Rewrapped
  <2>7. PICK h \in 1 .. Len(o) : r.id = shown[h].id
    BY <2>4, <2>6 DEF Ids
  <2>8. EntryAt(o[h], local)
    <3>1. ListedAt(Views[m], o, local)
      BY MountsAre, ViewsListWhatOpens
    <3> QED BY <3>1 DEF ListedAt
  <2>9. PICK e, oid : e = o[h] /\ oid = o[h].id
    OBVIOUS
  <2>10. r.id = prefixed(v, oid)
    <3>1. rewrap(v, e).id = prefixed(v, oid)
      BY <2>8, <2>9, RewrapIs
    <3> QED BY <2>6, <2>7, <2>9, <3>1
  <2>11. oid \in LocalIds
    BY <2>8, <2>9 DEF EntryAt
  <2>12. Local(r.id) = oid
    BY <2>10, <2>11, LocalIdsAre, LocalIs
  <2> QED BY <1>7, <2>9, <2>12
<1>9. Entries(Views[m], l[k].id) = {l[k]}
  <2>1. InEvery(Views[m], local, l[k].id)
    BY <1>4, <1>8 DEF InEvery
  <2>2. ModeIs(Views[m])
    BY MountsAre
  <2> QED BY <2>1, <2>2, EntriesAgree
<1>10. PICK row : row = rewrap(v, l[k])
  OBVIOUS
<1>11. entry(r.id) = {row}
  <2>1. entry(r.id) = {rewrap(v, found) : found \in Entries(Views[m], lid)}
    BY <1>1, <1>5, <1>6, MountEntry
  <2> QED BY <1>4, <1>9, <1>10, <2>1
<1>12. Askable(r.id)
  BY <1>1, <1>5, <1>6, PrefixedAskable
<1>13. PICK found \in entry(r.id) : Tells(response, found)
  BY <1>11, <1>12, EntryTold
<1>14. render_one(found) = r
  BY <1>3, <1>10, <1>11, <1>13
<1> QED BY <1>13, <1>14 DEF Tells

LEMMA ToldRecord ==
  ASSUME NEW r, NEW e, r = render_one(e)
  PROVE  [r EXCEPT !.title = r.title] = r
<1>1. CASE e.path = None
  BY <1>1 DEF render_one
<1>2. CASE e.path # None
  BY <1>2 DEF render_one
<1> QED BY <1>1, <1>2

(* What is asked about by its own id is what it was listed as, if every    *)
(* listing has it, and a container has as many children as it says         *)
(* (music_library.rs, children and entry; composite.rs, entry).            *)
THEOREM AskedAsListed == Spec => []MetadataAgrees
<1>1. Tour => MetadataAgrees
  <2> SUFFICES ASSUME Tour, Complete, current # None PROVE
        /\ \A response \in handle(browse_request(current, "BrowseMetadata", 0, 0)) :
             response.status = 200 /\ response.body.Result[1].childCount = total
        /\ \A i \in {j \in DOMAIN page : \A l \in children(current) : page[j].id \in Ids(l)} :
             \A response \in handle(browse_request(page[i].id, "BrowseMetadata", 0, 0)) :
               /\ response.status = 200 /\ Len(response.body.Result) = 1
               /\ [response.body.Result[1] EXCEPT
                     !.title = IF current = Root THEN page[i].title ELSE @] = page[i]
    BY DEF MetadataAgrees
  <2>1. IndexBuilt(lib) /\ Paging
    BY StandsBuilt DEF Tour
  <2>2. Held(current, total)
    BY <2>1 DEF Complete, Paging
  <2>3. PICK id, n : id = current /\ n = total
    OBVIOUS
  <2>4. Held(id, n)
    BY <2>2, <2>3
  <2>5. ASSUME NEW response \in handle(browse_request(current, "BrowseMetadata", 0, 0))
        PROVE  response.status = 200 /\ response.body.Result[1].childCount = total
    BY <2>1, <2>3, <2>4, CountTold
  <2>6. ASSUME NEW i \in DOMAIN page, \A l \in children(current) : page[i].id \in Ids(l),
               NEW response \in handle(browse_request(page[i].id, "BrowseMetadata", 0, 0))
        PROVE  /\ response.status = 200 /\ Len(response.body.Result) = 1
               /\ [response.body.Result[1] EXCEPT
                     !.title = IF current = Root THEN page[i].title ELSE @] = page[i]
    <3>1. PICK r : r = page[i]
      OBVIOUS
    <3>2. r \in Coming(id)
      BY <2>3, <3>1, PageTold
    <3>3. CASE id = Root
      <4>1. /\ response.status = 200 /\ Len(response.body.Result) = 1
            /\ [response.body.Result[1] EXCEPT !.title = r.title] = r
        <5>1. r \in Coming(Root) /\ response \in handle(browse_request(r.id, "BrowseMetadata", 0, 0))
          BY <2>6, <3>1, <3>2, <3>3
        <5> QED BY <2>1, <5>1, RootAgrees
      <4> QED BY <2>3, <3>1, <3>3, <4>1
    <3>4. CASE id # Root
      <4>1. PICK m \in DOMAIN Views, local \in LocalIds :
              id = prefixed(Views[m].view, local) /\ Opens(Views[m], local, n)
        BY <2>4, <3>4 DEF Held
      <4>2. /\ response \in handle(browse_request(r.id, "BrowseMetadata", 0, 0))
            /\ \A l \in children(id) : r.id \in Ids(l)
        BY <2>3, <2>6, <3>1
      <4>3. /\ response.status = 200 /\ Len(response.body.Result) = 1
            /\ response.body.Result[1] = r
        BY <2>1, <3>2, <4>1, <4>2, MountAgrees
      <4>4. [r EXCEPT !.title = r.title] = r
        BY <3>2, ToldRecord DEF Coming
      <4> QED BY <2>3, <3>1, <3>4, <4>3, <4>4
    <3> QED BY <3>3, <3>4
  <2> QED BY <2>5, <2>6
<1> QED BY <1>1, TourAlways, PTL


-----------------------------------------------------------------------------
(* Paging through a container.                                             *)

(* A container is listed in one and the same order whenever it is asked    *)
(* for: no two of its entries taken out of a map tie.                      *)
ListedAlike(id) == \A l, m \in children(id) : l = m

LEMMA RenderedId == ASSUME NEW e PROVE render_one(e).id = e.id
<1>1. PICK parent : parent = IF e.parent = None THEN <<"-1">> ELSE e.parent
  OBVIOUS
<1>2. CASE e.path = None
  <2>1. render_one(e) = [tag |-> "container", id |-> e.id, title |-> e.title,
                         childCount |-> e.count, parentID |-> parent]
    BY <1>1, <1>2 DEF render_one
  <2> QED BY <2>1
<1>3. CASE e.path # None
  <2>1. render_one(e) =
          [tag |-> "item", id |-> e.id, title |-> e.title, parentID |-> e.parent,
           protocolInfo |-> protocol_info(e.path), res |-> item_url(e.id),
           creator |-> e.artist, album |-> e.album, albumArtURI |-> albumArtURI(e)]
    BY <1>3 DEF render_one
  <2> QED BY <2>1
<1> QED BY <1>2, <1>3

(* What a mount lists is listed once, its prefix being the same for all.   *)
LEMMA MountListsOnce ==
  ASSUME IndexBuilt(lib), NEW m \in DOMAIN Views, NEW local \in LocalIds, NEW id,
         id = prefixed(Views[m].view, local), NEW n, Opens(Views[m], local, n),
         NEW l \in children(id)
  PROVE  Distinct(l)
<1>1. PICK v : v = Views[m].view
  OBVIOUS
<1>2. PICK o \in Children(Views[m], local) : l = Rewrapped(v, o)
  BY <1>1, MountChildren
<1>3. ModeIs(Views[m])
  BY MountsAre
<1>4. Distinct(o)
  BY <1>2, <1>3, NothingListedTwice
<1>5. ListedAt(Views[m], o, local)
  BY <1>2, <1>3, ViewsListWhatOpens
<1>6. Listing(o) /\ Len(o) = n /\ n \in Nat
  BY <1>2 DEF Opens, Holds
<1>7. DOMAIN l = 1 .. n /\ l = [i \in 1 .. n |-> l[i]] /\ \A i \in 1 .. n : l[i] = rewrap(v, o[i])
  BY <1>2, <1>6 DEF Rewrapped, Listing
<1>8. Len(l) = n
  BY <1>6, <1>7, MadeListing
<1>9. ASSUME NEW i \in 1 .. n
      PROVE  l[i].id = prefixed(v, o[i].id) /\ o[i].id \in Seq(IdTokens)
  <2>1. EntryAt(o[i], local)
    BY <1>5, <1>6 DEF ListedAt
  <2>2. PICK r, e : r = l[i] /\ e = o[i]
    OBVIOUS
  <2>3. EntryAt(e, local) /\ r = rewrap(v, e)
    BY <1>7, <2>1, <2>2
  <2>4. r.id = prefixed(v, e.id)
    BY <2>3, RewrapIs
  <2>5. e.id \in LocalIds
    BY <2>3 DEF EntryAt
  <2> QED BY <2>2, <2>4, <2>5, LocalIdsAre
<1>10. ASSUME NEW i \in 1 .. n, NEW j \in 1 .. n, l[i].id = l[j].id PROVE i = j
  <2>1. PICK a, b : a = o[i].id /\ b = o[j].id
    OBVIOUS
  <2>2. a \in Seq(IdTokens) /\ b \in Seq(IdTokens) /\ prefixed(v, a) = prefixed(v, b)
    BY <1>9, <1>10, <2>1
  <2>3. a = b
    <3>1. PICK p : p = prefixed(v, a)
      OBVIOUS
    <3>2. Local(p) = a
      BY <2>2, <3>1, LocalIs
    <3>3. Local(p) = b
      BY <2>2, <3>1, LocalIs
    <3> QED BY <3>2, <3>3
  <2> QED BY <1>4, <1>6, <2>1, <2>3 DEF Distinct
<1> QED BY <1>8, <1>10 DEF Distinct

LEMMA RootListsOnce ==
  ASSUME IndexBuilt(lib), IsInjective(Views)
  PROVE  Distinct(top_level)
<1>1. PICK size, l : size = Len(Views) /\ l = top_level
  OBVIOUS
<1>2. size \in Nat /\ DOMAIN Views = 1 .. size
  BY <1>1, MountsAre
<1>3. Len(l) = size
  BY <1>1, RootHolds DEF ShownAt
<1>4. ASSUME NEW i \in 1 .. size PROVE l[i].id = prefixed(Views[i].view, Root)
  <2>1. PICK id, title, n :
          /\ id = prefixed(Views[i].view, Root) /\ title = Views[i].title
          /\ n = Len(CHOOSE k \in Children(Views[i], Root) : TRUE)
    OBVIOUS
  <2>2. l[i] = Listed(id, Root, title, n)
    BY <1>1, <1>2, <2>1 DEF top_level
  <2>3. l[i].id = id
    BY <2>2 DEF Listed
  <2> QED BY <2>1, <2>3
<1>5. ASSUME NEW i \in 1 .. size, NEW j \in 1 .. size, l[i].id = l[j].id PROVE i = j
  <2>1. PICK v, w : v = Views[i].view /\ w = Views[j].view
    OBVIOUS
  <2>2. PICK p, root : p = prefixed(v, root) /\ root = Root
    OBVIOUS
  <2>3. p = prefixed(w, root) /\ root \in Seq(IdTokens)
    BY <1>4, <1>5, <2>1, <2>2, RootLocal, LocalIdsAre
  <2>4. Mount(p) = v
    BY <2>2, <2>3, LocalIs
  <2>5. Mount(p) = w
    BY <2>3, LocalIs
  <2>6. Views[i] = Views[j]
    BY <1>2, <2>1, <2>4, <2>5, ViewsAssumption
  <2> QED BY <1>2, <2>6 DEF IsInjective
<1> QED BY <1>1, <1>3, <1>5 DEF Distinct

LEMMA ListedOnce ==
  ASSUME IndexBuilt(lib), IsInjective(Views), NEW id, NEW n, Held(id, n), NEW l \in children(id)
  PROVE  Distinct(l)
<1>1. CASE id = Root
  BY <1>1, RootHolds, RootListsOnce
<1>2. CASE id # Root
  BY <1>2, MountListsOnce DEF Held
<1> QED BY <1>1, <1>2

(* A container listed in one order in its view is so below its mount.      *)
LEMMA SoleAlike ==
  ASSUME NEW m \in DOMAIN Views, NEW local \in LocalIds, NEW id,
         id = prefixed(Views[m].view, local), Sole(Views[m], local)
  PROVE  ListedAlike(id)
<1>1. PICK v : v = Views[m].view
  OBVIOUS
<1>2. children(id) = {Rewrapped(v, l) : l \in Children(Views[m], local)}
  BY <1>1, MountChildren
<1>3. \A l, o \in Children(Views[m], local) : l = o
  BY DEF Sole
<1> QED BY <1>2, <1>3 DEF ListedAlike

(* What a view lists, as the row of its mount.                             *)
LEMMA RowTells ==
  ASSUME NEW v, NEW e, NEW parent, EntryAt(e, parent), NEW row, row = rewrap(v, e)
  PROVE  Local(row.id) = e.id /\ row.title = e.title /\ row.path = e.path
<1>1. row.id = prefixed(v, e.id) /\ row.title = e.title /\ row.path = e.path
  BY RewrapIs
<1>2. e.id \in Seq(IdTokens)
  BY LocalIdsAre DEF EntryAt
<1>3. Local(row.id) = e.id
  BY <1>1, <1>2, LocalIs
<1> QED BY <1>1, <1>3

(* Where nothing ties, a container is listed in one order only.            *)
LEMMA UntiedApart ==
  ASSUME IndexBuilt(lib), NEW m \in DOMAIN Views, Views[m].view # "folders",
         NEW local \in LocalIds, NEW n, Opens(Views[m], local, n),
         NEW id, id = prefixed(Views[m].view, local), id # Root, Untied(id)
  PROVE  Apart(Views[m], Children(Views[m], local))
<1>1. PICK mode, v, all : /\ mode = Views[m] /\ v = Views[m].view
                          /\ all = UNION {ToSet(listing) : listing \in children(id)}
  OBVIOUS
<1>2. Mount(id) = v
  BY <1>1, LocalIdsAre, LocalIs
<1>3. children(id) = {Rewrapped(v, l) : l \in Children(mode, local)}
  BY <1>1, MountChildren
<1>4. ASSUME NEW l \in Children(mode, local), NEW i \in 1 .. n
      PROVE  /\ EntryAt(l[i], local) /\ Len(l) = n
             /\ rewrap(v, l[i]) \in all
  <2>1. Listing(l) /\ Len(l) = n
    BY <1>1 DEF Opens, Holds
  <2>2. ListedAt(mode, l, local)
    BY <1>1, MountsAre, ViewsListWhatOpens
  <2>3. EntryAt(l[i], local)
    BY <2>1, <2>2 DEF ListedAt
  <2>4. DOMAIN l = 1 .. n
    BY <2>1 DEF Listing
  <2>5. PICK rows : rows = Rewrapped(v, l)
    OBVIOUS
  <2>6. i \in DOMAIN rows /\ rows[i] = rewrap(v, l[i])
    BY <2>4, <2>5 DEF Rewrapped
  <2>7. rows \in children(id)
    BY <1>3, <2>5
  <2>8. rows[i] \in ToSet(rows)
    BY <2>6 DEF ToSet
  <2> QED BY <1>1, <2>1, <2>3, <2>6, <2>7, <2>8
<1>5. ASSUME NEW l \in Children(mode, local), NEW o \in Children(mode, local), NEW i \in 1 .. n,
             l[i].path = None, o[i].path = None, l[i].id # o[i].id
      PROVE  Discerned(mode, l[i], o[i])
  <2>1. PICK e, f, row, other : e = l[i] /\ f = o[i] /\ row = rewrap(v, e) /\ other = rewrap(v, f)
    OBVIOUS
  <2>2. EntryAt(e, local) /\ EntryAt(f, local) /\ row \in all /\ other \in all
    BY <1>4, <2>1
  <2>3. Local(row.id) = e.id /\ row.title = e.title /\ row.path = e.path
    BY <2>1, <2>2, RowTells
  <2>4. Local(other.id) = f.id /\ other.title = f.title /\ other.path = f.path
    BY <2>1, <2>2, RowTells
  <2>5. row.path = None /\ other.path = None /\ row # other
    BY <1>5, <2>1, <2>3, <2>4
  <2>6. IF v = "recent_albums" THEN Newest(Local(row.id)) # Newest(Local(other.id))
        ELSE row.title # other.title
    BY <1>1, <1>2, <2>2, <2>5 DEF Untied
  <2>7. IF v = "recent_albums" THEN Newest(e.id) # Newest(f.id) ELSE e.title # f.title
    BY <2>3, <2>4, <2>6
  <2> QED BY <1>1, <2>1, <2>7 DEF Discerned
<1>6. ASSUME NEW l \in Children(mode, local) PROVE Len(l) = n
  BY <1>1 DEF Opens, Holds
<1> QED BY <1>1, <1>5, <1>6 DEF Apart, PairApart

LEMMA UntiedAlike ==
  ASSUME IndexBuilt(lib), NEW id, NEW n, Held(id, n), Untied(id)
  PROVE  ListedAlike(id)
<1>1. CASE id = Root
  BY <1>1, RootHolds DEF ListedAlike
<1>2. CASE id # Root
  <2>1. PICK m \in DOMAIN Views, local \in LocalIds :
          id = prefixed(Views[m].view, local) /\ Opens(Views[m], local, n)
    BY <1>2 DEF Held
  <2>2. CASE Views[m].view = "folders"
    <3>1. Children(Views[m], local) =
            {Sorted(lib.containers[c].children) : c \in {local} \cap Containers}
      BY <2>2 DEF Children, children_within
    <3>2. Sole(Views[m], local)
      BY <3>1 DEF Sole
    <3> QED BY <2>1, <3>2, SoleAlike
  <2>3. CASE Views[m].view # "folders"
    <3>1. Apart(Views[m], Children(Views[m], local))
      BY <1>2, <2>1, <2>3, UntiedApart
    <3>2. Sole(Views[m], local)
      BY <2>3, <3>1, MountsAre, ApartAlike
    <3> QED BY <2>1, <3>2, SoleAlike
  <2> QED BY <2>2, <2>3
<1> QED BY <1>1, <1>2

(* What has been listed of a container so far is what comes first of it.   *)
Leads(entries, l) == \A i \in 1 .. Len(entries) : entries[i] = render_one(l[i])

(* And what comes behind so many.                                          *)
Follows(entries, l, start) ==
  \A i \in 1 .. Len(entries) : entries[i] = render_one(l[start + i])

InStep ==
  current # None /\ ListedAlike(current) => \A l \in children(current) : Leads(page, l)

LEMMA RenderStays ==
  ASSUME UNCHANGED disk, NEW e
  PROVE  render_one(e)' = render_one(e)
  BY DEF render_one, protocol_info, mime_for, dlna_content_features

LEMMA InStepStays ==
  ASSUME UNCHANGED <<lib, disk, current, page>>, InStep
  PROVE  InStep'
<1>1. PICK id, entries : id = current /\ entries = page
  OBVIOUS
<1>2. id = current' /\ entries = page' /\ children(id)' = children(id)
  BY <1>1, ListingsStay
<1>3. ASSUME id # None, ListedAlike(id) PROVE \A l \in children(id) : Leads(entries, l)
  BY <1>1, <1>3 DEF InStep
<1>4. ListedAlike(id)' <=> ListedAlike(id)
  BY <1>2 DEF ListedAlike
<1>5. ASSUME NEW l PROVE Leads(entries, l)' <=> Leads(entries, l)
  BY RenderStays DEF Leads
<1>6. ASSUME id # None, ListedAlike(id)' PROVE \A l \in children(id)' : Leads(entries, l)'
  BY <1>2, <1>3, <1>4, <1>5, <1>6
<1>7. /\ ListedAlike(current)' <=> ListedAlike(id)'
      /\ \A l : Leads(page, l)' <=> Leads(entries, l)'
      /\ children(current)' = children(id)'
  BY <1>1, <1>2
<1> QED BY <1>2, <1>6, <1>7 DEF InStep

(* The next page goes on where the last one ended.                         *)
LEMMA LeadsOn ==
  ASSUME NEW X, NEW before \in Seq(X), NEW entries \in Seq(X), NEW all, all = before \o entries,
         NEW l, Leads(before, l), NEW start, start = Len(before),
         Follows(entries, l, start)
  PROVE  Leads(all, l)
<1>1. PICK more : more = Len(entries)
  OBVIOUS
<1>2. /\ start \in Nat /\ more \in Nat /\ Len(all) = start + more
      /\ \A i \in 1 .. start : all[i] = before[i]
      /\ \A i \in 1 .. more : all[start + i] = entries[i]
  BY <1>1, ConcatIs
<1>3. ASSUME NEW i \in 1 .. start + more PROVE all[i] = render_one(l[i])
  <2>1. CASE i <= start
    <3>1. i \in 1 .. start
      BY <1>2, <2>1
    <3> QED BY <1>2, <3>1 DEF Leads
  <2>2. CASE ~(i <= start)
    <3>1. PICK k : k = i - start
      OBVIOUS
    <3>2. k \in 1 .. more /\ start + k = i
      BY <1>2, <2>2, <3>1
    <3>3. entries[k] = render_one(l[start + k])
      BY <1>1, <3>2 DEF Follows
    <3> QED BY <1>2, <3>2, <3>3
  <2> QED BY <2>1, <2>2
<1> QED BY <1>2, <1>3 DEF Leads

(* What a response holds, of the listing it was taken from.                *)
LEMMA PageShown ==
  ASSUME NEW l, NEW id, NEW n \in Nat, ShownAt(l, n, id), NEW start, NEW number,
         NEW response, PageFrom(response, l, start, n, number),
         NEW entries, entries = response.body.Result
  PROVE  /\ response.status = 200 /\ response.body.TotalMatches = n
         /\ Len(entries) \in Nat /\ DOMAIN entries = 1 .. Len(entries)
         /\ number = 0 => start + Len(entries) = n
         /\ Follows(entries, l, start)
<1>1. PICK p : /\ PageOf(p, l, start) /\ response = browse_response(p, n)
               /\ number = 0 => start + Len(p) = n
  BY DEF PageFrom
<1>2. PICK size : size = Len(p)
  OBVIOUS
<1>3. size \in Nat /\ DOMAIN p = 1 .. size /\ \A i \in 1 .. size : p[i] = l[start + i]
  BY <1>1, <1>2 DEF PageOf, Listing
<1>4. response.status = 200 /\ response.body.TotalMatches = n /\ entries = render(p)
  BY <1>1 DEF browse_response, Ok, Response
<1>5. DOMAIN entries = 1 .. size /\ \A i \in 1 .. size : entries[i] = render_one(p[i])
  BY <1>3, <1>4 DEF render
<1>6. entries = [i \in 1 .. size |-> entries[i]]
  BY <1>3, <1>4, <1>5 DEF render
<1>7. Len(entries) = size
  BY <1>3, <1>6, MadeListing
<1> QED BY <1>1, <1>2, <1>3, <1>4, <1>5, <1>7 DEF Follows

LEMMA BrowseInStep ==
  ASSUME Tour, InStep, Browse
  PROVE  InStep'
<1>1. phase = "walk" /\ ~Complete /\ Len(page) <= MaxUsize
      /\ UNCHANGED <<lib, disk>>
  BY DEF Browse
<1>2. current # None /\ Paging
  BY <1>1 DEF Tour, Complete
<1>3. PICK id, start, number, before :
        id = current /\ start = Len(page) /\ number = count /\ before = page
  OBVIOUS
<1>4. IndexBuilt(lib) /\ number \in 0 .. MaxUsize
  BY <1>3, StandsBuilt, PagesAssumption DEF Tour
<1>5. PICK n : Held(id, n) /\ start \in Nat /\ start <= n
  BY <1>2, <1>3, WalkedSoFar
<1>5a. start \in 0 .. MaxUsize
  BY <1>1, <1>3, <1>5, UsizeAssumption
<1>6. n \in Nat /\ \A l \in children(id) : ShownAt(l, n, id)
  BY <1>4, <1>5, HeldLists
<1>7. PICK response \in handle(browse_request(current, "BrowseDirectChildren", Len(page), count)) :
        IF response.status = 200 THEN Receive(response) /\ UNCHANGED current
        ELSE /\ passed' = FALSE /\ current' = None
             /\ UNCHANGED <<page, total, queue, expected, seen>>
  BY DEF Browse
<1>8. response \in handle(browse_request(id, "BrowseDirectChildren", start, number))
  BY <1>3, <1>7
<1>9. PICK l \in children(id) : ShownAt(l, n, id) /\ PageFrom(response, l, start, n, number)
  BY <1>4, <1>5, <1>5a, <1>8, BrowsePages
<1>10. PICK entries : entries = response.body.Result
  OBVIOUS
<1>11. response.status = 200 /\ Follows(entries, l, start)
  BY <1>6, <1>9, <1>10, PageShown
<1>12. Paged(response, id, start, n)
  BY <1>4, <1>5, <1>5a, <1>8, BrowseLists
<1>13. PICK X : X = Coming(id)
  OBVIOUS
<1>14. before \in Seq(X) /\ entries \in Seq(X)
  BY <1>2, <1>3, <1>10, <1>12, <1>13 DEF Paging, Paged
<1>15. page' = before \o entries /\ current' = id
  BY <1>3, <1>7, <1>10, <1>11 DEF Receive
<1>16. ASSUME ListedAlike(id), NEW m \in children(id) PROVE Leads(before \o entries, m)
  <2>1. m = l
    BY <1>16 DEF ListedAlike
  <2>2. Leads(before, l)
    BY <1>2, <1>3, <1>16 DEF InStep
  <2>3. PICK all : all = before \o entries
    OBVIOUS
  <2>4. /\ before \in Seq(X) /\ entries \in Seq(X) /\ start = Len(before)
        /\ Follows(entries, l, start)
    BY <1>3, <1>11, <1>14
  <2>5. Leads(all, l)
    BY <2>2, <2>3, <2>4, LeadsOn
  <2> QED BY <2>1, <2>3, <2>5
<1>17. children(id)' = children(id)
  BY <1>1, ListingsStay
<1>18. ListedAlike(id)' <=> ListedAlike(id)
  BY <1>17 DEF ListedAlike
<1>19. PICK all : all = before \o entries
  OBVIOUS
<1>20. ASSUME NEW m PROVE Leads(all, m)' <=> Leads(all, m)
  BY <1>1, RenderStays DEF Leads
<1>21. ASSUME ListedAlike(id)' PROVE \A m \in children(id)' : Leads(all, m)'
  BY <1>16, <1>17, <1>18, <1>19, <1>20, <1>21
<1>22. /\ ListedAlike(current)' <=> ListedAlike(id)'
       /\ \A m : Leads(page, m)' <=> Leads(all, m)'
       /\ children(current)' = children(id)'
  BY <1>15, <1>19
<1> QED BY <1>21, <1>22 DEF InStep

LEMMA InStepBegins == Init => InStep
  BY DEF Init, InStep

LEMMA InStepContinues == Tour /\ InStep /\ [Next]_vars => InStep'
<1> SUFFICES ASSUME Tour, InStep, [Next]_vars PROVE InStep'
  OBVIOUS
<1>1. CASE Open
  <2>1. CASE Last(queue) \in visited
    BY <1>1, <2>1, InStepStays DEF Open
  <2>2. CASE Last(queue) \notin visited
    <3>1. page' = <<>>
      BY <1>1, <2>2 DEF Open
    <3> QED BY <3>1 DEF InStep, Leads
  <2> QED BY <2>1, <2>2
<1>2. CASE Browse
  BY <1>2, BrowseInStep
<1>3. CASE EndWalk \/ check_fault_701 \/ check_playback
  BY <1>3, InStepStays DEF EndWalk, check_fault_701, check_playback
<1>4. ASSUME NEW question \in Questions, NEW style \in Styles, Ask(question, style) PROVE InStep'
  BY <1>4, InStepStays DEF Ask
<1>5. CASE UNCHANGED vars
  BY <1>5, InStepStays DEF vars
<1> QED BY <1>1, <1>2, <1>3, <1>4, <1>5 DEF Next

LEMMA InStepAlways == Spec => []InStep
  BY TourAlways, InStepBegins, InStepContinues, PTL DEF Spec

Counted(f, n) == {f[i] : i \in 1 .. n}

Different(f, n) == \A i, j \in 1 .. n : f[i] = f[j] => i = j

LEMMA CountedOnce ==
  ASSUME NEW n \in Nat, NEW f, Different(f, n)
  PROVE  Cardinality(Counted(f, n)) = n
<1>1. PICK one : one = 1
  OBVIOUS
<1>2. IsFiniteSet(1 .. n) /\ Cardinality(1 .. n) = n
  <2>1. one \in Int /\ n \in Int
    BY <1>1
  <2>2. IsFiniteSet(one .. n) /\ Cardinality(one .. n) = IF one > n THEN 0 ELSE n - one + 1
    BY <2>1, FS_Interval
  <2> QED BY <1>1, <2>2
<1> DEFINE g == [i \in 1 .. n |-> f[i]]
           S == Counted(f, n)
<1>3. g \in Bijection(1 .. n, S)
  <2>1. g \in [1 .. n -> S]
    BY DEF Counted
  <2>2. \A i, j \in 1 .. n : g[i] = g[j] => i = j
    BY DEF Different
  <2>3. \A s \in S : \E i \in 1 .. n : g[i] = s
    BY DEF Counted
  <2> QED BY <2>1, <2>2, <2>3 DEF Bijection, Injection, Surjection, IsInjective
<1> HIDE DEF g, S
<1>4. ExistsBijection(1 .. n, S)
  BY <1>3 DEF ExistsBijection
<1>5. Cardinality(S) = n
  BY <1>2, <1>4, FS_Bijection
<1> QED BY <1>5 DEF S

(* A client that has been through all pages of a container in which nothing*)
(* ties, no view being mounted twice, has been listed every child of it,   *)
(* and each once, however the maps were iterated for each page             *)
(* (dispatch.rs, browse and paginate; composite.rs and music_library.rs,   *)
(* children, and the sorts of albums, artists and recent albums).          *)
THEOREM PagesAddUp ==
  ASSUME IsInjective(Views)
  PROVE  Spec => []PagesComplete
<1>1. Tour /\ InStep => PagesComplete
  <2> SUFFICES ASSUME Tour, InStep, Complete, current # None, Untied(current),
                      NEW response \in handle(browse_request(current, "BrowseDirectChildren", 0, 0))
               PROVE  /\ Ids(page) = Ids(response.body.Result)
                      /\ Len(page) = Cardinality(Ids(page))
    BY DEF PagesComplete
  <2>1. IndexBuilt(lib) /\ Paging
    BY StandsBuilt DEF Tour
  <2>2. PICK id, n, zero, pages : id = current /\ n = total /\ zero = 0 /\ pages = page
    OBVIOUS
  <2>3. Held(id, n) /\ Len(pages) = n /\ n \in Nat
    <3>1. total # None /\ Len(page) >= total
      BY DEF Complete
    <3>2. Held(id, n) /\ Len(pages) <= n
      BY <2>1, <2>2, <3>1 DEF Paging
    <3>3. n \in Nat
      BY <2>1, <3>2, HeldLists
    <3>4. Len(pages) \in Nat
      BY <2>1, <2>2, LenProperties DEF Paging
    <3> QED BY <2>2, <3>1, <3>2, <3>3, <3>4
  <2>3a. ListedAlike(id)
    BY <2>1, <2>2, <2>3, UntiedAlike
  <2>4. zero \in 0 .. MaxUsize /\ zero <= n
    BY <2>2, <2>3, UsizeAssumption
  <2>5. response \in handle(browse_request(id, "BrowseDirectChildren", zero, zero))
    BY <2>2
  <2>6. PICK l \in children(id) : ShownAt(l, n, id) /\ PageFrom(response, l, zero, n, zero)
    BY <2>1, <2>3, <2>4, <2>5, BrowsePages
  <2>7. PICK entries : entries = response.body.Result
    OBVIOUS
  <2>8. /\ Len(entries) \in Nat /\ DOMAIN entries = 1 .. Len(entries)
        /\ zero = 0 => zero + Len(entries) = n
        /\ Follows(entries, l, zero)
    BY <2>3, <2>6, <2>7, PageShown
  <2>9. DOMAIN entries = 1 .. n /\ \A i \in 1 .. n : entries[i] = render_one(l[i])
    BY <2>2, <2>3, <2>8 DEF Follows
  <2>10. DOMAIN pages = 1 .. n
    <3>1. pages \in Seq(Coming(id))
      BY <2>1, <2>2 DEF Paging
    <3> QED BY <2>3, <3>1, LenProperties
  <2>11. \A i \in 1 .. n : pages[i] = render_one(l[i])
    BY <2>2, <2>3, <2>3a, <2>6 DEF InStep, Leads
  <2>12. Ids(pages) = Ids(entries) /\ Ids(pages) = {pages[i].id : i \in 1 .. n}
    BY <2>9, <2>10, <2>11 DEF Ids
  <2>13. \A i \in 1 .. n : pages[i].id = l[i].id
    BY <2>11, RenderedId
  <2>14. Distinct(l) /\ Len(l) = n
    BY <2>1, <2>3, <2>6, ListedOnce DEF ShownAt
  <2>15. Cardinality(Ids(pages)) = n
    <3>1. PICK f : f = [i \in 1 .. n |-> pages[i].id]
      OBVIOUS
    <3>2. Ids(pages) = Counted(f, n)
      BY <2>12, <3>1 DEF Counted
    <3>3. Different(f, n)
      BY <2>13, <2>14, <3>1 DEF Distinct, Different
    <3> QED BY <2>3, <3>2, <3>3, CountedOnce
  <2>16. Ids(page) = Ids(response.body.Result)
    BY <2>2, <2>7, <2>12
  <2>17. Len(page) = Cardinality(Ids(page))
    BY <2>2, <2>3, <2>15
  <2> QED BY <2>16, <2>17
<1> QED BY <1>1, TourAlways, InStepAlways, PTL

-----------------------------------------------------------------------------
(* Coming by everything, and by nothing twice.                             *)

(* The ids of the containers, and of the items, among rows.                *)
ContainerIds(rows) == {r.id : r \in {e \in rows : e.tag = "container"}}

ItemIds(rows) == {r.id : r \in {e \in rows : e.tag = "item"}}

(* An item comes of one container only.                                    *)
Homed(come) ==
  \A id, up \in DOMAIN come : ItemIds(come[id]) \cap ItemIds(come[up]) # {} => id = up

(* What is listed has been looked into or will be, or has been heard of.   *)
Kept(rows, opened, waiting, heard) ==
  ContainerIds(rows) \subseteq opened \cup waiting /\ ItemIds(rows) \subseteq heard

(* Of containers that are listed alike each time nothing has been missed   *)
(* that has come by, and all has come by of those left behind.             *)
NothingLeft(come, steady, opened, waiting, here, shown, heard) ==
  /\ Root \in opened \cup waiting
  /\ Kept(shown, opened, waiting, heard)
  /\ \A id \in opened \cap steady : id # here => Kept(come[id], opened, waiting, heard)

(* Nothing has been come by but what was listed.                           *)
NothingElse(come, opened, waiting, heard) ==
  /\ \A id \in opened \cup waiting : id = Root \/ \E up \in opened : id \in ContainerIds(come[up])
  /\ \A x \in heard : \E up \in opened : x \in ItemIds(come[up])

(* Where an item is from, of the containers looked into, is listed alike.  *)
FromSteady(come, steady, opened, x) ==
  \A id \in opened : x \in ItemIds(come[id]) => id \in steady

(* Such an item was heard of once; if it is from here, on this page.       *)
NothingTwice(come, steady, opened, here, shown, said) ==
  /\ here \in opened => \A x \in ToSet(said) : x \in ItemIds(come[here]) => x \in ItemIds(shown)
  /\ \A i, j \in 1 .. Len(said) :
       said[i] = said[j] /\ FromSteady(come, steady, opened, said[i]) => i = j

(* A container is looked into.                                             *)
LEMMA LeftLooking ==
  ASSUME NEW come, NEW steady, NEW opened, NEW rest, NEW next, next \notin opened,
         NEW here, NEW shown, NEW heard,
         NothingLeft(come, steady, opened, rest \cup {next}, here, shown, heard),
         here \in opened \cap steady => come[here] \subseteq shown
  PROVE  NothingLeft(come, steady, opened \cup {next}, rest, next, {}, heard)
<1>1. PICK waiting, more : waiting = rest \cup {next} /\ more = opened \cup {next}
  OBVIOUS
<1>2. opened \cup waiting = more \cup rest
  BY <1>1
<1>3. \A rows : Kept(rows, opened, waiting, heard) => Kept(rows, more, rest, heard)
  BY <1>2 DEF Kept
<1>4. ASSUME NEW id \in opened \cap steady PROVE Kept(come[id], opened, waiting, heard)
  <2>1. CASE id = here
    <3>1. come[id] \subseteq shown
      BY <2>1
    <3>2. Kept(shown, opened, waiting, heard)
      BY <1>1 DEF NothingLeft
    <3> QED BY <3>1, <3>2 DEF Kept, ContainerIds, ItemIds
  <2>2. CASE id # here
    BY <1>1, <2>2 DEF NothingLeft
  <2> QED BY <2>1, <2>2
<1>5. Kept({}, more, rest, heard)
  BY DEF Kept, ContainerIds, ItemIds
<1>6. Root \in more \cup rest
  BY <1>1, <1>2 DEF NothingLeft
<1>7. \A id \in more \cap steady : id # next => Kept(come[id], more, rest, heard)
  BY <1>1, <1>3, <1>4
<1> QED BY <1>1, <1>5, <1>6, <1>7 DEF NothingLeft

LEMMA LeftPassing ==
  ASSUME NEW come, NEW steady, NEW opened, NEW rest, NEW next \in opened,
         NEW here, NEW shown, NEW heard,
         NothingLeft(come, steady, opened, rest \cup {next}, here, shown, heard)
  PROVE  NothingLeft(come, steady, opened, rest, here, shown, heard)
<1>1. opened \cup (rest \cup {next}) = opened \cup rest
  OBVIOUS
<1> QED BY <1>1 DEF NothingLeft, Kept

LEMMA ElseLooking ==
  ASSUME NEW come, NEW opened, NEW rest, NEW next, NEW heard,
         NothingElse(come, opened, rest \cup {next}, heard)
  PROVE  NothingElse(come, opened \cup {next}, rest, heard)
  BY DEF NothingElse

LEMMA TwiceLooking ==
  ASSUME NEW come, Homed(come), NEW steady, NEW opened \in SUBSET DOMAIN come,
         NEW next \in DOMAIN come, next \notin opened, NEW waiting, NEW here, NEW shown, NEW said,
         NothingElse(come, opened, waiting, ToSet(said)),
         NothingTwice(come, steady, opened, here, shown, said)
  PROVE  NothingTwice(come, steady, opened \cup {next}, next, {}, said)
<1>1. ASSUME NEW x \in ToSet(said) PROVE x \notin ItemIds(come[next])
  <2>1. PICK up \in opened : x \in ItemIds(come[up])
    BY DEF NothingElse
  <2> QED BY <2>1 DEF Homed
<1>2. ASSUME NEW x, FromSteady(come, steady, opened \cup {next}, x)
      PROVE  FromSteady(come, steady, opened, x)
  BY <1>2 DEF FromSteady
<1> QED BY <1>1, <1>2 DEF NothingTwice

(* A page comes.                                                           *)
LEMMA LeftListing ==
  ASSUME NEW come, NEW steady, NEW opened, NEW waiting, NEW here, NEW shown, NEW heard, NEW new,
         NothingLeft(come, steady, opened, waiting, here, shown, heard)
  PROVE  NothingLeft(come, steady, opened, waiting \cup ContainerIds(new), here,
                     shown \cup new, heard \cup ItemIds(new))
<1>1. PICK more, known : more = waiting \cup ContainerIds(new) /\ known = heard \cup ItemIds(new)
  OBVIOUS
<1>2. \A rows : Kept(rows, opened, waiting, heard) => Kept(rows, opened, more, known)
  BY <1>1 DEF Kept
<1>3. Kept(shown \cup new, opened, more, known)
  <2>1. /\ ContainerIds(shown \cup new) = ContainerIds(shown) \cup ContainerIds(new)
        /\ ItemIds(shown \cup new) = ItemIds(shown) \cup ItemIds(new)
    BY DEF ContainerIds, ItemIds
  <2> QED BY <1>1, <2>1 DEF NothingLeft, Kept
<1> QED BY <1>1, <1>2, <1>3 DEF NothingLeft

LEMMA ElseListing ==
  ASSUME NEW come, NEW opened, NEW waiting, NEW here \in opened, NEW heard,
         NEW new, new \subseteq come[here], NothingElse(come, opened, waiting, heard)
  PROVE  NothingElse(come, opened, waiting \cup ContainerIds(new), heard \cup ItemIds(new))
<1>1. ContainerIds(new) \subseteq ContainerIds(come[here]) /\ ItemIds(new) \subseteq ItemIds(come[here])
  BY DEF ContainerIds, ItemIds
<1> QED BY <1>1 DEF NothingElse

LEMMA TwiceListing ==
  ASSUME NEW come, NEW steady, NEW opened, NEW here \in opened, NEW shown,
         NEW new, new \subseteq come[here], NEW X, NEW said \in Seq(X), NEW fresh \in Seq(X),
         ToSet(fresh) = ItemIds(new),
         here \in steady => IsInjective(fresh) /\ ItemIds(shown) \cap ToSet(fresh) = {},
         NothingTwice(come, steady, opened, here, shown, said)
  PROVE  NothingTwice(come, steady, opened, here, shown \cup new, said \o fresh)
<1>1. PICK all, m, k : all = said \o fresh /\ m = Len(said) /\ k = Len(fresh)
  OBVIOUS
<1>2. /\ m \in Nat /\ k \in Nat /\ Len(all) = m + k
      /\ \A i \in 1 .. m : all[i] = said[i]
      /\ \A i \in 1 .. k : all[m + i] = fresh[i]
  BY <1>1, ConcatIs
<1>3. /\ \A i \in 1 .. m : said[i] \in ToSet(said)
      /\ \A i \in 1 .. k : fresh[i] \in ToSet(fresh)
      /\ DOMAIN fresh = 1 .. k /\ DOMAIN all = 1 .. m + k
  <2>1. DOMAIN said = 1 .. m /\ DOMAIN fresh = 1 .. k
    BY <1>1, LenProperties
  <2>2. all \in Seq(X)
    BY <1>1, ConcatProperties
  <2>3. DOMAIN all = 1 .. m + k
    BY <1>2, <2>2, LenProperties
  <2> QED BY <2>1, <2>3 DEF ToSet
<1>4. ItemIds(shown \cup new) = ItemIds(shown) \cup ToSet(fresh)
  BY DEF ItemIds
<1>5. ToSet(fresh) \subseteq ItemIds(come[here])
  BY DEF ItemIds
<1>6. \A i \in 1 .. m + k : i \in 1 .. m \/ \E h \in 1 .. k : i = m + h
  <2> SUFFICES ASSUME NEW i \in 1 .. m + k, i \notin 1 .. m PROVE \E h \in 1 .. k : i = m + h
    OBVIOUS
  <2>1. i - m \in 1 .. k /\ i = m + (i - m)
    BY <1>2
  <2> QED BY <2>1
<1>7. \A x \in ToSet(all) : x \in ToSet(said) \/ x \in ToSet(fresh)
  <2> SUFFICES ASSUME NEW i \in 1 .. m + k PROVE all[i] \in ToSet(said) \cup ToSet(fresh)
    BY <1>3 DEF ToSet
  <2> QED BY <1>2, <1>3, <1>6
<1>8. \A x \in ToSet(all) : x \in ItemIds(come[here]) => x \in ItemIds(shown \cup new)
  BY <1>4, <1>7 DEF NothingTwice
<1>9. ASSUME NEW i \in 1 .. m + k, NEW j \in 1 .. m + k, all[i] = all[j],
             FromSteady(come, steady, opened, all[i])
      PROVE  i = j
  <2>1. CASE i \in 1 .. m /\ j \in 1 .. m
    BY <1>1, <1>2, <1>9, <2>1 DEF NothingTwice
  <2>2. ASSUME NEW a \in 1 .. m, NEW h \in 1 .. k, said[a] = fresh[h],
               FromSteady(come, steady, opened, fresh[h])
        PROVE  FALSE
    <3>1. PICK x : x = fresh[h]
      OBVIOUS
    <3>2. x \in ToSet(fresh) /\ x \in ToSet(said) /\ x \in ItemIds(come[here])
      BY <1>3, <1>5, <2>2, <3>1
    <3>3. here \in steady
      BY <2>2, <3>1, <3>2 DEF FromSteady
    <3>4. x \in ItemIds(shown)
      BY <3>2 DEF NothingTwice
    <3> QED BY <3>2, <3>3, <3>4
  <2>3. ASSUME NEW a \in 1 .. k, NEW h \in 1 .. k, fresh[a] = fresh[h],
               FromSteady(come, steady, opened, fresh[h])
        PROVE  a = h
    <3>1. fresh[h] \in ItemIds(come[here])
      BY <1>3, <1>5
    <3>2. here \in steady
      BY <2>3, <3>1 DEF FromSteady
    <3> QED BY <1>3, <2>3, <3>2 DEF IsInjective
  <2>4. CASE i \in 1 .. m /\ j \notin 1 .. m
    <3>1. PICK h \in 1 .. k : j = m + h
      BY <1>6, <2>4
    <3> QED BY <1>2, <1>9, <2>2, <2>4, <3>1
  <2>5. CASE i \notin 1 .. m /\ j \in 1 .. m
    <3>1. PICK h \in 1 .. k : i = m + h
      BY <1>6, <2>5
    <3> QED BY <1>2, <1>9, <2>2, <2>5, <3>1
  <2>6. CASE i \notin 1 .. m /\ j \notin 1 .. m
    <3>1. PICK a \in 1 .. k : i = m + a
      BY <1>6, <2>6
    <3>2. PICK h \in 1 .. k : j = m + h
      BY <1>6, <2>6
    <3>3. all[m + a] = fresh[a] /\ all[m + h] = fresh[h]
      BY <1>2
    <3>4. fresh[a] = fresh[h] /\ FromSteady(come, steady, opened, fresh[h])
      BY <1>9, <3>1, <3>2, <3>3
    <3>5. a = h
      BY <2>3, <3>4
    <3> QED BY <3>1, <3>2, <3>5
  <2> QED BY <2>1, <2>4, <2>5, <2>6
<1>10. Len(all) = m + k
  BY <1>2
<1> QED BY <1>1, <1>8, <1>9, <1>10 DEF NothingTwice

(* What a row is of is what it is listed as.                               *)
LEMMA TaggedBy ==
  ASSUME NEW e, NEW r, r = render_one(e)
  PROVE  (r.tag = "item" <=> e.path # None) /\ (r.tag = "container" <=> e.path = None)
<1>1. PICK parent : parent = IF e.parent = None THEN <<"-1">> ELSE e.parent
  OBVIOUS
<1>2. CASE e.path = None
  <2>1. r = [tag |-> "container", id |-> e.id, title |-> e.title,
             childCount |-> e.count, parentID |-> parent]
    BY <1>1, <1>2 DEF render_one
  <2> QED BY <1>2, <2>1
<1>3. CASE e.path # None
  <2>1. r = [tag |-> "item", id |-> e.id, title |-> e.title, parentID |-> e.parent,
             protocolInfo |-> protocol_info(e.path), res |-> item_url(e.id),
             creator |-> e.artist, album |-> e.album, albumArtURI |-> albumArtURI(e)]
    BY <1>3 DEF render_one
  <2> QED BY <1>3, <2>1
<1> QED BY <1>2, <1>3

(* A row of a mount's container, and the entry of the view it is made of.  *)
RowOf(r, v, e) ==
  /\ r.id = prefixed(v, e.id) /\ e.id \in LocalIds
  /\ (r.tag = "item" => e.path # None) /\ (r.tag = "container" => e.path = None)

LEMMA RowIs ==
  ASSUME IndexBuilt(lib), NEW m \in DOMAIN Views, NEW local \in LocalIds, NEW id,
         id = prefixed(Views[m].view, local), NEW n, Opens(Views[m], local, n), NEW r \in Coming(id)
  PROVE  \E l \in Children(Views[m], local) : \E k \in 1 .. Len(l) : RowOf(r, Views[m].view, l[k])
<1>1. PICK v : v = Views[m].view
  OBVIOUS
<1>2. PICK l \in Children(Views[m], local) : \E k \in 1 .. Len(l) :
        EntryAt(l[k], local) /\ r = render_one(rewrap(v, l[k]))
  BY <1>1, ComingRow
<1>3. PICK k \in 1 .. Len(l) : EntryAt(l[k], local) /\ r = render_one(rewrap(v, l[k]))
  BY <1>2
<1>4. PICK e, row : e = l[k] /\ row = rewrap(v, e)
  OBVIOUS
<1>5. EntryAt(e, local) /\ r = render_one(row)
  BY <1>3, <1>4
<1>6. row.id = prefixed(v, e.id) /\ row.path = e.path
  BY <1>4, <1>5, RewrapIs
<1>7. r.id = row.id
  BY <1>5, RenderedId
<1>8. (r.tag = "item" => row.path # None) /\ (r.tag = "container" => row.path = None)
  BY <1>5, TaggedBy
<1>9. e.id \in LocalIds
  BY <1>5 DEF EntryAt
<1>10. RowOf(r, v, e)
  BY <1>6, <1>7, <1>8, <1>9 DEF RowOf
<1> QED BY <1>1, <1>4, <1>10

(* A container that is held is what its id says.                           *)
LEMMA HeldMounted ==
  ASSUME NEW m \in DOMAIN Views, NEW local \in LocalIds, NEW id,
         id = prefixed(Views[m].view, local), NEW n, Held(id, n)
  PROVE  Opens(Views[m], local, n)
<1>1. id # Root
  BY PrefixedApart
<1>2. PICK k \in DOMAIN Views, other \in LocalIds :
        id = prefixed(Views[k].view, other) /\ Opens(Views[k], other, n)
  BY <1>1 DEF Held
<1>3. local \in Seq(IdTokens) /\ other \in Seq(IdTokens)
  BY LocalIdsAre
<1>4. PICK v, w : v = Views[m].view /\ w = Views[k].view
  OBVIOUS
<1>5. Local(id) = local /\ Mount(id) = v
  BY <1>3, <1>4, LocalIs
<1>6. Local(id) = other /\ Mount(id) = w
  BY <1>2, <1>3, <1>4, LocalIs
<1>7. Views[m] = Views[k]
  BY <1>4, <1>5, <1>6, ViewsAssumption
<1> QED BY <1>2, <1>5, <1>6, <1>7

(* Where an item a control point is told of is from.                       *)
FromHome(x, id, m, item) ==
  LET home == HomeIn(Views[m], item)
  IN /\ x = prefixed(Views[m].view, item) /\ id = prefixed(Views[m].view, home)
     /\ home \in LocalIds /\ AlbumAlone(Views[m], home)

LEMMA ItemFrom ==
  ASSUME IndexBuilt(lib), NEW id, NEW n, Held(id, n), NEW x \in ItemIds(Coming(id))
  PROVE  \E m \in DOMAIN Views, item \in Items : FromHome(x, id, m, item)
<1>1. PICK r \in Coming(id) : r.tag = "item" /\ r.id = x
  BY DEF ItemIds
<1>2. CASE id = Root
  <2>1. PICK m \in DOMAIN Views : \E size : /\ Opens(Views[m], Root, size)
          /\ r = Row(prefixed(Views[m].view, Root), Views[m].title, size, Root)
    BY <1>1, <1>2, RootComing
  <2>2. r.tag = "container"
    BY <2>1 DEF Row
  <2> QED BY <1>1, <2>2
<1>3. CASE id # Root
  <2>1. PICK m \in DOMAIN Views, local \in LocalIds :
          id = prefixed(Views[m].view, local) /\ Opens(Views[m], local, n)
    BY <1>3 DEF Held
  <2>2. PICK l \in Children(Views[m], local) : \E k \in 1 .. Len(l) : RowOf(r, Views[m].view, l[k])
    BY <1>1, <2>1, RowIs
  <2>3. PICK k \in 1 .. Len(l) : RowOf(r, Views[m].view, l[k])
    BY <2>2
  <2>4. l[k].path # None /\ x = prefixed(Views[m].view, l[k].id)
    BY <1>1, <2>3 DEF RowOf
  <2>5. ModeIs(Views[m])
    BY MountsAre
  <2>6. PICK item : item = l[k].id
    OBVIOUS
  <2>7. item \in Items /\ local = HomeIn(Views[m], item) /\ AlbumAlone(Views[m], local)
    BY <2>4, <2>5, <2>6, ItemHome
  <2> QED BY <2>1, <2>4, <2>6, <2>7 DEF FromHome
<1> QED BY <1>2, <1>3

(* It is from one place.                                                   *)
LEMMA HomeOnce ==
  ASSUME IndexBuilt(lib), NEW x, NEW id, NEW up, NEW m \in DOMAIN Views, NEW k \in DOMAIN Views,
         NEW item \in Items, NEW other \in Items,
         FromHome(x, id, m, item), FromHome(x, up, k, other)
  PROVE  id = up /\ item = other /\ Views[m] = Views[k]
<1>1. item \in Seq(IdTokens) /\ other \in Seq(IdTokens)
  BY IdsLocal, LocalIdsAre
<1>2. PICK v, w : v = Views[m].view /\ w = Views[k].view
  OBVIOUS
<1>3. x = prefixed(v, item) /\ x = prefixed(w, other)
  BY <1>2 DEF FromHome
<1>4. Local(x) = item /\ Mount(x) = v
  BY <1>1, <1>3, LocalIs
<1>5. Local(x) = other /\ Mount(x) = w
  BY <1>1, <1>3, LocalIs
<1>6. item = other /\ Views[m] = Views[k]
  BY <1>2, <1>4, <1>5, ViewsAssumption
<1> QED BY <1>6 DEF FromHome

(* What may come of each container there is, and those that are listed     *)
(* alike each time.                                                        *)
Rows == [id \in Openables |-> Coming(id)]

Steady == {id \in Openables : ListedAlike(id)}

LEMMA RowsHomed ==
  ASSUME IndexBuilt(lib)
  PROVE  Homed(Rows)
<1> SUFFICES ASSUME NEW id \in Openables, NEW up \in Openables,
                    NEW x \in ItemIds(Rows[id]) \cap ItemIds(Rows[up])
             PROVE  id = up
  BY DEF Homed, Rows
<1>1. x \in ItemIds(Coming(id)) /\ x \in ItemIds(Coming(up))
  BY DEF Rows
<1>2. PICK n : Held(id, n)
  BY DEF Openables
<1>3. PICK size : Held(up, size)
  BY DEF Openables
<1>4. PICK m \in DOMAIN Views, item \in Items : FromHome(x, id, m, item)
  BY <1>1, <1>2, ItemFrom
<1>5. PICK k \in DOMAIN Views, other \in Items : FromHome(x, up, k, other)
  BY <1>1, <1>3, ItemFrom
<1> QED BY <1>4, <1>5, HomeOnce

LEMMA RowsStay ==
  ASSUME UNCHANGED <<lib, disk>>
  PROVE  Rows' = Rows /\ Steady' = Steady
<1>1. Openables' = Openables
  BY WalkStays
<1>2. \A id : Coming(id)' = Coming(id)
  BY ComingStays
<1>3. \A id : ListedAlike(id)' <=> ListedAlike(id)
  BY ListingsStay DEF ListedAlike
<1> QED BY <1>1, <1>2, <1>3 DEF Rows, Steady

(* What every listing of a container has may come of it.                   *)
LEMMA ComesOf ==
  ASSUME IndexBuilt(lib), NEW m \in DOMAIN Views, NEW local \in LocalIds, NEW id,
         id = prefixed(Views[m].view, local), NEW n, Held(id, n),
         NEW child, InEvery(Views[m], local, child), NEW x, x = prefixed(Views[m].view, child)
  PROVE  IF child \in Items THEN x \in ItemIds(Coming(id)) ELSE x \in ContainerIds(Coming(id))
<1>1. PICK v : v = Views[m].view
  OBVIOUS
<1>2. Opens(Views[m], local, n)
  BY HeldMounted
<1>3. PICK o : o \in Children(Views[m], local)
  BY <1>2 DEF Opens, Holds
<1>4. PICK h \in 1 .. Len(o) : o[h].id = child
  BY <1>3 DEF InEvery
<1>5. Listing(o) /\ Len(o) = n /\ n \in Nat
  BY <1>2, <1>3 DEF Opens, Holds
<1>6. PICK e, row, r, l : e = o[h] /\ row = rewrap(v, e) /\ r = render_one(row) /\ l = Rewrapped(v, o)
  OBVIOUS
<1>7. EntryAt(e, local) /\ (e.path = None => Opens(Views[m], e.id, e.count))
  <2>1. ListedAt(Views[m], o, local)
    BY <1>3, MountsAre, ViewsListWhatOpens
  <2> QED BY <1>6, <2>1 DEF ListedAt
<1>8. Shown(row, id)
  BY <1>1, <1>6, <1>7, MountShown
<1>9. l \in children(id)
  BY <1>1, <1>3, <1>6, MountChildren
<1>10. Len(l) = n /\ l[h] = row
  <2>1. DOMAIN o = 1 .. n
    BY <1>5 DEF Listing
  <2>2. l = [i \in 1 .. n |-> rewrap(v, o[i])]
    BY <1>6, <2>1 DEF Rewrapped
  <2>3. DOMAIN l = 1 .. n /\ l = [i \in 1 .. n |-> l[i]]
    BY <2>2
  <2>4. Len(l) = n
    BY <1>5, <2>3, MadeListing
  <2> QED BY <1>5, <1>6, <2>2, <2>4
<1>11. r \in Coming(id)
  <2>1. h \in {k \in 1 .. Len(l) : Shown(l[k], id)}
    BY <1>5, <1>8, <1>10
  <2> QED BY <1>6, <1>9, <1>10, <2>1 DEF Coming
<1>12. r.id = x
  <2>1. row.id = prefixed(v, e.id) /\ row.path = e.path
    BY <1>6, <1>7, RewrapIs
  <2>2. r.id = row.id
    BY <1>6, RenderedId
  <2> QED BY <1>1, <1>4, <1>6, <2>1, <2>2
<1>13. row.path = e.path
  BY <1>6, <1>7, RewrapIs
<1>14. (r.tag = "item" <=> row.path # None) /\ (r.tag = "container" <=> row.path = None)
  BY <1>6, TaggedBy
<1>15. CASE child \in Items
  <2>1. e.path # None
    BY <1>4, <1>6, <1>7, <1>15 DEF EntryAt, ListsItem
  <2>2. r.tag = "item"
    BY <1>13, <1>14, <2>1
  <2> QED BY <1>11, <1>12, <1>15, <2>2 DEF ItemIds
<1>16. CASE child \notin Items
  <2>1. e.path = None
    BY <1>4, <1>6, <1>7, <1>16 DEF EntryAt, ListsItem
  <2>2. r.tag = "container"
    BY <1>13, <1>14, <2>1
  <2> QED BY <1>11, <1>12, <1>16, <2>2 DEF ContainerIds
<1> QED BY <1>15, <1>16

(* The roots of the views come of the overall root, in one order.          *)
LEMMA RootsCome ==
  ASSUME IndexBuilt(lib), NEW m \in DOMAIN Views
  PROVE  prefixed(Views[m].view, Root) \in ContainerIds(Coming(Root)) /\ ListedAlike(Root)
<1>1. PICK size, l : size = Len(Views) /\ l = top_level
  OBVIOUS
<1>2. size \in Nat /\ DOMAIN Views = 1 .. size
  BY <1>1, MountsAre
<1>3. children(Root) = {l} /\ Len(l) = size /\ \A i \in 1 .. size : Shown(l[i], Root)
  BY <1>1, RootHolds DEF ShownAt
<1>4. PICK e, r : e = l[m] /\ r = render_one(e)
  OBVIOUS
<1>5. r \in Coming(Root)
  BY <1>2, <1>3, <1>4 DEF Coming
<1>6. PICK id, title, n :
        /\ id = prefixed(Views[m].view, Root) /\ title = Views[m].title
        /\ n = Len(CHOOSE k \in Children(Views[m], Root) : TRUE)
  OBVIOUS
<1>7. e = Listed(id, Root, title, n)
  BY <1>1, <1>4, <1>6 DEF top_level
<1>8. e.id = id /\ e.path = None
  BY <1>7 DEF Listed
<1>9. r.id = id
  BY <1>4, <1>8, RenderedId
<1>10. r.tag = "container"
  BY <1>4, <1>8, TaggedBy
<1>11. id \in ContainerIds(Coming(Root))
  BY <1>5, <1>9, <1>10 DEF ContainerIds
<1> QED BY <1>3, <1>6, <1>11 DEF ListedAlike

(* What the walk has come by: everything of containers listed alike each   *)
(* time, once, and nothing else.                                           *)
Harvest ==
  /\ phase # "walk" => queue = <<>>
  /\ NothingLeft(Rows, Steady, visited, ToSet(queue), current, ToSet(page), ToSet(seen))
  /\ NothingElse(Rows, visited, ToSet(queue), ToSet(seen))
  /\ NothingTwice(Rows, Steady, visited, current, ToSet(page), seen)

LEMMA HarvestBegins == Init => Harvest
<1> SUFFICES ASSUME Init PROVE Harvest
  OBVIOUS
<1>1. /\ phase = "walk" /\ queue = <<Root>> /\ visited = {} /\ current = None
      /\ page = <<>> /\ seen = <<>>
  BY DEF Init
<1>2. ToSet(queue) = {Root} /\ ToSet(page) = {} /\ ToSet(seen) = {} /\ Len(seen) = 0
  BY <1>1 DEF ToSet
<1>3. Kept({}, visited, {Root}, {})
  BY DEF Kept, ContainerIds, ItemIds
<1>4. NothingLeft(Rows, Steady, visited, {Root}, current, {}, {})
  BY <1>1, <1>3 DEF NothingLeft
<1>5. NothingElse(Rows, visited, {Root}, {})
  BY <1>1 DEF NothingElse
<1>6. NothingTwice(Rows, Steady, visited, current, {}, seen)
  BY <1>1, <1>2 DEF NothingTwice
<1> QED BY <1>1, <1>2, <1>4, <1>5, <1>6 DEF Harvest

(* A container that has been paged through, and is listed alike each time, *)
(* has nothing that has not been on a page.                                *)
LEMMA PageWhole ==
  ASSUME Tour, InStep, Complete, current \in visited \cap Steady
  PROVE  Rows[current] \subseteq ToSet(page)
<1>1. PICK id, pages, n : id = current /\ pages = page /\ n = total
  OBVIOUS
<1>2. current # None /\ id \in Openables /\ ListedAlike(id)
  BY <1>1, HeldIs DEF Tour, Openables, Steady
<1>3. Paging
  BY <1>2 DEF Tour
<1>4. IndexBuilt(lib)
  BY StandsBuilt DEF Tour
<1>5. n # None /\ Len(pages) >= n
  BY <1>1, <1>2 DEF Complete
<1>6. Held(id, n) /\ Len(pages) <= n /\ pages \in Seq(Coming(id))
  BY <1>1, <1>3, <1>5 DEF Paging
<1>7. n \in Nat /\ \A l \in children(id) : ShownAt(l, n, id)
  BY <1>4, <1>6, HeldLists
<1>8. Len(pages) = n /\ DOMAIN pages = 1 .. n
  BY <1>5, <1>6, <1>7, LenProperties
<1>9. ASSUME NEW r \in Coming(id) PROVE r \in ToSet(pages)
  <2>1. PICK l \in children(id) : \E i \in 1 .. Len(l) : r = render_one(l[i])
    BY DEF Coming
  <2>2. PICK i \in 1 .. Len(l) : r = render_one(l[i])
    BY <2>1
  <2>3. Len(l) = n
    BY <1>7, <2>1 DEF ShownAt
  <2>4. Leads(pages, l)
    BY <1>1, <1>2, <2>1 DEF InStep
  <2>5. pages[i] = r
    BY <1>8, <2>2, <2>3, <2>4 DEF Leads
  <2> QED BY <1>8, <2>3, <2>5 DEF ToSet
<1> QED BY <1>1, <1>2, <1>9 DEF Rows

LEMMA LastOfQueue ==
  ASSUME NEW X, NEW s \in Seq(X), s # <<>>
  PROVE  ToSet(s) = ToSet(Front(s)) \cup {Last(s)}
<1>1. PICK n : n = Len(s)
  OBVIOUS
<1>2. n \in Nat /\ n # 0 /\ DOMAIN s = 1 .. n /\ \A i \in 1 .. n : s[i] \in X
  BY <1>1, LenProperties, EmptySeq, ElementOfSeq
<1>3. PICK from, to, rest : from = 1 /\ to = n - 1 /\ rest = Front(s)
  OBVIOUS
<1>4. from \in Int /\ to \in Int /\ \A i \in from .. to : s[i] \in X
  BY <1>2, <1>3
<1>5. rest = SubSeq(s, from, to)
  BY <1>1, <1>3 DEF Front
<1>6. /\ rest \in Seq(X) /\ Len(rest) = IF from <= to THEN to - from + 1 ELSE 0
      /\ \A i \in 1 .. to - from + 1 : rest[i] = s[from + i - 1]
  BY <1>4, <1>5, SubSeqProperties
<1>7. Len(rest) = to /\ \A i \in 1 .. to : rest[i] = s[i]
  BY <1>2, <1>3, <1>6
<1>8. DOMAIN rest = 1 .. to
  BY <1>6, <1>7, LenProperties
<1>9. Last(s) = s[n]
  BY <1>1 DEF Last
<1>10. \A i \in 1 .. n : i \in 1 .. to \/ i = n
  BY <1>2, <1>3
<1>11. n \in 1 .. n /\ 1 .. to \subseteq 1 .. n
  BY <1>2, <1>3
<1> QED BY <1>2, <1>3, <1>7, <1>8, <1>9, <1>10, <1>11 DEF ToSet

LEMMA HarvestOpens ==
  ASSUME Tour, InStep, Harvest, Open
  PROVE  Harvest'
<1>1. PICK next, rest, line : next = Last(queue) /\ rest = Front(queue) /\ line = queue
  OBVIOUS
<1>2. /\ phase = "walk" /\ Complete /\ line # <<>> /\ queue' = rest
      /\ UNCHANGED <<lib, disk, phase, seen>>
  BY <1>1 DEF Open
<1>3. line \in Seq(Openables) /\ visited \subseteq Openables
  BY <1>1 DEF Tour
<1>4. next \in Openables /\ ToSet(line) = ToSet(rest) \cup {next}
  BY <1>1, <1>2, <1>3, LastFront, LastOfQueue
<1>5. PICK come, steady, opened, here, shown, said, waiting :
        /\ come = Rows /\ steady = Steady /\ opened = visited /\ here = current
        /\ shown = ToSet(page) /\ said = seen /\ waiting = ToSet(rest)
  OBVIOUS
<1>6. Rows' = come /\ Steady' = steady
  BY <1>2, <1>5, RowsStay
<1>7. /\ NothingLeft(come, steady, opened, waiting \cup {next}, here, shown, ToSet(said))
      /\ NothingElse(come, opened, waiting \cup {next}, ToSet(said))
      /\ NothingTwice(come, steady, opened, here, shown, said)
  BY <1>1, <1>4, <1>5 DEF Harvest
<1>8. NothingElse(come, opened \cup {next}, waiting, ToSet(said))
  BY <1>7, ElseLooking
<1>9. CASE next \in opened
  <2>1. UNCHANGED <<visited, current, page>>
    BY <1>1, <1>5, <1>9 DEF Open
  <2>2. NothingLeft(come, steady, opened, waiting, here, shown, ToSet(said))
    BY <1>7, <1>9, LeftPassing
  <2>3. opened \cup {next} = opened
    BY <1>9
  <2>4. NothingElse(come, opened, waiting, ToSet(said))
    BY <1>8, <2>3
  <2>5. /\ visited' = opened /\ current' = here /\ ToSet(page') = shown /\ seen' = said
        /\ ToSet(queue') = waiting /\ phase' = "walk"
    BY <1>2, <1>5, <2>1
  <2> QED BY <1>6, <1>7, <2>2, <2>4, <2>5 DEF Harvest
<1>10. CASE next \notin opened
  <2>1. visited' = opened \cup {next} /\ current' = next /\ page' = <<>>
    BY <1>1, <1>5, <1>10 DEF Open
  <2>2. here \in opened \cap steady => come[here] \subseteq shown
    BY <1>2, <1>5, PageWhole
  <2>3. NothingLeft(come, steady, opened \cup {next}, waiting, next, {}, ToSet(said))
    BY <1>7, <1>10, <2>2, LeftLooking
  <2>4. Homed(come) /\ opened \in SUBSET DOMAIN come /\ next \in DOMAIN come
    <3>1. Homed(come)
      BY <1>5, StandsBuilt, RowsHomed DEF Tour
    <3> QED BY <1>3, <1>4, <1>5, <3>1 DEF Rows
  <2>5. NothingTwice(come, steady, opened \cup {next}, next, {}, said)
    BY <1>7, <1>10, <2>4, TwiceLooking
  <2>6. /\ ToSet(page') = {} /\ seen' = said /\ ToSet(queue') = waiting /\ phase' = "walk"
    <3>1. ToSet(<<>>) = {}
      BY ToSetEmpty
    <3> QED BY <1>2, <1>5, <2>1, <3>1
  <2> QED BY <1>6, <1>8, <2>1, <2>3, <2>5, <2>6 DEF Harvest
<1> QED BY <1>9, <1>10

(* On the pages of a mount's container that is listed alike each time      *)
(* nothing is twice.                                                       *)
PageOnce == current \in Steady \ {Root} => Distinct(page)

LEMMA PagedOnce == Tour /\ InStep => PageOnce
<1> SUFFICES ASSUME Tour, InStep, current \in Steady \ {Root} PROVE Distinct(page)
  BY DEF PageOnce
<1>1. PICK id, pages, start : id = current /\ pages = page /\ start = Len(pages)
  OBVIOUS
<1>2. IndexBuilt(lib)
  BY StandsBuilt DEF Tour
<1>3. current # None /\ id # Root /\ ListedAlike(id)
  BY <1>1, HeldIs DEF Steady, Openables
<1>4. Paging
  BY <1>3 DEF Tour
<1>5. PICK n : Held(id, n) /\ start \in Nat /\ start <= n
  BY <1>1, <1>3, <1>4, WalkedSoFar
<1>6. n \in Nat /\ \A l \in children(id) : ShownAt(l, n, id)
  BY <1>2, <1>5, HeldLists
<1>7. PICK m \in DOMAIN Views, local \in LocalIds :
        id = prefixed(Views[m].view, local) /\ Opens(Views[m], local, n)
  BY <1>3, <1>5 DEF Held
<1>8. PICK o : o \in Children(Views[m], local)
  BY <1>7 DEF Opens, Holds
<1>9. PICK l : l \in children(id)
  BY <1>7, <1>8, MountChildren
<1>10. Distinct(l)
  BY <1>2, <1>7, <1>9, MountListsOnce
<1>11. Len(l) = n /\ Leads(pages, l)
  BY <1>1, <1>3, <1>6, <1>9 DEF ShownAt, InStep
<1>12. ASSUME NEW i \in 1 .. start, NEW j \in 1 .. start, pages[i].id = pages[j].id PROVE i = j
  <2>1. pages[i] = render_one(l[i]) /\ pages[j] = render_one(l[j])
    BY <1>1, <1>11 DEF Leads
  <2>2. l[i].id = l[j].id
    BY <1>12, <2>1, RenderedId
  <2>3. i \in 1 .. n /\ j \in 1 .. n
    BY <1>5, <1>6
  <2> QED BY <1>10, <1>11, <2>2, <2>3 DEF Distinct
<1> QED BY <1>1, <1>12 DEF Distinct

LEMMA PagedOnceNext == Tour' /\ InStep' => PageOnce'
  BY PagedOnce, PTL

(* The ids of what a page holds of one kind.                               *)
LEMMA MappedAll ==
  ASSUME NEW X, NEW s \in Seq(X)
  PROVE  ToSet([i \in DOMAIN s |-> s[i].id]) = {x.id : x \in ToSet(s)}
  BY DEF ToSet

LEMMA MappedOnce ==
  ASSUME NEW X, NEW s \in Seq(X), IsInjective(s), NEW S, ToSet(s) \subseteq S,
         \A a, b \in S : a.id = b.id => a = b
  PROVE  IsInjective([i \in DOMAIN s |-> s[i].id])
  BY DEF ToSet, IsInjective

(* What comes on the next page is new, and once.                           *)
LEMMA PageJoins ==
  ASSUME NEW X, NEW before \in Seq(X), NEW entries \in Seq(X), Distinct(before \o entries)
  PROVE  /\ IsInjective(entries)
         /\ \A a, b \in ToSet(entries) : a.id = b.id => a = b
         /\ \A a \in ToSet(before), b \in ToSet(entries) : a.id # b.id
<1>1. PICK all, m, k : all = before \o entries /\ m = Len(before) /\ k = Len(entries)
  OBVIOUS
<1>2. /\ m \in Nat /\ k \in Nat /\ Len(all) = m + k
      /\ \A i \in 1 .. m : all[i] = before[i]
      /\ \A i \in 1 .. k : all[m + i] = entries[i]
  BY <1>1, ConcatIs
<1>3. DOMAIN before = 1 .. m /\ DOMAIN entries = 1 .. k
  BY <1>1, LenProperties
<1>4. \A i, j \in 1 .. m + k : all[i].id = all[j].id => i = j
  BY <1>1, <1>2 DEF Distinct
<1>5. ASSUME NEW i \in 1 .. k, NEW j \in 1 .. k, entries[i].id = entries[j].id PROVE i = j
  <2>1. m + i \in 1 .. m + k /\ m + j \in 1 .. m + k
    BY <1>2
  <2>2. all[m + i].id = all[m + j].id
    BY <1>2, <1>5
  <2>3. m + i = m + j
    BY <1>4, <2>1, <2>2
  <2> QED BY <1>2, <2>3
<1>6. ASSUME NEW i \in 1 .. m, NEW j \in 1 .. k PROVE before[i].id # entries[j].id
  <2>1. i \in 1 .. m + k /\ m + j \in 1 .. m + k /\ i # m + j
    BY <1>2
  <2>2. all[i] = before[i] /\ all[m + j] = entries[j]
    BY <1>2
  <2> QED BY <1>4, <2>1, <2>2
<1> QED BY <1>3, <1>5, <1>6 DEF IsInjective, ToSet

(* A page has come, and items with it.                                     *)
Turned(entries, fresh) ==
  /\ entries \in Seq(Coming(current)) /\ fresh \in Seq(Playables)
  /\ current' = current /\ page' = page \o entries
  /\ ToSet(queue') = ToSet(queue) \cup ContainerIds(ToSet(entries))
  /\ seen' = seen \o fresh /\ ToSet(fresh) = ItemIds(ToSet(entries))
  /\ IsInjective(entries) /\ (\A a, b \in ToSet(entries) : a.id = b.id => a = b)
       => IsInjective(fresh)

LEMMA ComingGoes ==
  ASSUME IndexBuilt(lib), NEW id, NEW n, Held(id, n), NEW r \in Coming(id)
  PROVE  /\ r.tag = "container" => r.id \in Openables
         /\ r.tag = "item" => r.id \in Playables
<1>1. Told(r, id)
  BY ComingTold
<1>2. ASSUME r.tag = "container" PROVE r.id \in Openables
  <2>1. Held(r.id, r.childCount)
    BY <1>1, <1>2 DEF Told
  <2> QED BY <2>1, HeldIs DEF Openables
<1>3. ASSUME r.tag = "item" PROVE r.id \in Playables
  <2>1. PICK item \in Items : Offers(r, item)
    BY <1>1, <1>3 DEF Told
  <2>2. Holding(r.id, item)
    BY <2>1, SMTT(30) DEF Offers
  <2> QED BY <2>2, HoldingIs DEF Playables
<1> QED BY <1>2, <1>3

LEMMA ReceiveTurns ==
  ASSUME Tour, NEW n, Held(current, n), NEW response, Paged(response, current, Len(page), n),
         Receive(response), UNCHANGED current
  PROVE  \E entries, fresh : Turned(entries, fresh)
<1>1. PICK id, X, entries, all, start :
        /\ id = current /\ X = Coming(id) /\ entries = response.body.Result
        /\ all = page \o entries /\ start = Len(page)
  OBVIOUS
<1>2. entries \in Seq(X)
  BY <1>1 DEF Paged
<1>3. PICK boxes, tracks : /\ boxes = {e \in ToSet(entries) : e.tag = "container"}
                           /\ tracks = {e \in ToSet(entries) : e.tag = "item"}
  OBVIOUS
<1>4. PICK opened, items : opened = Only(entries, boxes) /\ items = Only(entries, tracks)
  OBVIOUS
<1>5. /\ opened \in Seq(X \cap boxes) /\ ToSet(opened) = boxes
      /\ items \in Seq(X \cap tracks) /\ ToSet(items) = tracks
      /\ IsInjective(entries) => IsInjective(items)
  <2>1. ToSet(entries) \cap boxes = boxes /\ ToSet(entries) \cap tracks = tracks
    BY <1>3
  <2>2. opened \in Seq(X \cap boxes) /\ ToSet(opened) = boxes
    BY <1>2, <1>4, <2>1, OnlyCollects
  <2>3. items \in Seq(X \cap tracks) /\ ToSet(items) = tracks
    BY <1>2, <1>4, <2>1, OnlyCollects
  <2>4. IsInjective(entries) => IsInjective(items)
    BY <1>2, <1>4, OnlyCollects
  <2> QED BY <2>2, <2>3, <2>4
<1>6. PICK line, fresh : /\ line = [i \in DOMAIN opened |-> opened[i].id]
                         /\ fresh = [i \in DOMAIN items |-> items[i].id]
  OBVIOUS
<1>7. queue' = queue \o line /\ seen' = seen \o fresh /\ page' = page \o entries
  BY <1>1, <1>3, <1>4, <1>6 DEF Receive
<1>8. /\ \A r \in X \cap boxes : r.id \in Openables
      /\ \A r \in X \cap tracks : r.id \in Playables
  <2>1. Held(id, n) /\ IndexBuilt(lib)
    BY <1>1, StandsBuilt DEF Tour
  <2> QED BY <1>1, <1>3, <2>1, ComingGoes
<1>9. line \in Seq(Openables) /\ fresh \in Seq(Playables)
  <2>1. line \in Seq(Openables)
    BY <1>5, <1>6, <1>8, MappedIds
  <2>2. fresh \in Seq(Playables)
    BY <1>5, <1>6, <1>8, MappedIds
  <2> QED BY <2>1, <2>2
<1>10. ToSet(line) = ContainerIds(ToSet(entries)) /\ ToSet(fresh) = ItemIds(ToSet(entries))
  <2>1. ToSet(line) = {x.id : x \in boxes}
    BY <1>5, <1>6, MappedAll
  <2>2. ToSet(fresh) = {x.id : x \in tracks}
    BY <1>5, <1>6, MappedAll
  <2> QED BY <1>3, <2>1, <2>2 DEF ContainerIds, ItemIds
<1>11. ToSet(queue') = ToSet(queue) \cup ContainerIds(ToSet(entries))
  BY <1>7, <1>9, <1>10, ToSetConcat DEF Tour
<1>12. ASSUME IsInjective(entries), \A a, b \in ToSet(entries) : a.id = b.id => a = b
       PROVE  IsInjective(fresh)
  <2>1. IsInjective(items) /\ ToSet(items) \subseteq ToSet(entries)
    BY <1>3, <1>5, <1>12
  <2> QED BY <1>5, <1>6, <1>12, <2>1, MappedOnce
<1>13. current' = current /\ entries \in Seq(Coming(current))
  BY <1>1, <1>2
<1>14. Turned(entries, fresh)
  BY <1>7, <1>9, <1>10, <1>11, <1>12, <1>13 DEF Turned
<1> QED BY <1>14

LEMMA BrowseTurns ==
  ASSUME Tour, Browse
  PROVE  \E entries, fresh : Turned(entries, fresh)
<1>1. phase = "walk" /\ ~Complete /\ Len(page) <= MaxUsize
  BY DEF Browse
<1>2. current # None /\ Paging
  BY <1>1 DEF Tour, Complete
<1>3. PICK id, start, number : id = current /\ start = Len(page) /\ number = count
  OBVIOUS
<1>4. IndexBuilt(lib) /\ number \in 0 .. MaxUsize
  BY <1>3, StandsBuilt, PagesAssumption DEF Tour
<1>5. PICK n : Held(id, n) /\ start \in Nat /\ start <= n
  BY <1>2, <1>3, WalkedSoFar
<1>5a. start \in 0 .. MaxUsize
  BY <1>1, <1>3, <1>5, UsizeAssumption
<1>6. n \in Nat
  BY <1>4, <1>5, HeldLists
<1>7. PICK response \in handle(browse_request(current, "BrowseDirectChildren", Len(page), count)) :
        IF response.status = 200 THEN Receive(response) /\ UNCHANGED current
        ELSE /\ passed' = FALSE /\ current' = None
             /\ UNCHANGED <<page, total, queue, expected, seen>>
  BY DEF Browse
<1>8. response \in handle(browse_request(id, "BrowseDirectChildren", start, number))
  BY <1>3, <1>7
<1>9. Paged(response, id, start, n)
  BY <1>4, <1>5, <1>5a, <1>8, BrowseLists
<1>10. Receive(response) /\ UNCHANGED current
  BY <1>7, <1>9 DEF Paged
<1>11. Held(current, n) /\ Paged(response, current, Len(page), n)
  BY <1>3, <1>5, <1>9
<1> QED BY <1>10, <1>11, ReceiveTurns

LEMMA RootNoItems ==
  ASSUME IndexBuilt(lib)
  PROVE  ItemIds(Coming(Root)) = {}
<1> SUFFICES ASSUME NEW x \in ItemIds(Coming(Root)) PROVE FALSE
  OBVIOUS
<1>1. PICK r \in Coming(Root) : r.tag = "item"
  BY DEF ItemIds
<1>2. PICK m \in DOMAIN Views : \E n : /\ Opens(Views[m], Root, n)
        /\ r = Row(prefixed(Views[m].view, Root), Views[m].title, n, Root)
  BY RootComing
<1>3. r.tag = "container"
  BY <1>2 DEF Row
<1> QED BY <1>1, <1>3

(* Of a container that is listed alike each time an item comes once.       *)
LEMMA TurnedOnce ==
  ASSUME Tour, InStep, Browse, NEW entries, NEW fresh, Turned(entries, fresh), current \in Steady
  PROVE  IsInjective(fresh) /\ ItemIds(ToSet(page)) \cap ToSet(fresh) = {}
<1>1. PICK id, before, X : id = current /\ before = page /\ X = Coming(id)
  OBVIOUS
<1>2. current # None /\ IndexBuilt(lib)
  BY StandsBuilt, HeldIs DEF Steady, Openables, Tour
<1>3. before \in Seq(X) /\ entries \in Seq(X)
  BY <1>1, <1>2 DEF Tour, Paging, Turned
<1>4. CASE id = Root
  <2>1. ToSet(entries) \subseteq X
    BY <1>3, ToSetIn
  <2>2. ItemIds(ToSet(entries)) \subseteq ItemIds(X)
    BY <2>1 DEF ItemIds
  <2>3. ToSet(fresh) = {}
    BY <1>1, <1>2, <1>4, <2>2, RootNoItems DEF Turned
  <2> QED BY <2>3 DEF ToSet, IsInjective
<1>5. CASE id # Root
  <2>1. PageOnce'
    BY BrowseTours, BrowseInStep, PagedOnceNext
  <2>2. current' = id /\ Steady' = Steady
    <3>1. UNCHANGED <<lib, disk>>
      BY DEF Browse
    <3> QED BY <1>1, <3>1, RowsStay DEF Turned
  <2>3. Distinct(page')
    BY <1>1, <1>5, <2>1, <2>2 DEF PageOnce
  <2>4. page' = before \o entries
    BY <1>1 DEF Turned
  <2>5. Distinct(before \o entries)
    BY <2>3, <2>4
  <2>6. /\ IsInjective(entries) /\ (\A a, b \in ToSet(entries) : a.id = b.id => a = b)
        /\ \A a \in ToSet(before), b \in ToSet(entries) : a.id # b.id
    BY <1>3, <2>5, PageJoins
  <2>7. IsInjective(fresh) /\ ToSet(fresh) = ItemIds(ToSet(entries))
    BY <2>6 DEF Turned
  <2>8. ItemIds(ToSet(before)) \cap ItemIds(ToSet(entries)) = {}
    BY <2>6 DEF ItemIds
  <2> QED BY <1>1, <2>7, <2>8
<1> QED BY <1>4, <1>5

LEMMA HarvestBrowses ==
  ASSUME Tour, InStep, Harvest, Browse
  PROVE  Harvest'
<1>1. phase = "walk" /\ ~Complete /\ UNCHANGED <<lib, disk, phase, visited>>
  BY DEF Browse
<1>2. PICK entries, fresh : Turned(entries, fresh)
  BY BrowseTurns
<1>3. PICK come, steady, opened, here, before, shown, said, waiting, new :
        /\ come = Rows /\ steady = Steady /\ opened = visited /\ here = current
        /\ before = page /\ shown = ToSet(page) /\ said = seen /\ waiting = ToSet(queue)
        /\ new = ToSet(entries)
  OBVIOUS
<1>4. here \in opened /\ opened \subseteq Openables /\ before \in Seq(Coming(here))
  BY <1>1, <1>3 DEF Tour, Paging, Complete
<1>5. Rows' = come /\ Steady' = steady
  BY <1>1, <1>3, RowsStay
<1>6. entries \in Seq(Coming(here))
  BY <1>2, <1>3 DEF Turned
<1>7. new \subseteq come[here]
  <2>1. new \subseteq Coming(here)
    BY <1>3, <1>6, ToSetIn
  <2> QED BY <1>3, <1>4, <2>1 DEF Rows
<1>8. /\ said \in Seq(Playables) /\ fresh \in Seq(Playables) /\ ToSet(fresh) = ItemIds(new)
  BY <1>2, <1>3 DEF Turned, Tour
<1>9. /\ page' = before \o entries /\ current' = here /\ seen' = said \o fresh
      /\ ToSet(queue') = waiting \cup ContainerIds(new)
  BY <1>2, <1>3 DEF Turned
<1>10. ToSet(page') = shown \cup new
  <2>1. ToSet(before \o entries) = ToSet(before) \cup ToSet(entries)
    BY <1>4, <1>6, ToSetConcat
  <2> QED BY <1>3, <1>9, <2>1
<1>11. ToSet(seen') = ToSet(said) \cup ItemIds(new)
  <2>1. ToSet(said \o fresh) = ToSet(said) \cup ToSet(fresh)
    BY <1>8, ToSetConcat
  <2> QED BY <1>8, <1>9, <2>1
<1>12. /\ NothingLeft(come, steady, opened, waiting, here, shown, ToSet(said))
       /\ NothingElse(come, opened, waiting, ToSet(said))
       /\ NothingTwice(come, steady, opened, here, shown, said)
  BY <1>3 DEF Harvest
<1>13. here \in steady => IsInjective(fresh) /\ ItemIds(shown) \cap ToSet(fresh) = {}
  BY <1>2, <1>3, TurnedOnce
<1>14. NothingLeft(come, steady, opened, waiting \cup ContainerIds(new), here,
                   shown \cup new, ToSet(said) \cup ItemIds(new))
  BY <1>12, LeftListing
<1>15. NothingElse(come, opened, waiting \cup ContainerIds(new), ToSet(said) \cup ItemIds(new))
  BY <1>4, <1>7, <1>12, ElseListing
<1>16. NothingTwice(come, steady, opened, here, shown \cup new, said \o fresh)
  BY <1>4, <1>7, <1>8, <1>12, <1>13, TwiceListing
<1>17. visited' = opened /\ phase' = "walk"
  BY <1>1, <1>3
<1> QED BY <1>5, <1>9, <1>10, <1>11, <1>14, <1>15, <1>16, <1>17 DEF Harvest

LEMMA HarvestStays ==
  ASSUME Harvest, UNCHANGED <<lib, disk, queue, visited, current, page, seen>>,
         phase' = "walk" \/ queue = <<>>
  PROVE  Harvest'
<1>1. Rows' = Rows /\ Steady' = Steady
  BY RowsStay
<1> QED BY <1>1 DEF Harvest

LEMMA HarvestContinues == Tour /\ InStep /\ Harvest /\ [Next]_vars => Harvest'
<1> SUFFICES ASSUME Tour, InStep, Harvest, [Next]_vars PROVE Harvest'
  OBVIOUS
<1>1. CASE Open
  BY <1>1, HarvestOpens
<1>2. CASE Browse
  BY <1>2, HarvestBrowses
<1>3. CASE EndWalk
  BY <1>3, HarvestStays DEF EndWalk
<1>4. CASE check_fault_701
  <2>1. queue = <<>>
    BY <1>4 DEF check_fault_701, Harvest
  <2> QED BY <1>4, <2>1, HarvestStays DEF check_fault_701
<1>5. CASE check_playback
  <2>1. queue = <<>>
    BY <1>5 DEF check_playback, Harvest
  <2> QED BY <1>5, <2>1, HarvestStays DEF check_playback
<1>6. ASSUME NEW question \in Questions, NEW style \in Styles, Ask(question, style) PROVE Harvest'
  <2>1. queue = <<>>
    BY <1>6 DEF Ask, Harvest
  <2> QED BY <1>6, <2>1, HarvestStays DEF Ask
<1>7. CASE UNCHANGED vars
  <2>1. phase' = "walk" \/ queue = <<>>
    BY <1>7 DEF vars, Harvest
  <2> QED BY <1>7, <2>1, HarvestStays DEF vars
<1> QED BY <1>1, <1>2, <1>3, <1>4, <1>5, <1>6, <1>7 DEF Next

LEMMA HarvestAlways == Spec => []Harvest
  BY TourAlways, InStepAlways, HarvestBegins, HarvestContinues, PTL DEF Spec

-----------------------------------------------------------------------------
(* At the end of the walk.                                                 *)

(* All that comes of containers listed alike each time has been come by.   *)
Through ==
  /\ Root \in visited /\ visited \subseteq Openables
  /\ \A id \in visited : ListedAlike(id) =>
       ContainerIds(Coming(id)) \subseteq visited /\ ItemIds(Coming(id)) \subseteq ToSet(seen)

LEMMA WalkThrough ==
  ASSUME Tour, InStep, Harvest, phase = "fault"
  PROVE  Through
<1>1. queue = <<>> /\ Complete /\ visited \subseteq Openables
  BY DEF Tour, Harvest
<1>2. ToSet(queue) = {}
  BY <1>1 DEF ToSet
<1>3. PICK heard, shown : heard = ToSet(seen) /\ shown = ToSet(page)
  OBVIOUS
<1>4. NothingLeft(Rows, Steady, visited, {}, current, shown, heard)
  BY <1>2, <1>3 DEF Harvest
<1>5. ASSUME NEW id \in visited, ListedAlike(id)
      PROVE  ContainerIds(Coming(id)) \subseteq visited /\ ItemIds(Coming(id)) \subseteq heard
  <2>1. id \in visited \cap Steady /\ Rows[id] = Coming(id)
    BY <1>1, <1>5 DEF Steady, Rows
  <2>2. Kept(Rows[id], visited, {}, heard)
    <3>1. CASE id = current
      <4>1. Rows[id] \subseteq shown
        BY <1>1, <1>3, <2>1, <3>1, PageWhole
      <4>2. Kept(shown, visited, {}, heard)
        BY <1>4 DEF NothingLeft
      <4> QED BY <4>1, <4>2 DEF Kept, ContainerIds, ItemIds
    <3>2. CASE id # current
      BY <1>4, <2>1, <3>2 DEF NothingLeft
    <3> QED BY <3>1, <3>2
  <2> QED BY <2>1, <2>2 DEF Kept
<1>6. Root \in visited
  BY <1>4 DEF NothingLeft
<1> QED BY <1>1, <1>3, <1>5, <1>6 DEF Through

(* What every listing of such a container has, has been come by.           *)
LEMMA ReachedFrom ==
  ASSUME IndexBuilt(lib), Through, NEW m \in DOMAIN Views, NEW local \in LocalIds, NEW id,
         id = prefixed(Views[m].view, local), id \in visited, ListedAlike(id),
         NEW child, InEvery(Views[m], local, child)
  PROVE  IF child \in Items THEN prefixed(Views[m].view, child) \in ToSet(seen)
         ELSE prefixed(Views[m].view, child) \in visited
<1>1. PICK n : Held(id, n)
  BY DEF Through, Openables
<1>2. PICK x : x = prefixed(Views[m].view, child)
  OBVIOUS
<1>3. IF child \in Items THEN x \in ItemIds(Coming(id)) ELSE x \in ContainerIds(Coming(id))
  BY <1>1, <1>2, ComesOf
<1> QED BY <1>2, <1>3 DEF Through

LEMMA ViewReached ==
  ASSUME IndexBuilt(lib), Through, NEW m \in DOMAIN Views
  PROVE  prefixed(Views[m].view, Root) \in visited
  BY RootsCome DEF Through

(* Folders: folder by folder, from the root on.                            *)
LEMMA FoldersReached ==
  ASSUME IndexBuilt(lib), Through, NEW m \in DOMAIN Views, Views[m].view = "folders",
         NEW item \in Items
  PROVE  prefixed(Views[m].view, item) \in ToSet(seen)
<1>1. PICK v : v = Views[m].view
  OBVIOUS
<1>2. PICK D : D = {c \in Containers : prefixed(v, c) \in visited}
  OBVIOUS
<1>3. ASSUME NEW c \in D, NEW child \in Containers \cup Items, ChildOf(child, c)
      PROVE  IF child \in Items THEN prefixed(v, child) \in ToSet(seen)
             ELSE prefixed(v, child) \in visited
  <2>1. PICK id : id = prefixed(v, c)
    OBVIOUS
  <2>2. c \in Containers /\ id \in visited /\ c \in LocalIds
    BY <1>2, <2>1, IdsLocal
  <2>3. Sole(Views[m], c) /\ InEvery(Views[m], c, child)
    BY <1>3, <2>2, FolderBrings
  <2>4. ListedAlike(id)
    BY <1>1, <2>1, <2>2, <2>3, SoleAlike
  <2> QED BY <1>1, <2>1, <2>2, <2>3, <2>4, ReachedFrom
<1>4. Root \in D
  <2>1. Root \in Containers
    BY FoldersAre
  <2> QED BY <1>1, <1>2, <2>1, ViewReached
<1>5. Closed(D)
  <2> SUFFICES ASSUME NEW c \in Containers \ {Root}, lib.containers[c].parent \in D PROVE c \in D
    BY DEF Closed
  <2>1. PICK up : up = lib.containers[c].parent
    OBVIOUS
  <2>2. ChildOf(c, up) /\ c \notin Items
    BY <2>1, FoldersAre DEF ChildOf
  <2>3. prefixed(v, c) \in visited
    BY <1>3, <2>1, <2>2
  <2> QED BY <1>2, <2>3
<1>6. Containers \subseteq D
  <2>1. D \in SUBSET Containers /\ Root \in Containers
    BY <1>2, <1>4
  <2>2. Inside(Root) \subseteq D
    BY <1>4, <1>5, <2>1, InsideLeast
  <2> QED BY <2>2, InsideRoot
<1>7. PICK home : home = lib.items[item].parent
  OBVIOUS
<1>8. home \in Containers /\ ChildOf(item, home)
  BY <1>7, ItemsAre DEF ChildOf
<1> QED BY <1>1, <1>3, <1>6, <1>8

(* All songs: from the top.                                                *)
LEMMA SongsReached ==
  ASSUME IndexBuilt(lib), Through, NEW m \in DOMAIN Views, Views[m].view = "songs",
         NEW item \in Items
  PROVE  prefixed(Views[m].view, item) \in ToSet(seen)
<1>1. PICK id : id = prefixed(Views[m].view, Root)
  OBVIOUS
<1>2. Root \in LocalIds /\ ModeIs(Views[m])
  BY RootLocal, MountsAre
<1>3. Sole(Views[m], Root) /\ InEvery(Views[m], Root, item)
  BY <1>2, SongsBring
<1>4. ListedAlike(id) /\ id \in visited
  BY <1>1, <1>2, <1>3, SoleAlike, ViewReached
<1> QED BY <1>1, <1>2, <1>3, <1>4, ReachedFrom

(* An album's tracks, once the album is reached.                           *)
LEMMA TracksReached ==
  ASSUME IndexBuilt(lib), Through, NEW m \in DOMAIN Views, Views[m].view \in AlbumViews,
         NEW item \in Items, NEW album, album = lib.items[item].parent, NoArtist(Views[m], album),
         prefixed(Views[m].view, album) \in visited
  PROVE  prefixed(Views[m].view, item) \in ToSet(seen)
<1>1. PICK id : id = prefixed(Views[m].view, album)
  OBVIOUS
<1>2. album \in Snapshot.album_ids /\ album \in LocalIds
  BY ItemsAlbum, ItemsAre, IdsLocal
<1>3. Sole(Views[m], album) /\ InEvery(Views[m], album, item)
  BY <1>2, AlbumBrings
<1>4. ListedAlike(id)
  BY <1>1, <1>2, <1>3, SoleAlike
<1> QED BY <1>1, <1>2, <1>3, <1>4, ReachedFrom

(* Nothing ties in what a walk has looked into of a view.                  *)
UntiedIn(view) == \A id \in visited : Mount(id) = view => Untied(id)

LEMMA InOrderAt ==
  ASSUME IndexBuilt(lib), Through, NEW m \in DOMAIN Views, UntiedIn(Views[m].view),
         NEW local \in LocalIds, NEW id, id = prefixed(Views[m].view, local), id \in visited
  PROVE  ListedAlike(id)
<1>1. PICK v : v = Views[m].view
  OBVIOUS
<1>2. local \in Seq(IdTokens)
  BY LocalIdsAre
<1>3. Mount(id) = v
  BY <1>1, <1>2, LocalIs
<1>4. Untied(id)
  BY <1>1, <1>3 DEF UntiedIn
<1>5. PICK n : Held(id, n)
  BY DEF Through, Openables
<1> QED BY <1>4, <1>5, UntiedAlike

LEMMA AlbumsReached ==
  ASSUME IndexBuilt(lib), Through, NEW m \in DOMAIN Views, Views[m].view = "albums",
         UntiedIn(Views[m].view), NEW item \in Items
  PROVE  prefixed(Views[m].view, item) \in ToSet(seen)
<1>1. PICK id, album : id = prefixed(Views[m].view, Root) /\ album = lib.items[item].parent
  OBVIOUS
<1>2. Root \in LocalIds /\ ModeIs(Views[m]) /\ id \in visited
  BY <1>1, RootLocal, MountsAre, ViewReached
<1>3. ListedAlike(id)
  BY <1>1, <1>2, InOrderAt
<1>4. album \in Snapshot.album_ids /\ album \notin Items
  BY <1>1, ItemsAlbum, ItemsAre, FoldersAre
<1>5. InEvery(Views[m], Root, album)
  BY <1>2, <1>4, AlbumsBring
<1>6. prefixed(Views[m].view, album) \in visited
  BY <1>1, <1>2, <1>3, <1>4, <1>5, ReachedFrom
<1>7. NoArtist(Views[m], album) /\ Views[m].view \in AlbumViews
  BY DEF NoArtist, AlbumViews
<1> QED BY <1>1, <1>6, <1>7, TracksReached

(* Artists: from the artist an album goes under.                           *)
LEMMA ArtistsReached ==
  ASSUME IndexBuilt(lib), Through, NEW m \in DOMAIN Views, Views[m].view = "artists",
         UntiedIn(Views[m].view), NEW item \in Items, NEW album, album = lib.items[item].parent,
         Fact(Snapshot, album).artist.key # None, \A a \in Snapshot.artists : a.id # album
  PROVE  prefixed(Views[m].view, item) \in ToSet(seen)
<1>1. PICK id : id = prefixed(Views[m].view, Root)
  OBVIOUS
<1>2. Root \in LocalIds /\ ModeIs(Views[m]) /\ id \in visited
  BY <1>1, RootLocal, MountsAre, ViewReached
<1>3. ListedAlike(id)
  BY <1>1, <1>2, InOrderAt
<1>4. album \in Snapshot.album_ids /\ album \notin Items
  BY ItemsAlbum, ItemsAre, FoldersAre
<1>5. PICK artist \in Snapshot.artists : album \in artist.albums
  BY <1>4, AlbumFiled
<1>6. PICK local, below : local = artist.id /\ below = prefixed(Views[m].view, local)
  OBVIOUS
<1>7. local \in LocalIds /\ local \notin Items
  <2>1. PICK e : e = artist_container(artist)
    OBVIOUS
  <2>2. EntryAt(e, None) /\ e.id = local /\ e.path = None
    BY <1>6, <2>1, ArtistEntry
  <2> QED BY <2>2 DEF EntryAt, ListsItem
<1>8. InEvery(Views[m], Root, local) /\ InEvery(Views[m], local, album)
  BY <1>5, <1>6, ArtistsBring, ArtistBrings
<1>9. below \in visited
  BY <1>1, <1>2, <1>3, <1>6, <1>7, <1>8, ReachedFrom
<1>10. ListedAlike(below)
  BY <1>6, <1>7, <1>9, InOrderAt
<1>11. prefixed(Views[m].view, album) \in visited
  BY <1>4, <1>6, <1>7, <1>8, <1>9, <1>10, ReachedFrom
<1>12. NoArtist(Views[m], album) /\ Views[m].view \in AlbumViews
  BY DEF NoArtist, AlbumViews
<1> QED BY <1>11, <1>12, TracksReached

(* The views that list every track, or what is under an artist.            *)
WholeViews == {"folders", "songs", "albums", "artists"}

(* An item is in a container of such a view that is listed alike.          *)
LEMMA HomeAlike ==
  ASSUME IndexBuilt(lib), NEW m \in DOMAIN Views, Views[m].view \in WholeViews,
         NEW item \in Items, NEW x, NEW id, FromHome(x, id, m, item)
  PROVE  ListedAlike(id)
<1>1. PICK local : local = HomeIn(Views[m], item)
  OBVIOUS
<1>2. local \in LocalIds /\ id = prefixed(Views[m].view, local) /\ AlbumAlone(Views[m], local)
  BY <1>1 DEF FromHome
<1>3. Sole(Views[m], local)
  <2>1. CASE Views[m].view = "songs"
    <3>1. local = Root
      BY <1>1, <2>1 DEF HomeIn
    <3> QED BY <2>1, <3>1, MountsAre, SongsBring
  <2>2. CASE Views[m].view # "songs"
    <3>1. local = lib.items[item].parent
      BY <1>1, <2>2 DEF HomeIn, WholeViews
    <3>2. CASE Views[m].view = "folders"
      BY <3>1, <3>2, ItemsAre, FolderBrings
    <3>3. CASE Views[m].view # "folders"
      <4>1. Views[m].view \in AlbumViews
        BY <2>2, <3>3 DEF WholeViews, AlbumViews
      <4>2. local \in Snapshot.album_ids /\ NoArtist(Views[m], local)
        BY <1>2, <3>1, ItemsAlbum DEF AlbumAlone, NoArtist
      <4> QED BY <4>1, <4>2, AlbumBrings
    <3> QED BY <3>2, <3>3
  <2> QED BY <2>1, <2>2
<1> QED BY <1>2, <1>3, SoleAlike

(* So it has been heard of once.                                           *)
LEMMA HeardOnce ==
  ASSUME Tour, Harvest, NEW m \in DOMAIN Views, Views[m].view \in WholeViews,
         NEW item \in Items, NEW x, x = prefixed(Views[m].view, item), x \in ToSet(seen)
  PROVE  Cardinality({i \in DOMAIN seen : seen[i] = x}) = 1
<1>1. PICK said, v : said = seen /\ v = Views[m].view
  OBVIOUS
<1>2. IndexBuilt(lib) /\ visited \subseteq Openables
  BY StandsBuilt DEF Tour
<1>3. FromSteady(Rows, Steady, visited, x)
  <2> SUFFICES ASSUME NEW id \in visited, x \in ItemIds(Rows[id]) PROVE id \in Steady
    BY DEF FromSteady
  <2>1. id \in Openables /\ Rows[id] = Coming(id)
    BY <1>2 DEF Rows
  <2>2. PICK n : Held(id, n)
    BY <2>1 DEF Openables
  <2>3. PICK k \in DOMAIN Views, other \in Items : FromHome(x, id, k, other)
    BY <1>2, <2>1, <2>2, ItemFrom
  <2>4. Views[k] = Views[m]
    <3>1. PICK w : w = Views[k].view
      OBVIOUS
    <3>2. item \in Seq(IdTokens) /\ other \in Seq(IdTokens)
      BY <1>2, IdsLocal, LocalIdsAre
    <3>3. x = prefixed(v, item) /\ x = prefixed(w, other)
      BY <1>1, <2>3, <3>1 DEF FromHome
    <3>4. Mount(x) = v
      BY <3>2, <3>3, LocalIs
    <3>5. Mount(x) = w
      BY <3>2, <3>3, LocalIs
    <3> QED BY <1>1, <3>1, <3>4, <3>5, ViewsAssumption
  <2>5. ListedAlike(id)
    BY <1>2, <2>3, <2>4, HomeAlike
  <2> QED BY <2>1, <2>5 DEF Steady
<1>4. DOMAIN said = 1 .. Len(said)
  BY <1>1, LenProperties DEF Tour
<1>5. \A i, j \in DOMAIN said : said[i] = x /\ said[j] = x => i = j
  BY <1>1, <1>3, <1>4 DEF Harvest, NothingTwice
<1>6. PICK i \in DOMAIN said : said[i] = x
  BY <1>1 DEF ToSet
<1>7. {j \in DOMAIN said : said[j] = x} = {i}
  BY <1>5, <1>6
<1> QED BY <1>1, <1>7, FS_Singleton

(* What Artists comes by is under an artist, and none itself.              *)
LEMMA UnderArtist ==
  ASSUME Tour, Harvest, queue = <<>>, NEW m \in DOMAIN Views, Views[m].view = "artists",
         NEW item \in Items, NEW x, x = prefixed(Views[m].view, item), x \in ToSet(seen),
         NEW album, album = lib.items[item].parent
  PROVE  Fact(Snapshot, album).artist.key # None /\ \A a \in Snapshot.artists : a.id # album
<1>1. PICK v, w : v = Views[m].view /\ w = "artists"
  OBVIOUS
<1>2. IndexBuilt(lib) /\ visited \subseteq Openables
  BY StandsBuilt DEF Tour
<1>3. /\ \A id \in visited : id = Root \/ \E up \in visited : id \in ContainerIds(Rows[up])
      /\ \E id \in visited : x \in ItemIds(Rows[id])
  <2>1. ToSet(queue) = {}
    BY DEF ToSet
  <2> QED BY <2>1 DEF Harvest, NothingElse
<1>4. \A id \in visited : id \in Openables /\ Rows[id] = Coming(id)
  BY <1>2 DEF Rows
<1>5. PICK id \in visited : x \in ItemIds(Coming(id))
  BY <1>3, <1>4
<1>6. PICK k \in DOMAIN Views, other \in Items : FromHome(x, id, k, other)
  <2>1. PICK n : Held(id, n)
    BY <1>4 DEF Openables
  <2> QED BY <1>2, <1>5, <2>1, ItemFrom
<1>7. other = item /\ Views[k] = Views[m]
  <2>1. PICK u : u = Views[k].view
    OBVIOUS
  <2>2. item \in Seq(IdTokens) /\ other \in Seq(IdTokens)
    BY <1>2, IdsLocal, LocalIdsAre
  <2>3. x = prefixed(v, item) /\ x = prefixed(u, other)
    BY <1>1, <1>6, <2>1 DEF FromHome
  <2>4. Local(x) = item /\ Mount(x) = v
    BY <2>2, <2>3, LocalIs
  <2>5. Local(x) = other /\ Mount(x) = u
    BY <2>2, <2>3, LocalIs
  <2> QED BY <1>1, <2>1, <2>4, <2>5, ViewsAssumption
<1>8. id = prefixed(v, album) /\ album \in Snapshot.album_ids /\ NoArtist(Views[m], album)
  BY <1>1, <1>6, <1>7 DEF FromHome, HomeIn, AlbumAlone
<1>9. album \in LocalIds /\ album # Root
  BY <1>2, <1>8, SnapshotTyped, IdsLocal
<1>10. album \in Seq(IdTokens)
  BY <1>9, LocalIdsAre
<1>11. Local(id) = album /\ Mount(id) = v
  BY <1>8, <1>10, LocalIs
<1>12. PICK up \in visited : id \in ContainerIds(Coming(up))
  <2>1. id # Root
    BY <1>1, <1>8, <1>9, PrefixedApart
  <2> QED BY <1>3, <1>4, <2>1
<1>13. PICK r \in Coming(up) : r.id = id
  BY <1>12 DEF ContainerIds
<1>14. PICK n : Held(up, n)
  BY <1>4 DEF Openables
<1>15. CASE up = Root
  <2>1. PICK j \in DOMAIN Views : \E size : /\ Opens(Views[j], Root, size)
          /\ r = Row(prefixed(Views[j].view, Root), Views[j].title, size, Root)
    BY <1>2, <1>13, <1>15, RootComing
  <2>2. PICK u : u = Views[j].view
    OBVIOUS
  <2>3. id = prefixed(u, Root)
    BY <1>13, <2>1, <2>2 DEF Row
  <2>4. Root \in Seq(IdTokens)
    BY <1>2, RootLocal, LocalIdsAre
  <2>5. Local(id) = Root
    BY <2>3, <2>4, LocalIs
  <2> QED BY <1>9, <1>11, <2>5
<1>16. CASE up # Root
  <2>1. PICK j \in DOMAIN Views, local \in LocalIds :
          up = prefixed(Views[j].view, local) /\ Opens(Views[j], local, n)
    BY <1>14, <1>16 DEF Held
  <2>2. PICK l \in Children(Views[j], local) : \E h \in 1 .. Len(l) : RowOf(r, Views[j].view, l[h])
    BY <1>2, <1>13, <2>1, RowIs
  <2>3. PICK h \in 1 .. Len(l) : RowOf(r, Views[j].view, l[h])
    BY <2>2
  <2>4. PICK u, child : u = Views[j].view /\ child = l[h].id
    OBVIOUS
  <2>5. id = prefixed(u, child) /\ child \in LocalIds
    BY <1>13, <2>3, <2>4 DEF RowOf
  <2>6. child \in Seq(IdTokens)
    BY <2>5, LocalIdsAre
  <2>7. Local(id) = child /\ Mount(id) = u
    BY <2>5, <2>6, LocalIs
  <2>8. album = child /\ Views[j] = Views[m]
    BY <1>1, <1>11, <2>4, <2>7, ViewsAssumption
  <2>9. ModeIs(Views[j]) /\ Views[j].view = "artists" /\ NoArtist(Views[j], album)
    BY <1>8, <2>8, MountsAre
  <2>10. Fact(Snapshot, album).artist.key # None
    BY <1>2, <1>8, <2>4, <2>8, <2>9, AlbumHasArtist
  <2>11. \A a \in Snapshot.artists : a.id # album
    BY <2>9 DEF NoArtist
  <2> QED BY <2>10, <2>11
<1> QED BY <1>15, <1>16

LEMMA NeverHeard ==
  ASSUME NEW x, x \notin ToSet(seen)
  PROVE  Cardinality({i \in DOMAIN seen : seen[i] = x}) = 0
<1>1. {i \in DOMAIN seen : seen[i] = x} = {}
  BY DEF ToSet
<1> QED BY <1>1, FS_EmptySet

(* The view an item is listed in, by its name.                             *)
LEMMA HeardIn ==
  ASSUME Tour, Harvest, NEW m \in DOMAIN Views, Views[m].view \in WholeViews,
         NEW item \in Items, NEW v, v = Views[m].view,
         prefixed(Views[m].view, item) \in ToSet(seen)
  PROVE  Cardinality({i \in DOMAIN seen : seen[i] = prefixed(v, item)}) = 1
  BY HeardOnce

WholeMounted == WholeViews \subseteq {Views[n].view : n \in DOMAIN Views}

LEMMA NothingMissed ==
  ASSUME WholeMounted, Tour, InStep, Harvest
  PROVE  NothingHidden
<1> SUFFICES ASSUME phase = "fault" PROVE NothingHidden
  BY DEF NothingHidden
<1>1. IndexBuilt(lib) /\ Through /\ queue = <<>>
  BY StandsBuilt, WalkThrough DEF Tour, Harvest
<1>2. ASSUME NEW item \in Items, NEW v \in WholeViews, v # "artists",
             v = "albums" => UntiedIn(v)
      PROVE  Cardinality({i \in DOMAIN seen : seen[i] = prefixed(v, item)}) = 1
  <2>1. PICK m \in DOMAIN Views : v = Views[m].view
    BY DEF WholeMounted
  <2>2. CASE v = "folders"
    BY <1>1, <2>1, <2>2, FoldersReached, HeardIn
  <2>3. CASE v = "songs"
    BY <1>1, <2>1, <2>3, SongsReached, HeardIn
  <2>4. CASE v = "albums"
    <3>1. UntiedIn(Views[m].view) /\ Views[m].view = "albums" /\ Views[m].view \in WholeViews
      BY <1>2, <2>1, <2>4
    <3>2. prefixed(Views[m].view, item) \in ToSet(seen)
      BY <1>1, <3>1, AlbumsReached
    <3> QED BY <2>1, <3>1, <3>2, HeardIn
  <2> QED BY <1>2, <2>2, <2>3, <2>4 DEF WholeViews
<1>3. ASSUME NEW item \in Items, NEW album, album = lib.items[item].parent,
             NEW v, v = "artists", UntiedIn(v)
      PROVE  Cardinality({i \in DOMAIN seen : seen[i] = prefixed(v, item)}) =
               IF /\ Fact(Snapshot, album).artist.key # None
                  /\ \A artist \in Snapshot.artists : artist.id # album
               THEN 1 ELSE 0
  <2>1. PICK m \in DOMAIN Views : v = Views[m].view
    BY <1>3 DEF WholeMounted, WholeViews
  <2>2. CASE /\ Fact(Snapshot, album).artist.key # None
             /\ \A artist \in Snapshot.artists : artist.id # album
    <3>1. prefixed(Views[m].view, item) \in ToSet(seen)
      BY <1>1, <1>3, <2>1, <2>2, ArtistsReached
    <3>2. Views[m].view \in WholeViews
      BY <1>3, <2>1 DEF WholeViews
    <3>3. Cardinality({i \in DOMAIN seen : seen[i] = prefixed(v, item)}) = 1
      BY <2>1, <3>1, <3>2, HeardIn
    <3> QED BY <2>2, <3>3
  <2>3. CASE ~ /\ Fact(Snapshot, album).artist.key # None
               /\ \A artist \in Snapshot.artists : artist.id # album
    <3>1. PICK x : x = prefixed(v, item)
      OBVIOUS
    <3>2. x \notin ToSet(seen)
      BY <1>1, <1>3, <2>1, <2>3, <3>1, UnderArtist
    <3>3. Cardinality({i \in DOMAIN seen : seen[i] = x}) = 0
      BY <3>2, NeverHeard
    <3> QED BY <2>3, <3>1, <3>3
  <2> QED BY <2>2, <2>3
<1>4. \A item \in Items : \A v \in {"folders", "songs", "albums"} : (v = "albums" => UntiedIn(v)) =>
        Cardinality({i \in DOMAIN seen : seen[i] = prefixed(v, item)}) = 1
  BY <1>2 DEF WholeViews
<1>5. UntiedIn("artists") => \A item \in Items :
        Cardinality({i \in DOMAIN seen : seen[i] = prefixed("artists", item)}) =
          IF /\ Fact(Snapshot, lib.items[item].parent).artist.key # None
             /\ \A artist \in Snapshot.artists : artist.id # lib.items[item].parent
          THEN 1 ELSE 0
  BY <1>3
<1> QED BY <1>4, <1>5 DEF NothingHidden, UntiedIn

(* No view hides or repeats a track: a walk through the whole tree, in     *)
(* pages of whatever size, comes past each exactly once in Folders and in  *)
(* All songs, and unless something ties in Albums, and in Artists past     *)
(* those whose album has an artist and is none itself (music_library.rs,   *)
(* children and the views; composite.rs; dispatch.rs, paginate).           *)
THEOREM EveryTrackComesBy ==
  ASSUME WholeMounted
  PROVE  Spec => []NothingHidden
<1>1. Tour /\ InStep /\ Harvest => NothingHidden
  BY NothingMissed
<1> QED BY <1>1, TourAlways, InStepAlways, HarvestAlways, PTL

-----------------------------------------------------------------------------
(* In the order meant.                                                     *)

(* A name without a tag beside it is read as what it means.                *)
NamesMean ==
  \A d \in Disks : \A path \in DOMAIN d.files :
    d.files[path].tag = None => parse_track_number(d.files[path].stem) = d.files[path].meant

FileOf(item) == disk.files[lib.items[item].path]

(* Such a file gives the track the title and the number meant              *)
(* (metadata/mod.rs: the name's, where no tag has any).                    *)
LEMMA BareRead ==
  ASSUME NEW d, NEW path, d.files[path].tag = None
  PROVE  /\ metadata(d, path).title = parse_track_number(d.files[path].stem).title
         /\ metadata(d, path).number = parse_track_number(d.files[path].stem).number
<1>1. trim(<<>>) = <<>>
  BY DEF trim
<1> QED BY <1>1 DEF metadata

LEMMA BareScanned ==
  ASSUME NamesMean, Stands, NEW item \in Items, FileOf(item).tag = None
  PROVE  /\ lib.items[item].title = FileOf(item).meant.title
         /\ NumberOf(item) = FileOf(item).meant.number
<1>1. PICK path, file, made : /\ path = disk.placed[item].path /\ file = disk.files[path]
                              /\ made = [id \in DOMAIN disk.placed |->
                                   LET place == disk.placed[id]
                                       read  == metadata(disk, place.path)
                                   IN [parent |-> place.parent, path |-> place.path,
                                       modified |-> disk.files[place.path].modified,
                                       title |-> read.title, number |-> read.number,
                                       artist |-> read.artist, album |-> read.album,
                                       has_art |-> read.has_art]]
  OBVIOUS
<1>2. lib.items = made
  BY <1>1 DEF Stands, Scanned
<1>3. item \in DOMAIN disk.placed /\ lib.items[item].path = path
  BY <1>1, ItemScanned, Zenon
<1>4. /\ made[item].title = metadata(disk, path).title
      /\ made[item].number = metadata(disk, path).number
  BY <1>1, <1>3, SMTT(30)
<1>5. FileOf(item) = file /\ file.tag = None /\ disk.files[path] = file
  BY <1>1, <1>3, Zenon DEF FileOf
<1>6. path \in DOMAIN disk.files /\ disk \in Disks
  BY <1>1, <1>3, StandsBuilt DEF FilesPlaced, Stands
<1>7. parse_track_number(file.stem) = file.meant
  BY <1>5, <1>6 DEF NamesMean
<1>8. /\ metadata(disk, path).title = file.meant.title
      /\ metadata(disk, path).number = file.meant.number
  BY <1>5, <1>7, BareRead
<1> QED BY <1>2, <1>4, <1>5, <1>8 DEF NumberOf

(* These rows are of what comes first of this listing.                     *)
RowsOf(rows, l, v) ==
  \A i \in 1 .. Len(rows) :
    rows[i].id = prefixed(v, l[i].id) /\ rows[i].title = l[i].title /\ i \in 1 .. Len(l)

LEMMA RenderedTitle == ASSUME NEW e PROVE render_one(e).title = e.title
  BY DEF render_one

LEMMA AlbumRows ==
  ASSUME IndexBuilt(lib), NEW m \in DOMAIN Views, Views[m].view \in AlbumViews,
         NEW album \in Snapshot.album_ids, NoArtist(Views[m], album), NEW id,
         id = prefixed(Views[m].view, album), InStep, current = id, page # <<>>, Paging
  PROVE  RowsOf(page, tracks_of_album(album), Views[m].view)
<1>1. PICK v, o, l : v = Views[m].view /\ o = tracks_of_album(album) /\ l = Rewrapped(v, o)
  OBVIOUS
<1>2. album \in LocalIds
  BY SnapshotTyped, FoldersAre, IdsLocal
<1>3. children(id) = {l} /\ Listing(o)
  <2>1. Children(Views[m], album) = {o} /\ Opens(Views[m], album, Len(Tracks(album)))
    BY <1>1, AlbumOpens
  <2>2. children(id) = {Rewrapped(Views[m].view, x) : x \in Children(Views[m], album)}
    BY <1>2, MountChildren
  <2> QED BY <1>1, <2>1, <2>2 DEF Opens, Holds
<1>4. Leads(page, l)
  <2>1. id # None /\ ListedAlike(id)
    BY <1>2, <1>3, PrefixedApart DEF ListedAlike
  <2> QED BY <1>3, <2>1 DEF InStep
<1>5. Len(page) <= Len(o) /\ Len(page) \in Nat /\ Len(o) \in Nat /\ DOMAIN o = 1 .. Len(o)
  <2>1. Held(id, total) /\ Len(page) <= total
    BY DEF Paging
  <2>2. Opens(Views[m], album, total)
    BY <1>2, <2>1, HeldMounted
  <2>3. Len(o) = total
    <3>1. o \in Children(Views[m], album)
      BY <1>1, AlbumOpens
    <3> QED BY <2>2, <3>1 DEF Opens, Holds
  <2>4. Len(page) \in Nat
    BY LenProperties DEF Paging
  <2> QED BY <1>3, <2>1, <2>3, <2>4 DEF Listing
<1>6. ASSUME NEW i \in 1 .. Len(page)
      PROVE  page[i].id = prefixed(v, o[i].id) /\ page[i].title = o[i].title /\ i \in 1 .. Len(o)
  <2>1. i \in 1 .. Len(o)
    BY <1>5
  <2>2. PICK e, row : e = o[i] /\ row = rewrap(v, e)
    OBVIOUS
  <2>3. page[i] = render_one(row)
    <3>1. l[i] = row
      BY <1>1, <1>5, <2>1, <2>2 DEF Rewrapped
    <3> QED BY <1>4, <3>1 DEF Leads
  <2>4. e.id \in Items /\ e = RealEntry(e.id)
    BY <1>1, <2>1, <2>2, AlbumOrdered
  <2>5. PICK item, parent : item = e.id /\ parent = lib.items[item].parent
    OBVIOUS
  <2>6. EntryAt(e, parent)
    BY <2>4, <2>5, TrackEntry
  <2>7. row.id = prefixed(v, e.id) /\ row.title = e.title
    BY <2>2, <2>6, RewrapIs
  <2> QED BY <2>1, <2>2, <2>3, <2>7, RenderedId, RenderedTitle
<1> QED BY <1>1, <1>6 DEF RowsOf

(* What comes of Albums' own top is no track.                              *)
LEMMA AlbumsNoItems ==
  ASSUME IndexBuilt(lib), NEW m \in DOMAIN Views, Views[m].view = "albums", NEW id,
         id = prefixed(Views[m].view, Root), NEW n, Held(id, n), NEW r \in Coming(id)
  PROVE  r.tag # "item"
<1> SUFFICES ASSUME r.tag = "item" PROVE FALSE
  OBVIOUS
<1>1. Root \in LocalIds /\ ModeIs(Views[m])
  BY RootLocal, MountsAre
<1>2. Opens(Views[m], Root, n)
  BY <1>1, HeldMounted
<1>3. PICK l \in Children(Views[m], Root) : \E k \in 1 .. Len(l) : RowOf(r, Views[m].view, l[k])
  BY <1>1, <1>2, RowIs
<1>4. PICK k \in 1 .. Len(l) : RowOf(r, Views[m].view, l[k])
  BY <1>3
<1>5. l[k].path # None
  BY <1>4 DEF RowOf
<1>6. Views[m].view \in {"songs", "recent_songs"}
  BY <1>1, <1>5, TopItems
<1> QED BY <1>6

(* What a walk is told below Albums is an album's tracks, in order.        *)
LEMMA AlbumPaged ==
  ASSUME Tour, InStep, current # None, page # <<>>, Len(current) > 1, Mount(current) = "albums"
  PROVE  \/ \A i \in 1 .. Len(page) : page[i].tag # "item"
         \/ \E album \in Snapshot.album_ids : RowsOf(page, tracks_of_album(album), "albums")
<1>1. IndexBuilt(lib) /\ Paging
  BY StandsBuilt DEF Tour
<1>2. PICK id, n : id = current /\ n = total
  OBVIOUS
<1>3. Held(id, n) /\ page \in Seq(Coming(id))
  BY <1>1, <1>2 DEF Paging
<1>4. id # Root
  <2>1. Len(Root) = 1
    BY DEF Root
  <2>2. Len(id) > 1
    BY <1>2
  <2>3. ~(Len(Root) > 1)
    BY <2>1
  <2> QED BY <2>2, <2>3
<1>5. PICK m \in DOMAIN Views, local \in LocalIds :
        id = prefixed(Views[m].view, local) /\ Opens(Views[m], local, n)
  BY <1>3, <1>4 DEF Held
<1>6. Views[m].view = "albums"
  <2>1. PICK v : v = Views[m].view
    OBVIOUS
  <2>2. local \in Seq(IdTokens)
    BY LocalIdsAre
  <2>3. Mount(id) = v
    BY <1>5, <2>1, <2>2, LocalIs
  <2> QED BY <1>2, <2>1, <2>3
<1>7. CASE local = Root
  <2>1. ASSUME NEW i \in 1 .. Len(page) PROVE page[i].tag # "item"
    <3>1. PICK r : r = page[i]
      OBVIOUS
    <3>2. r \in Coming(id)
      BY <1>3, <3>1, ElementOfSeq
    <3>3. id = prefixed(Views[m].view, Root)
      BY <1>5, <1>7
    <3> QED BY <1>1, <1>3, <1>6, <3>1, <3>2, <3>3, AlbumsNoItems
  <2> QED BY <2>1
<1>8. CASE local # Root
  <2>1. PICK o : o \in Children(Views[m], local)
    BY <1>5 DEF Opens, Holds
  <2>2. ModeIs(Views[m]) /\ Views[m].view # "folders"
    BY <1>6, MountsAre
  <2>3. Beneath(Views[m], local, o)
    BY <1>1, <1>8, <2>1, <2>2, DeeperListed
  <2>4. local \in Snapshot.album_ids /\ NoArtist(Views[m], local) /\ Views[m].view \in AlbumViews
    BY <1>6, <2>3 DEF Beneath
  <2>5. RowsOf(page, tracks_of_album(local), Views[m].view)
    BY <1>1, <1>2, <1>5, <2>4, AlbumRows
  <2> QED BY <1>6, <2>4, <2>5
<1> QED BY <1>7, <1>8

(* A row's title and the numbers of any two, as their names mean them.     *)
TitleMeant(r) == FileOf(Local(r.id)).tag = None => r.title = FileOf(Local(r.id)).meant.title

OrderMeant(r, s) ==
  FileOf(Local(r.id)).tag = None /\ FileOf(Local(s.id)).tag = None
  /\ FileOf(Local(r.id)).meant.number # None /\ FileOf(Local(s.id)).meant.number # None
    => FileOf(Local(r.id)).meant.number <= FileOf(Local(s.id)).meant.number

LEMMA RowsMeant ==
  ASSUME NamesMean, Stands, NEW album \in Snapshot.album_ids, NEW rows, NEW v,
         RowsOf(rows, tracks_of_album(album), v), Len(rows) \in Nat
  PROVE  /\ \A a \in 1 .. Len(rows) : TitleMeant(rows[a])
         /\ \A a, b \in 1 .. Len(rows) : a < b => OrderMeant(rows[a], rows[b])
<1>1. PICK l, n : l = tracks_of_album(album) /\ n = Len(rows)
  OBVIOUS
<1>2. IndexBuilt(lib)
  BY StandsBuilt
<1>3. /\ NumbersRise(l)
      /\ \A i \in 1 .. Len(l) : l[i].id \in Items /\ l[i] = RealEntry(l[i].id)
  BY <1>1, <1>2, AlbumOrdered
<1>4. ASSUME NEW a \in 1 .. n
      PROVE  /\ a \in 1 .. Len(l) /\ l[a].id \in Items /\ Local(rows[a].id) = l[a].id
             /\ rows[a].title = lib.items[l[a].id].title
  <2>1. a \in 1 .. Len(l) /\ rows[a].id = prefixed(v, l[a].id) /\ rows[a].title = l[a].title
    BY <1>1 DEF RowsOf
  <2>2. PICK item : item = l[a].id
    OBVIOUS
  <2>3. item \in Items /\ l[a] = RealEntry(item)
    BY <1>3, <2>1, <2>2
  <2>4. item \in Seq(IdTokens)
    BY <1>2, <2>3, IdsLocal, LocalIdsAre
  <2>5. Local(rows[a].id) = item
    BY <2>1, <2>2, <2>4, LocalIs
  <2>6. l[a].title = lib.items[item].title
    BY <2>3 DEF RealEntry, IsItem, Track
  <2> QED BY <2>1, <2>2, <2>3, <2>5, <2>6
<1>5. ASSUME NEW a \in 1 .. n PROVE TitleMeant(rows[a])
  <2>1. PICK item : item = l[a].id
    OBVIOUS
  <2>2. item \in Items /\ Local(rows[a].id) = item /\ rows[a].title = lib.items[item].title
    BY <1>4, <2>1
  <2>3. FileOf(item).tag = None => lib.items[item].title = FileOf(item).meant.title
    BY <2>2, BareScanned
  <2> QED BY <2>2, <2>3 DEF TitleMeant
<1>6. ASSUME NEW a \in 1 .. n, NEW b \in 1 .. n, a < b PROVE OrderMeant(rows[a], rows[b])
  <2>1. PICK item, other : item = l[a].id /\ other = l[b].id
    OBVIOUS
  <2>2. /\ item \in Items /\ Local(rows[a].id) = item
        /\ other \in Items /\ Local(rows[b].id) = other
    BY <1>4, <2>1
  <2>3. NumberOf(item) # None /\ NumberOf(other) # None => NumberOf(item) <= NumberOf(other)
    BY <1>3, <1>4, <1>6, <2>1 DEF NumbersRise
  <2>4. FileOf(item).tag = None => NumberOf(item) = FileOf(item).meant.number
    BY <2>2, BareScanned
  <2>5. FileOf(other).tag = None => NumberOf(other) = FileOf(other).meant.number
    BY <2>2, BareScanned
  <2> QED BY <2>2, <2>3, <2>4, <2>5 DEF OrderMeant
<1> QED BY <1>1, <1>5, <1>6

(* Tracks without a tag of their own come with the title their name means, *)
(* and an album's in the order of the numbers their names mean, where each *)
(* name is read as what it means (metadata/mod.rs, whose fallback is       *)
(* metadata/filename.rs; music_library.rs, tracks_of_album; composite.rs;  *)
(* dispatch.rs, paginate).                                                 *)
THEOREM TracksAsMeant ==
  ASSUME NamesMean
  PROVE  Spec => []NumberedAsMeant
<1>1. Tour /\ InStep => NumberedAsMeant
  <2> SUFFICES ASSUME Tour, InStep, current # None, Len(current) > 1, Mount(current) = "albums",
                      NEW track, track = Only(page, {e \in ToSet(page) : e.tag = "item"})
               PROVE  /\ \A i \in DOMAIN track : TitleMeant(track[i])
                      /\ \A i, j \in DOMAIN track : i < j => OrderMeant(track[i], track[j])
    BY DEF NumberedAsMeant, TitleMeant, OrderMeant, FileOf
  <2>1. Stands
    BY DEF Tour
  <2>2. PICK rows, n, X : rows = page /\ n = Len(page) /\ X = Coming(current)
    OBVIOUS
  <2>3. rows \in Seq(X) /\ n \in Nat /\ n = Len(rows)
    BY <2>2, LenProperties DEF Tour, Paging
  <2>4. PICK set : set = {e \in ToSet(page) : e.tag = "item"}
    OBVIOUS
  <2>5. /\ track \in Seq(X \cap set) /\ ToSet(track) = ToSet(rows) \cap set
        /\ InOrderOf(track, rows, n)
    BY <2>2, <2>3, <2>4, OnlyCollects, OnlyOrders
  <2>6. DOMAIN track = 1 .. Len(track)
    BY <2>5, LenProperties
  <2>7. CASE \A a \in 1 .. n : rows[a].tag # "item"
    <3>1. DOMAIN track = {}
      <4> SUFFICES ASSUME NEW i \in DOMAIN track PROVE FALSE
        OBVIOUS
      <4>1. PICK a \in 1 .. n : track[i] = rows[a]
        BY <2>5, <2>6 DEF InOrderOf
      <4>2. track[i] \in set
        BY <2>5, <2>6, ElementOfSeq
      <4> QED BY <2>4, <2>7, <4>1, <4>2
    <3> QED BY <3>1
  <2>8. CASE \E album \in Snapshot.album_ids : RowsOf(rows, tracks_of_album(album), "albums")
    <3>1. PICK v : v = "albums"
      OBVIOUS
    <3>2. PICK album \in Snapshot.album_ids : RowsOf(rows, tracks_of_album(album), v)
      BY <2>8, <3>1
    <3>3. /\ \A a \in 1 .. n : TitleMeant(rows[a])
          /\ \A a, b \in 1 .. n : a < b => OrderMeant(rows[a], rows[b])
      BY <2>1, <2>3, <3>2, RowsMeant
    <3>4. ASSUME NEW i \in DOMAIN track PROVE TitleMeant(track[i])
      <4>1. PICK a \in 1 .. n : track[i] = rows[a]
        BY <2>5, <2>6 DEF InOrderOf
      <4> QED BY <3>3, <4>1
    <3>5. ASSUME NEW i \in DOMAIN track, NEW j \in DOMAIN track, i < j
          PROVE  OrderMeant(track[i], track[j])
      <4>1. \A f, g \in 1 .. Len(track) : f < g =>
              \E a, b \in 1 .. n : a < b /\ track[f] = rows[a] /\ track[g] = rows[b]
        BY <2>5, Zenon DEF InOrderOf
      <4>2. i \in 1 .. Len(track) /\ j \in 1 .. Len(track)
        BY <2>6
      <4>3. PICK a, b \in 1 .. n : a < b /\ track[i] = rows[a] /\ track[j] = rows[b]
        BY <3>5, <4>1, <4>2, Zenon
      <4> QED BY <3>3, <4>3
    <3> QED BY <3>4, <3>5
  <2>9. CASE page = <<>>
    <3>1. n = 0
      BY <2>2, <2>9
    <3> QED BY <2>7, <3>1
  <2>10. CASE page # <<>>
    <3>1. \/ \A a \in 1 .. Len(page) : page[a].tag # "item"
          \/ \E album \in Snapshot.album_ids : RowsOf(page, tracks_of_album(album), "albums")
      BY <2>10, AlbumPaged
    <3> QED BY <2>2, <2>7, <2>8, <3>1
  <2> QED BY <2>9, <2>10
<1> QED BY <1>1, TourAlways, InStepAlways, PTL
=============================================================================
