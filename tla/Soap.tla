-------------------------------- MODULE Soap --------------------------------
(***************************************************************************)
(* A SOAP request's body, as the XML reader hands it over event by event,  *)
(* read down to an action and its arguments (core/soap.rs), and the body a *)
(* control point writes.  An event is [kind, name]: a start, end or empty  *)
(* tag with its local name, a token of text, a reference, something else   *)
(* (a declaration, a comment), or "bad" where the reader gives up.         *)
(***************************************************************************)
EXTENDS Texts, TLC

MAX_BODY_LEN == 8192

Event(kind, name) == [kind |-> kind, name |-> name]

-----------------------------------------------------------------------------
(* Reading.  What may fail is a set: the one result, or nothing.           *)

(* Where the next event that passes Test is read from i on; 0 if the       *)
(* reader gives up or the body ends before.                                *)
Reach(events, i, Test(_)) ==
  LET j == FirstFrom(events, i, LAMBDA e : e.kind = "bad" \/ Test(e))
  IN IF j # 0 /\ events[j].kind = "bad" THEN 0 ELSE j

Entities == [amp |-> "&", lt |-> "<", gt |-> ">", apos |-> "'", quot |-> "\""]

CharRefs ==
  [name \in {"#38", "#60", "#62", "#39", "#34"} |->
     CASE name = "#38" -> "&" [] name = "#60" -> "<" [] name = "#62" -> ">"
       [] name = "#39" -> "'" [] name = "#34" -> "\""]

(* Mutant: references fall out of the text around them.                    *)
IgnoreReference(name) == {<<>>}

(* A character by its number, or by the name XML predefines for it; any    *)
(* other name fails.                                                       *)
resolve_general_ref(name) ==
  {<<CharRefs[known]>> : known \in {name} \cap DOMAIN CharRefs}
    \cup {<<Entities[known]>> : known \in {name} \cap DOMAIN Entities}

(* The text up to the next end tag, trimmed once, when it is whole.        *)
read_text_until_end(events) ==
  LET Piece(e) == CASE e.kind = "text" -> {<<e.name>>}
                    [] e.kind = "ref"  -> resolve_general_ref(e.name)
                    [] OTHER           -> {<<>>}
  IN IF \A i \in DOMAIN events : Piece(events[i]) # {}
     THEN {trim(FlattenSeq([i \in DOMAIN events |->
                              CHOOSE text \in Piece(events[i]) : TRUE]))}
     ELSE {}

(* One argument more, before those read later, which replace one of the    *)
(* same name.                                                              *)
Argued(name, text, later) ==
  [n \in DOMAIN later \cup {name} |-> IF n \in DOMAIN later THEN later[n] ELSE text]

(* The arguments from i up to the action's end tag, when those further on  *)
(* are known.                                                              *)
arguments_from(events, i, known) ==
  LET j   == Reach(events, i, LAMBDA e : e.kind \in {"start", "empty", "end"})
      end == Reach(events, j + 1, LAMBDA e : e.kind = "end")
  IN IF j = 0 THEN {}
     ELSE CASE events[j].kind = "end" -> {<<>>}
            [] events[j].kind = "empty" ->
                 {Argued(events[j].name, <<>>, later) : later \in known[j + 1]}
            [] events[j].kind = "start" ->
                 IF end = 0 THEN {}
                 ELSE {Argued(events[j].name, text, later) :
                         text \in read_text_until_end(SubSeq(events, j + 1, end - 1)),
                         later \in known[end + 1]}

read_arguments(events, first) ==
  LET from[i \in 1 .. Len(events) + 1] == arguments_from(events, i, from)
  IN from[first]

(* The Body element, and the first element in it.                          *)
find_body(events) ==
  Reach(events, 1, LAMBDA e : e = Event("start", "Body"))

read_action_open(events, body) ==
  Reach(events, body + 1, LAMBDA e : e.kind \in {"start", "empty"})

parse_action(length, events) ==
  LET Called(action, arguments) == [name |-> events[action].name, arguments |-> arguments]
      Arguments(action) == IF events[action].kind = "empty" THEN {<<>>}
                           ELSE read_arguments(events, action + 1)
      actions == {read_action_open(events, body) : body \in {find_body(events)} \ {0}}
  IN IF length > MAX_BODY_LEN THEN {}
     ELSE UNION {{Called(action, arguments) : arguments \in Arguments(action)} :
                   action \in actions \ {0}}

-----------------------------------------------------------------------------
(* Writing.                                                                *)

(* A text, to the events a reader makes of it, escaped with these          *)
(* references.                                                             *)
EscapedAs(text, references) ==
  LET For(token) == {name \in DOMAIN references : references[name] = token}
  IN [i \in DOMAIN text |-> IF For(text[i]) = {} THEN Event("text", text[i])
                            ELSE Event("ref", CHOOSE name \in For(text[i]) : TRUE)]

(* quick_xml's escape.                                                     *)
Escaped(text) == EscapedAs(text, Entities)

Element(name, content) == <<Event("start", name)>> \o content \o <<Event("end", name)>>

Envelope(content) ==
  <<Event("other", "xml")>> \o Element("Envelope", Element("Body", content))
=============================================================================
