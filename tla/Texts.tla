------------------------------- MODULE Texts --------------------------------
(* Texts as sequences of tokens: a token is a character, or a run of them  *)
(* that no code looks into.                                                *)
EXTENDS Lists

CONSTANT None   \* no text, no value, no answer

(* str::trim.                                                              *)
trim(text) ==
  LET solid == {i \in DOMAIN text : text[i] # " "}
  IN IF solid = {} THEN <<>> ELSE SubSeq(text, Min(solid), Max(solid))

(* Option::or.                                                             *)
Or(value, otherwise) == IF value # None THEN value ELSE otherwise

(* The first place from i on that passes Test; 0 if none does.             *)
FirstFrom(seq, i, Test(_)) == SelectInSubSeq(seq, i, Len(seq), Test)
=============================================================================
