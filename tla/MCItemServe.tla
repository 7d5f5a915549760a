---------------------------- MODULE MCItemServe -----------------------------
(* For TLC: one item, a place it may lead to inside the media directories  *)
(* and one outside, two files of three, one or no bytes, and offsets below *)
(* at and above the largest number the server can hold.                    *)
EXTENDS ItemServe

CONSTANTS long, short, empty

MCSize == [c \in {long, short, empty} |-> CASE c = long -> 3 [] c = short -> 1 [] c = empty -> 0]

Bytes(first, last) == [first |-> first, last |-> last]

MCRangeHeaders ==
  {Bytes(None, None), Bytes(None, 0), Bytes(None, 2), Bytes(None, 4),
   Bytes(0, 1), Bytes(1, None), Bytes(1, 3), Bytes(2, 1), Bytes(3, None)}
=============================================================================
