--------------------------- MODULE MCLibraryWalk ----------------------------
(* For TLC: a media directory with a folder of up to two files, and one    *)
(* after it that holds a file, or a file and a folder with another in it,  *)
(* numbered the way a scan numbers them.                                   *)
EXTENDS LibraryWalk, TLC

CONSTANTS a, b, c

Found(files, deeper) ==
  LET second == 3 + Len(files)
      third  == second + 1
      first  == [i \in 1 .. Len(files) |-> 2 + i]
      place  == [id \in 3 .. 2 + Len(files) |-> files[id - 2]]
      title  == (0 :> "") @@ (1 :> "Music") @@ (2 :> "first") @@ (second :> "second")
  IN IF deeper
     THEN [children |-> (0 :> <<1>>) @@ (1 :> <<2, second>>) @@ (2 :> first)
                          @@ (second :> <<third, third + 2>>) @@ (third :> <<third + 1>>),
           track |-> (third + 1 :> c) @@ (third + 2 :> b) @@ place,
           title |-> title @@ (third :> "third")]
     ELSE [children |-> (0 :> <<1>>) @@ (1 :> <<2, second>>) @@ (2 :> first)
                          @@ (second :> <<third>>),
           track |-> (third :> c) @@ place, title |-> title]

MCIndexes == {Found(<<>>, FALSE), Found(<<a>>, FALSE), Found(<<a, b>>, FALSE),
              Found(<<a>>, TRUE)}
=============================================================================
