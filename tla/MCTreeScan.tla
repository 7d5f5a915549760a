----------------------------- MODULE MCTreeScan -----------------------------
(* For TLC: a media directory of two levels with an excluded folder and a  *)
(* link back up, a second one with links to a folder and to a track, and   *)
(* the ways to configure them.                                             *)
EXTENDS TreeScan

CONSTANTS music, live, studio, tmp, attic, one, two, three, four, nfo,
          up, shelf, alias

MCEntries == {music, live, studio, tmp, attic, one, two, three, four, nfo,
              up, shelf, alias}

MCKind ==
  [e \in MCEntries |->
     CASE e \in {music, live, studio, tmp, attic} -> "dir"
       [] e \in {one, two, three, four} -> "audio"
       [] e = nfo -> "other"
       [] e \in {up, shelf, alias} -> "link"]

MCInside ==
  [d \in {music, live, studio, tmp, attic} |->
     CASE d = music  -> {live, studio, tmp}
       [] d = live   -> {one, up}
       [] d = studio -> {two, nfo}
       [] d = tmp    -> {three}
       [] d = attic  -> {four, shelf, alias}]

MCLinkTo == (up :> music) @@ (shelf :> live) @@ (alias :> two)

Config(roots, follow) == [roots |-> roots, follow |-> follow]

MCConfigs ==
  {Config(<<music>>, TRUE), Config(<<attic, music>>, FALSE),
   Config(<<attic, tmp>>, TRUE), Config(<<up, tmp>>, TRUE),
   Config(<<two, live, live>>, FALSE), Config(<<attic, up>>, FALSE),
   Config(<<live>>, TRUE)}
=============================================================================
