------------------------------ MODULE MCRescan ------------------------------
(* Small libraries for TLC: every track lies in the one folder, and the    *)
(* second version of a file is the one with a picture in its tag.          *)
EXTENDS Rescan

CONSTANTS p1, p2, album

MCFolders     == {album}
MCFolderOf    == [p \in Paths |-> album]
=============================================================================
